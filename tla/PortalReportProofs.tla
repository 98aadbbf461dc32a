------------------------- MODULE PortalReportProofs -------------------------
(***************************************************************************)
(* Proofs about the portal's list of serials, its screen of a report and   *)
(* its administration, as MCPortal has them, for every bound: the          *)
(* invariant of each, and what follows from it.  Of the list: a deletion   *)
(* is not forgotten.  Of the screen: what it offers is accepted, and made  *)
(* on the status it was offered in.  Of the administration: a deletion is  *)
(* decided, and an edit is made over what its author saw.  Of all: a row   *)
(* that is shown as not yet synced has its request.  PortalScreensProofs   *)
(* states them of the portal.                                              *)
(***************************************************************************)
EXTENDS MCPortal, TLAPS, FiniteSetTheorems, SequenceTheorems

----------------------------------------------------------------------------
(* The list of serials: types.                                             *)

ListId == {"local", "real"}
ListEdit == {"UPDATE", "SN_UPDATE_INSPECTION"}
ListOp == {"BULK_CREATE", "SN_DELETE"} \cup ListEdit
ListRow == [sync : {"none", "SYNCED", "PENDING", "CONFLICT", "ERROR"}, version : Nat, marked : BOOLEAN]
ListThing == [is : {"unborn", "live", "gone"}, version : Nat, marked : BOOLEAN]
ListRows == [ListSerial -> ListRow]
ListRequest == [op : ListOp \cup {"SYNC_REWORK"}, serial : ListSerial \cup {"none"}, id : ListId,
                row : ListRow, marked : BOOLEAN,
                status : {"PENDING", "SYNCED", "CONFLICT", "FAILED"}]
ListStep == {"post", "store", "write", "drop", "enqueue", "get", "see", "put", "children", "asked",
             "sync", "generate", "withoutChild"}
ListOperation == [op : ListOp \cup {"none"}, serial : ListSerial \cup {"none"}, id : ListId,
                  row : ListRow, marked : BOOLEAN, explicit : BOOLEAN, list : ListRows,
                  seen : ListRows, todo : Seq(ListStep)]
Sending == {"send", "look", "cache", "remap", "end"}
ListEntity == (ListSerial \X ListId) \cup {List!Report}
ListRun == [todo : SUBSET Nat, item : Nat, skip : SUBSET ListEntity,
            step : {"idle", "next"} \cup Sending, row : ListRow]

ListServer == server \in [ListSerial -> ListThing] /\ early \in BOOLEAN

(* What has a temporary id is unsent.                                      *)
ListCache ==
    /\ cache \in [ListSerial -> [ListId -> ListRow]]
    /\ \A s \in ListSerial : cache[s]["local"].sync \in {"none", "PENDING"}

(* An addition is taken or is in conflict, it never fails.                 *)
ListQueue ==
    /\ queue \in Seq(ListRequest)
    /\ \A k \in DOMAIN queue :
          /\ queue[k].op # "SYNC_REWORK" => queue[k].serial \in ListSerial
          /\ queue[k].op = "BULK_CREATE" => queue[k].status # "FAILED"

(* What is sent, pulled or changed comes first of what is left to do; what *)
(* is written or dropped has a request next, or needs none.                *)
ListActs == {"post", "store", "write", "drop", "get"}
ListSteps(todo) ==
    /\ \A j \in DOMAIN todo : todo[j] \in ListActs => j = 1
    /\ todo # <<>> /\ todo[1] = "get" => Len(todo) > 2
ListPlan(r) ==
    /\ r.op = "BULK_CREATE" => r.id = "local"
    /\ r.todo # <<>> =>
          /\ r.op \in ListOp /\ r.serial \in ListSerial
          /\ r.todo[1] = "write" => r.op # "SN_DELETE" /\ Len(r.todo) > 1 /\ r.todo[2] = "enqueue"
          /\ r.todo[1] = "drop" =>
                /\ r.op = "SN_DELETE"
                /\ server[r.serial].is = "gone" \/ (Len(r.todo) > 1 /\ r.todo[2] = "enqueue")
          /\ r.todo[1] = "store" => r.row.sync = "SYNCED"
ListAct ==
    /\ act \in [List!Actor -> ListOperation]
    /\ \A a \in List!Actor :
          /\ ListSteps(act[a].todo)
          /\ \A s \in ListSerial : act[a].list[s].sync \in {"none", "SYNCED"}
    /\ ListPlan(act["user"])

(* What is sent is taken off what waits in order, unless it is skipped.    *)
ListRunning ==
    /\ run \in ListRun
    /\ \A k \in run.todo : k \in DOMAIN queue /\ queue[k].status = "PENDING"
    /\ run.step \in Sending =>
          /\ run.item \in DOMAIN queue /\ queue[run.item].status = "PENDING"
          /\ \A k \in run.todo : run.item < k
          /\ List!Depends(queue[run.item]) \cap run.skip = {}
          /\ run.step \in {"look", "remap"} => queue[run.item].op = "BULK_CREATE"
          /\ run.step = "cache" => queue[run.item].op # "SN_DELETE"
          /\ run.step \in {"look", "cache"} /\ queue[run.item].op # "SYNC_REWORK" =>
                run.row.sync = "SYNCED"
          /\ run.step = "end" /\ queue[run.item].op = "SN_DELETE" =>
                server[queue[run.item].serial].is = "gone"

(* A deletion that waits under a temporary id waits for its serial's       *)
(* addition, which is sent before it or holds it back.                     *)
IsSent(k) == run.step \in Sending /\ run.item = k
Awaits(k, j) ==
    /\ queue[j].op = "BULK_CREATE" /\ queue[j].serial = queue[k].serial
    /\ queue[j].status \in {"PENDING", "CONFLICT"} /\ ~(run.step = "end" /\ run.item = j)
    /\ k \in run.todo \/ IsSent(k) => List!Report \in run.skip \/ j \in run.todo \/ IsSent(j)
Early(k) ==
    /\ queue[k].op = "SN_DELETE" /\ queue[k].id = "local" /\ queue[k].status = "PENDING"
    /\ <<"deletion", queue[k].serial>> \notin excused
ListAwaits ==
    \A k \in DOMAIN queue : Early(k) => \E j \in DOMAIN queue : j < k /\ Awaits(k, j)

Enqueues(op, s) ==
    /\ act["user"].todo # <<>> /\ act["user"].todo[1] = "enqueue"
    /\ act["user"].op = op /\ act["user"].serial = s
Deletes(k, s) ==
    /\ queue[k].op = "SN_DELETE" /\ queue[k].serial = s /\ queue[k].status # "SYNCED"
    /\ queue[k].status = "FAILED" => queue[k].id = "real"
SerialDecided(s) ==
    \/ <<"deletion", s>> \in excused
    \/ server[s].is = "gone"
    \/ Enqueues("SN_DELETE", s)
    \/ \E k \in DOMAIN queue : Deletes(k, s)
ListDecided == \A s \in dropped : s \in ListSerial /\ SerialDecided(s)

(* A row with a temporary id is owed to its addition, another to an edit.  *)
RowOp(i) == IF i = "local" THEN {"BULK_CREATE"} ELSE ListEdit
RowOver(k, i) == run.item = k /\ (run.step = "end" \/ (run.step = "remap" /\ i = "local"))
OwesRow(k, s, i) ==
    queue[k].op \in RowOp(i) /\ queue[k].serial = s /\ queue[k].status # "SYNCED" /\ ~RowOver(k, i)
ListOwed ==
    \A s \in ListSerial, i \in ListId :
        cache[s][i].sync = "PENDING" =>
            \/ <<"row", s>> \in excused
            \/ \E op \in RowOp(i) : Enqueues(op, s)
            \/ \E k \in DOMAIN queue : OwesRow(k, s, i)

ListInvariant ==
    ListServer /\ ListCache /\ ListQueue /\ ListAct /\ ListRunning /\ ListAwaits /\ ListDecided
        /\ ListOwed

(* What the server may do between a step and the next.                     *)
ListOnward ==
    ListServer' /\ \A s \in ListSerial : server[s].is = "gone" => server'[s].is = "gone"

LEMMA ListServerRests == ListServer /\ UNCHANGED <<server, early>> => ListOnward
BY DEF ListServer, ListOnward

LEMMA ListRequests ==
    ASSUME ListQueue, NEW k \in DOMAIN queue
    PROVE  /\ queue[k] \in ListRequest
           /\ queue[k].op # "SYNC_REWORK" => queue[k].op \in ListOp /\ queue[k].serial \in ListSerial
<1>1. queue[k] \in ListRequest
  BY DEF ListQueue
<1>2. queue[k].op \in ListOp \cup {"SYNC_REWORK"}
  BY <1>1 DEF ListRequest
<1> QED BY <1>1, <1>2 DEF ListQueue

LEMMA ListActors == List!Actor = {"user", "background"}
BY DEF List!Actor

LEMMA ListActStays == ListAct /\ ListOnward /\ UNCHANGED act => ListAct'
BY DEF ListAct, ListPlan, ListOnward

(* The run goes on while its requests stay as they are.                    *)
LEMMA ListRunningStays ==
    ASSUME ListQueue, ListRunning, ListOnward, UNCHANGED run, DOMAIN queue \subseteq DOMAIN queue',
           \A k \in DOMAIN queue : queue'[k] = queue[k]
    PROVE  ListRunning'
<1>1. \A k \in run.todo : k \in DOMAIN queue' /\ queue'[k].status = "PENDING"
  BY DEF ListRunning
<1>2. ASSUME run.step \in Sending
      PROVE  /\ run.item \in DOMAIN queue' /\ queue'[run.item].status = "PENDING"
             /\ \A k \in run.todo : run.item < k
             /\ List!Depends(queue'[run.item]) \cap run.skip = {}
             /\ run.step \in {"look", "remap"} => queue'[run.item].op = "BULK_CREATE"
             /\ run.step = "cache" => queue'[run.item].op # "SN_DELETE"
             /\ run.step \in {"look", "cache"} /\ queue'[run.item].op # "SYNC_REWORK" =>
                   run.row.sync = "SYNCED"
             /\ run.step = "end" /\ queue'[run.item].op = "SN_DELETE" =>
                   server'[queue'[run.item].serial].is = "gone"
  <2>1. run.item \in DOMAIN queue
    BY <1>2 DEF ListRunning
  <2>2. queue'[run.item] = queue[run.item]
    BY <2>1
  <2>3. queue[run.item].op = "SN_DELETE" => queue[run.item].serial \in ListSerial
    BY <2>1 DEF ListQueue
  <2> QED BY <1>2, <2>1, <2>2, <2>3 DEF ListRunning, ListOnward
<1> QED BY <1>1, <1>2 DEF ListRunning

LEMMA ListAwaitsStays ==
    ListAwaits /\ UNCHANGED <<queue, run>> /\ excused \subseteq excused' => ListAwaits'
BY DEF ListAwaits, Awaits, Early, IsSent

LEMMA SerialStaysDecided ==
    ASSUME ListOnward, NEW s \in ListSerial, SerialDecided(s), excused \subseteq excused',
           DOMAIN queue \subseteq DOMAIN queue',
           \A k \in DOMAIN queue :
               /\ queue'[k].op = queue[k].op /\ queue'[k].serial = queue[k].serial
               /\ queue[k].id = "real" => queue'[k].id = "real"
               /\ queue[k].op = "SN_DELETE" =>
                     \/ queue'[k].status = queue[k].status
                     \/ server[queue[k].serial].is = "gone"
                     \/ <<"deletion", queue[k].serial>> \in excused
                     \/ queue'[k].status \in {"PENDING", "CONFLICT"}
                     \/ queue'[k].status = "FAILED" /\ queue[k].id = "real",
           Enqueues("SN_DELETE", s) =>
               \/ Enqueues("SN_DELETE", s)' \/ <<"deletion", s>> \in excused'
               \/ \E k \in DOMAIN queue' : Deletes(k, s)'
    PROVE  SerialDecided(s)'
<1>1. CASE <<"deletion", s>> \in excused \/ server[s].is = "gone"
  BY <1>1 DEF SerialDecided, ListOnward
<1>2. CASE Enqueues("SN_DELETE", s)
  BY <1>2 DEF SerialDecided
<1>3. CASE \E k \in DOMAIN queue : Deletes(k, s)
  <2>1. PICK k \in DOMAIN queue : Deletes(k, s)
    BY <1>3
  <2>2. CASE server[s].is = "gone" \/ <<"deletion", s>> \in excused
    BY <2>2 DEF SerialDecided, ListOnward
  <2>3. CASE server[s].is # "gone" /\ <<"deletion", s>> \notin excused
    BY <2>1, <2>3 DEF SerialDecided, Deletes
  <2> QED BY <2>2, <2>3
<1> QED BY <1>1, <1>2, <1>3 DEF SerialDecided

(* Deletions stay decided, and rows owed, when the queue stays as it is.   *)
LEMMA ListDecidedStays ==
    ASSUME ListDecided, ListOnward, UNCHANGED <<queue, dropped>>, excused \subseteq excused',
           \A s \in ListSerial : Enqueues("SN_DELETE", s) =>
               Enqueues("SN_DELETE", s)' \/ <<"deletion", s>> \in excused'
    PROVE  ListDecided'
<1> SUFFICES ASSUME NEW s \in ListSerial, SerialDecided(s)
             PROVE  SerialDecided(s)'
  BY DEF ListDecided
<1> QED BY SerialStaysDecided

LEMMA ListOwedStays ==
    ASSUME ListOwed, UNCHANGED <<queue, run>>, excused \subseteq excused',
           \A op, s : Enqueues(op, s) => Enqueues(op, s)' \/ <<"row", s>> \in excused',
           \A s \in ListSerial, i \in ListId :
               cache'[s][i].sync = "PENDING" => cache[s][i].sync = "PENDING"
    PROVE  ListOwed'
<1> SUFFICES ASSUME NEW s \in ListSerial, NEW i \in ListId, cache'[s][i].sync = "PENDING"
             PROVE  \/ <<"row", s>> \in excused'
                    \/ \E op \in RowOp(i) : Enqueues(op, s)'
                    \/ \E k \in DOMAIN queue' : OwesRow(k, s, i)'
  BY DEF ListOwed
<1>1. CASE \E op \in RowOp(i) : Enqueues(op, s)
  BY <1>1
<1>2. CASE \E k \in DOMAIN queue : OwesRow(k, s, i)
  BY <1>2 DEF OwesRow, RowOver
<1> QED BY <1>1, <1>2 DEF ListOwed

(* A step that only moves an operation on, and requests nothing.           *)
LEMMA ListActMoves ==
    ASSUME ListInvariant, UNCHANGED <<cache, queue, run, dropped>>, excused \subseteq excused',
           ListOnward, ListAct',
           act'["user"] = act["user"] \/ (act["user"].todo # <<>> => act["user"].todo[1] # "enqueue")
    PROVE  ListInvariant'
<1>1. \A op, s : Enqueues(op, s) => Enqueues(op, s)'
  BY DEF Enqueues
<1>2. ListCache' /\ ListQueue'
  BY DEF ListInvariant, ListCache, ListQueue
<1>3. ListRunning'
  BY ListRunningStays DEF ListInvariant
<1>4. ListAwaits'
  BY ListAwaitsStays DEF ListInvariant
<1>5. ListDecided'
  BY <1>1, ListDecidedStays DEF ListInvariant
<1>6. ListOwed'
  BY <1>1, ListOwedStays DEF ListInvariant
<1> QED BY <1>2, <1>3, <1>4, <1>5, <1>6 DEF ListInvariant, ListOnward

(* ----------------------- what is left to be done ----------------------- *)

LEMMA LeftOver ==
    ASSUME NEW r \in ListOperation, NEW todo \in Seq(ListStep)
    PROVE  /\ List!Left(r, todo) \in ListOperation /\ List!Left(r, todo).todo = todo
           /\ List!Left(r, todo).op = r.op /\ List!Left(r, todo).serial = r.serial
           /\ List!Left(r, todo).id = r.id /\ List!Left(r, todo).row = r.row
           /\ List!Left(r, todo).list = r.list
BY DEF List!Left, ListOperation
LEMMA CarryingRow ==
    ASSUME NEW r \in ListOperation, NEW row \in ListRow
    PROVE  /\ List!Carrying(r, row) \in ListOperation /\ List!Carrying(r, row).row = row
           /\ List!Carrying(r, row).op = r.op /\ List!Carrying(r, row).serial = r.serial
           /\ List!Carrying(r, row).id = r.id /\ List!Carrying(r, row).list = r.list
BY DEF List!Carrying, ListOperation
LEMMA ListingRows ==
    ASSUME NEW r \in ListOperation, NEW list \in ListRows
    PROVE  /\ List!Listing(r, list) \in ListOperation /\ List!Listing(r, list).list = list
           /\ List!Listing(r, list).op = r.op /\ List!Listing(r, list).serial = r.serial
           /\ List!Listing(r, list).id = r.id /\ List!Listing(r, list).row = r.row
BY DEF List!Listing, ListOperation
LEMMA SeeingRows ==
    ASSUME NEW r \in ListOperation, NEW seen \in ListRows
    PROVE  /\ List!Seeing(r, seen) \in ListOperation /\ List!Seeing(r, seen).list = r.list
           /\ List!Seeing(r, seen).op = r.op /\ List!Seeing(r, seen).serial = r.serial
           /\ List!Seeing(r, seen).id = r.id /\ List!Seeing(r, seen).row = r.row
BY DEF List!Seeing, ListOperation
LEMMA ImplicitOne ==
    ASSUME NEW r \in ListOperation
    PROVE  /\ List!Implicit(r) \in ListOperation /\ List!Implicit(r).list = r.list
           /\ List!Implicit(r).op = r.op /\ List!Implicit(r).serial = r.serial
           /\ List!Implicit(r).id = r.id /\ List!Implicit(r).row = r.row
BY DEF List!Implicit, ListOperation

LEMMA NoListRow == List!NoRow \in ListRow /\ List!NoRow.sync = "none"
BY DEF List!NoRow, ListRow

LEMMA IdleOperation ==
    /\ List!Idle \in ListOperation /\ List!Idle.todo = <<>> /\ List!Idle.op = "none"
    /\ \A s \in ListSerial : List!Idle.list[s].sync = "none"
<1>1. PICK list : list = List!NoList
  OBVIOUS
<1>2. list \in ListRows /\ \A s \in ListSerial : list[s].sync = "none"
  BY <1>1, NoListRow DEF List!NoList, ListRows
<1>3. List!Idle = [op |-> "none", serial |-> "none", id |-> "real", row |-> List!NoRow,
                   marked |-> FALSE, explicit |-> FALSE, list |-> list, seen |-> list, todo |-> <<>>]
  BY <1>1, Zenon DEF List!Idle, List!NoOperation, List!NoSerial
<1>4. <<>> \in Seq(ListStep)
  OBVIOUS
<1> QED BY <1>2, <1>3, <1>4, NoListRow DEF ListOperation, ListId

LEMMA GeneratingSteps ==
    /\ List!Generating \in Seq(ListStep) /\ List!Generating # <<>>
    /\ \A j \in DOMAIN List!Generating : List!Generating[j] \notin ListActs
    /\ List!Generating[1] # "enqueue"
<1>1. CASE connected
  BY <1>1 DEF List!Generating, ListStep, ListActs
<1>2. CASE ~connected
  <2>1. List!Generating = <<"withoutChild", "asked", "sync">>
    BY <1>2 DEF List!Generating
  <2> QED BY <2>1 DEF ListStep, ListActs
<1> QED BY <1>1, <1>2

(* The operation goes on to what is left, or ends.                         *)
LEMMA WentOn ==
    ASSUME ListAct, ListOnward, NEW a \in List!Actor, NEW todo \in Seq(ListStep),
           act[a].todo # <<>>, List!Goes(a, todo), \A j \in DOMAIN todo : todo[j] \notin ListActs
    PROVE  /\ ListAct'
           /\ \A b \in List!Actor : b # a => act'[b] = act[b]
           /\ todo # <<>> => /\ act'[a].todo = todo /\ act'[a].op = act[a].op
                             /\ act'[a].serial = act[a].serial
<1>1. act \in [List!Actor -> ListOperation] /\ act[a] \in ListOperation
  BY DEF ListAct
<1>2. PICK x, y, z : x = List!Left(act[a], todo) /\ y = List!Left(List!Implicit(act[a]), List!Generating)
                     /\ z = List!Idle
  OBVIOUS
<1>3. \/ todo # <<>> /\ act' = [act EXCEPT ![a] = x]
      \/ todo = <<>> /\ act' = [act EXCEPT ![a] = y]
      \/ todo = <<>> /\ act' = [act EXCEPT ![a] = z]
  BY <1>2 DEF List!Goes
<1>4. ASSUME NEW r \in ListOperation, act' = [act EXCEPT ![a] = r],
             \A s \in ListSerial : r.list[s].sync \in {"none", "SYNCED"},
             \A j \in DOMAIN r.todo : r.todo[j] \notin ListActs,
             a = "user" /\ r.op = "BULK_CREATE" => r.id = "local",
             r.todo # <<>> => r.op = act[a].op /\ r.serial = act[a].serial
      PROVE  ListAct' /\ act'[a] = r /\ \A b \in List!Actor : b # a => act'[b] = act[b]
  <2>1. act' \in [List!Actor -> ListOperation] /\ act'[a] = r
        /\ \A b \in List!Actor : b # a => act'[b] = act[b]
    BY <1>1, <1>4
  <2>0. \A b \in List!Actor : ListSteps(act'[b].todo)
    <3>1. ListSteps(r.todo)
      <4>1. r.todo \in Seq(ListStep)
        BY DEF ListOperation
      <4> QED BY <1>4, <4>1 DEF ListSteps, ListActs
    <3> QED BY <2>1, <3>1 DEF ListAct
  <2>2. ListPlan(act["user"])'
    <3>1. CASE a = "user"
      <4>1. r.todo # <<>> => r.op \in ListOp /\ r.serial \in ListSerial
        BY <1>4, <3>1 DEF ListAct, ListPlan
      <4>2. r.todo \in Seq(ListStep)
        BY DEF ListOperation
      <4>3. r.todo # <<>> => r.todo[1] \notin ListActs
        BY <1>4, <4>2
      <4>4. act'["user"] = r
        BY <2>1, <3>1
      <4> QED BY <1>4, <3>1, <4>1, <4>3, <4>4 DEF ListPlan, ListActs
    <3>2. CASE a # "user"
      <4>1. act'["user"] = act["user"]
        BY <2>1, <3>2, ListActors
      <4> QED BY <4>1 DEF ListAct, ListPlan, ListOnward
    <3> QED BY <3>1, <3>2
  <2> QED BY <1>4, <2>0, <2>1, <2>2 DEF ListAct
<1>5. /\ \A s \in ListSerial : act[a].list[s].sync \in {"none", "SYNCED"}
      /\ a = "user" /\ act[a].op = "BULK_CREATE" => act[a].id = "local"
  BY DEF ListAct, ListPlan
<1>6. CASE todo # <<>>
  <2>1. /\ x \in ListOperation /\ x.todo = todo /\ x.op = act[a].op /\ x.serial = act[a].serial
        /\ x.id = act[a].id /\ x.list = act[a].list
    BY <1>1, <1>2, LeftOver
  <2>2. act' = [act EXCEPT ![a] = x]
    BY <1>3, <1>6
  <2>3. ListAct' /\ act'[a] = x /\ \A b \in List!Actor : b # a => act'[b] = act[b]
    BY <1>4, <1>5, <2>1, <2>2
  <2> QED BY <2>1, <2>3
<1>7. CASE act' = [act EXCEPT ![a] = y] /\ todo = <<>>
  <2>1. PICK w : w = List!Implicit(act[a])
    OBVIOUS
  <2>2. PICK t : t = List!Generating
    OBVIOUS
  <2>3. /\ w \in ListOperation /\ w.op = act[a].op /\ w.serial = act[a].serial
        /\ w.id = act[a].id /\ w.list = act[a].list
    BY <1>1, <2>1, ImplicitOne
  <2>4. t \in Seq(ListStep) /\ \A j \in DOMAIN t : t[j] \notin ListActs
    BY <2>2, GeneratingSteps
  <2>5. y = List!Left(w, t)
    BY <1>2, <2>1, <2>2
  <2>6. /\ y \in ListOperation /\ y.todo = t /\ y.op = w.op /\ y.serial = w.serial
        /\ y.id = w.id /\ y.list = w.list
    BY <2>3, <2>4, <2>5, LeftOver
  <2> QED BY <1>4, <1>5, <1>7, <2>3, <2>4, <2>6
<1>8. CASE act' = [act EXCEPT ![a] = z] /\ todo = <<>>
  BY <1>2, <1>4, <1>8, IdleOperation
<1> QED BY <1>3, <1>6, <1>7, <1>8

(* What is left after the first step.                                      *)
LEMMA RestIs ==
    ASSUME ListAct, NEW a \in List!Actor, act[a].todo # <<>>
    PROVE  /\ List!Rest(a) \in Seq(ListStep) /\ act[a].todo \in Seq(ListStep)
           /\ Len(act[a].todo) > 1 => List!Rest(a) # <<>> /\ List!Rest(a)[1] = act[a].todo[2]
           /\ \A j \in DOMAIN List!Rest(a) : List!Rest(a)[j] \notin ListActs
           /\ Head(act[a].todo) = act[a].todo[1]
<1>1. PICK todo : todo = act[a].todo
  OBVIOUS
<1>2. todo \in Seq(ListStep) /\ todo # <<>>
  BY <1>1 DEF ListAct, ListOperation
<1>3. List!Rest(a) = Tail(todo)
  BY <1>1 DEF List!Rest
<1>4. /\ Tail(todo) \in Seq(ListStep) /\ Len(Tail(todo)) = Len(todo) - 1
      /\ \A j \in DOMAIN Tail(todo) : j + 1 \in DOMAIN todo /\ j \in Nat \ {0} /\ Tail(todo)[j] = todo[j + 1]
  BY <1>2
<1>5. \A j \in DOMAIN todo : todo[j] \in ListActs => j = 1
  BY <1>1 DEF ListAct, ListSteps
<1>6. Len(todo) > 1 => Tail(todo) # <<>> /\ Tail(todo)[1] = todo[2]
  <2> SUFFICES ASSUME Len(todo) > 1
               PROVE  Tail(todo) # <<>> /\ Tail(todo)[1] = todo[2]
    OBVIOUS
  <2>1. Len(Tail(todo)) >= 1 /\ 1 \in DOMAIN Tail(todo)
    BY <1>2, <1>4
  <2>2. Tail(todo)[1] = todo[1 + 1] /\ 1 + 1 = 2
    BY <1>4, <2>1
  <2>3. Tail(todo)[1] = todo[2]
    BY <2>2, Zenon
  <2>4. 1 \notin DOMAIN <<>>
    OBVIOUS
  <2> QED BY <2>1, <2>3, <2>4, Zenon
<1> QED BY <1>1, <1>2, <1>3, <1>4, <1>5, <1>6

(* The steps of an operation that only ask and answer.                     *)
LEMMA LookingKeeps ==
    ASSUME ListInvariant, List!LookForChild \/ List!LookForRequest
    PROVE  ListInvariant'
<1>1. UNCHANGED <<server, early, cache, queue, run, dropped, excused>>
  BY DEF List!LookForChild, List!LookForRequest, List!serverVars, List!deviceVars, List!ghostVars
<1>2. ListOnward /\ ListAct /\ "user" \in List!Actor
  BY <1>1, ListServerRests, ListActors DEF ListInvariant
<1>3. /\ act["user"].todo # <<>> /\ Head(act["user"].todo) # "enqueue"
      /\ List!Goes("user", List!Rest("user")) \/ List!Goes("user", <<>>)
  BY DEF List!LookForChild, List!LookForRequest, List!Now
<1>4. ListAct'
  <2>1. PICK todo : todo = List!Rest("user")
    OBVIOUS
  <2>2. todo \in Seq(ListStep) /\ \A j \in DOMAIN todo : todo[j] \notin ListActs
    BY <1>2, <1>3, <2>1, RestIs
  <2>3. CASE List!Goes("user", todo)
    BY <1>2, <1>3, <2>2, <2>3, WentOn
  <2>4. CASE List!Goes("user", <<>>)
    <3>1. <<>> \in Seq(ListStep) /\ \A j \in DOMAIN <<>> : <<>>[j] \notin ListActs
      OBVIOUS
    <3> QED BY <1>2, <1>3, <2>4, <3>1, WentOn
  <2> QED BY <1>3, <2>1, <2>3, <2>4
<1>5. act["user"].todo[1] # "enqueue"
  BY <1>2, <1>3, RestIs
<1> QED BY <1>1, <1>2, <1>4, <1>5, ListActMoves

(* ---------------------- the screen's operations ------------------------ *)

LEMMA FollowingSteps ==
    /\ List!Following = <<"children", "asked", "sync">> /\ List!Pulling = <<"get", "see", "put">>
    /\ List!Pulling \in Seq(ListStep)
BY DEF List!Following, List!Pulling, ListStep

LEMMA JoinedSteps ==
    ASSUME NEW s \in Seq(ListStep), NEW t \in Seq(ListStep)
    PROVE  /\ s \o t \in Seq(ListStep) /\ Len(s \o t) = Len(s) + Len(t)
           /\ \A j \in DOMAIN (s \o t) : (s \o t)[j] = IF j <= Len(s) THEN s[j] ELSE t[j - Len(s)]
OBVIOUS

(* What is first to be done of a plan, and what is next.                   *)
LEMMA PlannedSteps ==
    ASSUME NEW s \in Seq(ListStep), NEW t \in Seq(ListStep), NEW n \in {1, 2}, Len(s) = n,
           s[2] = "enqueue" \/ n = 1,
           \A j \in DOMAIN t : t[j] \notin ListActs
    PROVE  /\ s \o t \in Seq(ListStep) /\ s \o t # <<>> /\ (s \o t)[1] = s[1]
           /\ n = 2 => Len(s \o t) > 1 /\ (s \o t)[2] = "enqueue"
           /\ \A j \in DOMAIN (s \o t) : (s \o t)[j] \in ListActs => j = 1
<1>1. s \o t \in Seq(ListStep) /\ Len(s \o t) = n + Len(t) /\ DOMAIN s = 1..n
  OBVIOUS
<1>2. \A j \in DOMAIN (s \o t) : (s \o t)[j] = IF j <= n THEN s[j] ELSE t[j - n]
  OBVIOUS
<1>3. ASSUME NEW j \in DOMAIN (s \o t), j # 1
      PROVE  (s \o t)[j] \notin ListActs
  <2>1. CASE j <= n
    BY <1>1, <1>2, <1>3, <2>1 DEF ListActs
  <2>2. CASE j > n
    <3>1. j - n \in DOMAIN t
      BY <1>1, <2>2
    <3> QED BY <1>2, <2>2, <3>1
  <2> QED BY <1>1, <2>1, <2>2
<1> QED BY <1>1, <1>2, <1>3

(* The steps that are left when there is no answer, and when there is one. *)
LEMMA LocalSteps ==
    ASSUME NEW op \in ListOp, NEW t, t = List!Locally(op)
    PROVE  /\ t \in Seq(ListStep) /\ t # <<>>
           /\ \A j \in DOMAIN t : t[j] \in ListActs => j = 1
           /\ t[1] = IF op = "SN_DELETE" THEN "drop" ELSE "write"
           /\ Len(t) > 1 /\ t[2] = "enqueue"
<1>1. PICK f, w, d : f = <<"children", "asked", "sync">> /\ w = <<"write", "enqueue">> /\ d = <<"drop", "enqueue">>
  OBVIOUS
<1>2. /\ f \in Seq(ListStep) /\ \A j \in DOMAIN f : f[j] \notin ListActs
      /\ w \in Seq(ListStep) /\ Len(w) = 2 /\ w[1] = "write" /\ w[2] = "enqueue"
      /\ d \in Seq(ListStep) /\ Len(d) = 2 /\ d[1] = "drop" /\ d[2] = "enqueue"
  BY <1>1 DEF ListStep, ListActs
<1>3. List!Following = f
  BY <1>1, FollowingSteps
<1>4. CASE op = "SN_DELETE"
  <2>1. t = d \o f
    BY <1>1, <1>3, <1>4 DEF List!Locally
  <2> QED BY <1>2, <1>4, <2>1, PlannedSteps
<1>5. CASE op \in {"BULK_CREATE", "SN_UPDATE_INSPECTION"}
  <2>1. t = w \o f
    BY <1>1, <1>3, <1>5 DEF List!Locally
  <2> QED BY <1>2, <1>5, <2>1, PlannedSteps
<1>6. CASE op = "UPDATE"
  <2>1. t = w
    BY <1>1, <1>6 DEF List!Locally
  <2> QED BY <1>2, <1>6, <2>1 DEF ListActs
<1> QED BY <1>4, <1>5, <1>6 DEF ListOp, ListEdit

LEMMA AnsweringSteps ==
    ASSUME NEW op \in ListOp, NEW t, t = List!Answering(op)
    PROVE  /\ t \in Seq(ListStep) /\ t # <<>>
           /\ ListSteps(t)
           /\ t[1] = (CASE op = "BULK_CREATE" -> "get" [] op = "SN_DELETE" -> "drop" [] OTHER -> "store")
<1>1. PICK f, p, d, s : /\ f = <<"children", "asked", "sync">> /\ p = <<"get", "see", "put">>
                        /\ d = <<"drop">> /\ s = <<"store">>
  OBVIOUS
<1>2. /\ f \in Seq(ListStep) /\ \A j \in DOMAIN f : f[j] \notin ListActs
      /\ d \in Seq(ListStep) /\ Len(d) = 1 /\ d[1] = "drop"
      /\ s \in Seq(ListStep) /\ Len(s) = 1 /\ s[1] = "store"
  BY <1>1 DEF ListStep, ListActs
<1>3. List!Following = f /\ List!Pulling = p
  BY <1>1, FollowingSteps
<1>4. CASE op = "SN_DELETE"
  <2>1. t = d \o f
    BY <1>1, <1>3, <1>4 DEF List!Answering
  <2> QED BY <1>2, <1>4, <2>1, PlannedSteps DEF ListSteps
<1>5. CASE op = "SN_UPDATE_INSPECTION"
  <2>1. t = s \o f
    BY <1>1, <1>3, <1>5 DEF List!Answering
  <2> QED BY <1>2, <1>5, <2>1, PlannedSteps DEF ListSteps
<1>6. CASE op = "UPDATE"
  <2>1. t = s
    BY <1>1, <1>6 DEF List!Answering
  <2> QED BY <1>2, <1>6, <2>1 DEF ListActs, ListSteps
<1>7. CASE op = "BULK_CREATE"
  <2>1. t = p \o f
    BY <1>3, <1>7 DEF List!Answering
  <2>2. /\ p \in Seq(ListStep) /\ f \in Seq(ListStep) /\ p[1] = "get" /\ Len(p) = 3
        /\ p[2] \notin ListActs /\ p[3] \notin ListActs
    BY <1>1 DEF ListStep, ListActs
  <2>3. \A j \in DOMAIN f : f[j] \notin ListActs
    BY <1>2
  <2>4. /\ p \o f \in Seq(ListStep) /\ Len(p \o f) = Len(p) + Len(f)
        /\ \A j \in DOMAIN (p \o f) : (p \o f)[j] = IF j <= Len(p) THEN p[j] ELSE f[j - Len(p)]
    BY <2>2, JoinedSteps, Zenon
  <2>5. (p \o f)[1] = "get" /\ p \o f # <<>>
    BY <2>2, <2>4
  <2>6. ASSUME NEW j \in DOMAIN (p \o f), j # 1
        PROVE  (p \o f)[j] \notin ListActs
    <3>1. CASE j <= 3
      <4>1. j = 2 \/ j = 3
        BY <2>2, <2>4, <2>6, <3>1
      <4>2. (p \o f)[j] = p[j]
        BY <2>2, <2>4, <3>1
      <4> QED BY <2>2, <4>1, <4>2
    <3>2. CASE j > 3
      <4>1. j - 3 \in DOMAIN f
        BY <2>2, <2>4, <3>2
      <4>2. (p \o f)[j] = f[j - 3]
        BY <2>2, <2>4, <3>2
      <4> QED BY <2>3, <4>1, <4>2, Zenon
    <3> QED BY <2>2, <2>4, <3>1, <3>2
  <2>7. Len(p \o f) > 2
    BY <2>2, <2>4
  <2>8. ListSteps(p \o f)
    BY <2>6, <2>7, Zenon DEF ListSteps
  <2> QED BY <1>7, <2>1, <2>4, <2>5, <2>8
<1> QED BY <1>4, <1>5, <1>6, <1>7 DEF ListOp, ListEdit

(* The screen's operation replaced.                                        *)
LEMMA OperationReplaced ==
    ASSUME ListAct, NEW r \in ListOperation, act' = [act EXCEPT !["user"] = r],
           \A s \in ListSerial : r.list[s].sync \in {"none", "SYNCED"}, ListSteps(r.todo), ListPlan(r)'
    PROVE  ListAct' /\ act'["user"] = r
<1>1. act \in [List!Actor -> ListOperation] /\ "user" \in List!Actor
  BY ListActors DEF ListAct
<1>2. act' \in [List!Actor -> ListOperation] /\ act'["user"] = r
      /\ \A b \in List!Actor : b # "user" => act'[b] = act[b]
  BY <1>1
<1>3. \A a \in List!Actor :
         /\ ListSteps(act'[a].todo)
         /\ \A s \in ListSerial : act'[a].list[s].sync \in {"none", "SYNCED"}
  BY <1>2 DEF ListAct
<1>4. ListPlan(act["user"])'
  BY <1>2 DEF ListPlan
<1> QED BY <1>2, <1>3, <1>4 DEF ListAct

LEMMA BegunKeeps ==
    ASSUME ListInvariant, NEW op \in ListOp, NEW s \in ListSerial, NEW i \in ListId,
           NEW marked \in BOOLEAN, NEW explicit \in BOOLEAN, op = "BULK_CREATE" => i = "local",
           List!Begin(op, s, i, marked, explicit)
    PROVE  ListInvariant'
<1>1. /\ UNCHANGED <<server, early, cache, queue, run, dropped, excused>>
      /\ act["user"].todo = <<>>
  BY DEF List!Begin, List!serverVars, List!deviceVars, List!ghostVars
<1>2. PICK row, list, local : row = cache[s][i] /\ list = List!NoList /\ local = List!Locally(op)
  OBVIOUS
<1>3. PICK todo : todo = IF connected /\ (op = "BULK_CREATE" \/ i = "real") THEN <<"post">> ELSE local
  OBVIOUS
<1>4. PICK r : r = [op |-> op, serial |-> s, id |-> i, row |-> row, marked |-> marked,
                    explicit |-> explicit, list |-> list, seen |-> list, todo |-> todo]
  OBVIOUS
<1>5. act' = [act EXCEPT !["user"] = r]
  BY <1>2, <1>3, <1>4, Zenon DEF List!Begin
<1>6. list \in ListRows /\ \A x \in ListSerial : list[x].sync = "none"
  BY <1>2, NoListRow DEF List!NoList, ListRows
<1>7. row \in ListRow
  BY <1>2 DEF ListInvariant, ListCache
<1>8. todo \in Seq(ListStep) /\ \A j \in DOMAIN todo : todo[j] \in ListActs => j = 1
  <2>1. CASE todo = <<"post">>
    BY <2>1 DEF ListStep
  <2>2. CASE todo = local
    BY <1>2, <2>2, LocalSteps
  <2> QED BY <1>3, <2>1, <2>2
<1>9. /\ todo[1] = "write" => op # "SN_DELETE" /\ Len(todo) > 1 /\ todo[2] = "enqueue"
      /\ todo[1] = "drop" => op = "SN_DELETE" /\ Len(todo) > 1 /\ todo[2] = "enqueue"
      /\ todo[1] # "store" /\ todo[1] # "get"
  <2>1. CASE todo = <<"post">>
    BY <2>1
  <2>2. CASE todo = local
    BY <1>2, <2>2, LocalSteps
  <2> QED BY <1>3, <2>1, <2>2
<1>10. /\ r \in ListOperation /\ r.op = op /\ r.serial = s /\ r.id = i /\ r.list = list /\ r.todo = todo
  BY <1>4, <1>6, <1>7, <1>8 DEF ListOperation
<1>11. ListPlan(r)' /\ ListSteps(r.todo)
  BY <1>8, <1>9, <1>10 DEF ListPlan, ListSteps
<1>12. ListAct'
  BY <1>5, <1>6, <1>10, <1>11, OperationReplaced DEF ListInvariant
<1>13. ListOnward
  BY <1>1, ListServerRests DEF ListInvariant
<1> QED BY <1>1, <1>12, <1>13, ListActMoves

LEMMA ListBegunKeeps ==
    ASSUME ListInvariant, NEW s \in ListSerial,
           List!AddSerials(s)
               \/ \E i \in List!Id : List!RenameSn(s, i) \/ List!DeleteSn(s, i) \/ List!SaveInspection(s, i)
    PROVE  ListInvariant'
<1>1. List!Id = ListId
  BY DEF List!Id, ListId
<1>2. CASE List!AddSerials(s)
  BY <1>2, BegunKeeps DEF List!AddSerials, ListOp, ListId
<1>3. ASSUME NEW i \in ListId, List!RenameSn(s, i)
      PROVE  ListInvariant'
  BY <1>3, BegunKeeps DEF List!RenameSn, ListOp, ListEdit
<1>4. ASSUME NEW i \in ListId, List!DeleteSn(s, i)
      PROVE  ListInvariant'
  BY <1>4, BegunKeeps DEF List!DeleteSn, ListOp, ListEdit
<1>5. ASSUME NEW i \in ListId, List!SaveInspection(s, i)
      PROVE  ListInvariant'
  <2>1. PICK marked \in BOOLEAN, explicit \in BOOLEAN :
           List!Begin("SN_UPDATE_INSPECTION", s, i, marked, explicit)
    BY <1>5 DEF List!SaveInspection
  <2> QED BY <2>1, BegunKeeps DEF ListOp, ListEdit
<1> QED BY <1>1, <1>2, <1>3, <1>4, <1>5

(* A step that changes what the background is to do only.                  *)
LEMMA BackgroundKeeps ==
    ASSUME ListInvariant, UNCHANGED <<server, early, cache, queue, run, dropped, excused>>,
           NEW r \in ListOperation, act' = [act EXCEPT !["background"] = r],
           \A s \in ListSerial : r.list[s].sync \in {"none", "SYNCED"}, ListSteps(r.todo)
    PROVE  ListInvariant'
<1>1. act \in [List!Actor -> ListOperation] /\ "background" \in List!Actor
  BY ListActors DEF ListInvariant, ListAct
<1>2. act' \in [List!Actor -> ListOperation] /\ act'["user"] = act["user"] /\ act'["background"] = r
  BY <1>1, ListActors
<1>3. \A a \in List!Actor :
         /\ ListSteps(act'[a].todo)
         /\ \A s \in ListSerial : act'[a].list[s].sync \in {"none", "SYNCED"}
  <2> SUFFICES ASSUME NEW a \in List!Actor
               PROVE  /\ ListSteps(act'[a].todo)
                      /\ \A s \in ListSerial : act'[a].list[s].sync \in {"none", "SYNCED"}
    OBVIOUS
  <2>1. CASE a = "background"
    BY <1>2, <2>1
  <2>2. CASE a = "user"
    BY <1>2, <2>2 DEF ListInvariant, ListAct
  <2> QED BY <2>1, <2>2, ListActors
<1>4. ListAct'
  BY <1>2, <1>3 DEF ListInvariant, ListAct, ListPlan
<1>5. ListOnward
  BY ListServerRests DEF ListInvariant
<1> QED BY <1>2, <1>4, <1>5, ListActMoves

LEMMA PullBegunKeeps ==
    ASSUME ListInvariant, List!StartPull
    PROVE  ListInvariant'
<1>1. UNCHANGED <<server, early, cache, queue, run, dropped, excused>>
  BY DEF List!StartPull, List!serverVars, List!deviceVars, List!ghostVars
<1>2. PICK r, todo : todo = List!Pulling /\ r = List!Left(act["background"], todo)
  OBVIOUS
<1>3. act' = [act EXCEPT !["background"] = r]
  BY <1>2, Zenon DEF List!StartPull
<1>4. act["background"] \in ListOperation /\ \A s \in ListSerial : act["background"].list[s].sync \in {"none", "SYNCED"}
  BY ListActors DEF ListInvariant, ListAct
<1>5. todo \in Seq(ListStep) /\ ListSteps(todo)
  BY <1>2, FollowingSteps DEF ListSteps, ListActs
<1>6. r \in ListOperation /\ r.list = act["background"].list /\ r.todo = todo
  BY <1>2, <1>4, <1>5, LeftOver
<1> QED BY <1>1, <1>3, <1>4, <1>5, <1>6, BackgroundKeeps

(* ------------------------------ the server ----------------------------- *)

LEMMA ListRowOf ==
    ASSUME NEW x \in ListThing
    PROVE  List!RowOf(x) \in ListRow /\ List!RowOf(x).sync = "SYNCED" /\ List!RowOf(x) # List!NoRow
BY DEF List!RowOf, List!NoRow, ListThing, ListRow

LEMMA ThingServed ==
    ASSUME NEW x \in ListThing, NEW marked \in BOOLEAN
    PROVE  /\ List!Made(x) \in ListThing
           /\ List!Removed(x) \in ListThing /\ List!Removed(x).is = "gone"
           /\ List!Edited(x, marked) \in ListThing /\ List!Edited(x, marked).is = x.is
BY DEF List!Made, List!Removed, List!Edited, ListThing

LEMMA ListThingReplaced ==
    ASSUME ListServer, UNCHANGED early, NEW s \in ListSerial, NEW x \in ListThing,
           server' \in [ListSerial -> ListThing], server'[s] = x,
           \A t \in ListSerial : t # s => server'[t] = server[t],
           server[s].is = "gone" => x.is = "gone"
    PROVE  ListOnward
BY DEF ListServer, ListOnward

LEMMA ServerServes ==
    ASSUME ListServer, UNCHANGED early, NEW r, r.op \in ListOp \cup {"SYNC_REWORK"},
           r.op # "SYNC_REWORK" => r.serial \in ListSerial, r.marked \in BOOLEAN,
           List!Answered(r) = 200, List!MadeOnce(r), List!Happens(r)
    PROVE  /\ ListOnward
           /\ r.op = "SN_DELETE" => server'[r.serial].is = "gone"
           /\ r.op # "SYNC_REWORK" => server'[r.serial] \in ListThing
<1>1. PICK s, x : s = r.serial /\ x = server[s]
  OBVIOUS
<1>2. server' = List!ServerAfter(r)
  BY DEF List!Happens
<1>3. List!Edits = ListEdit
  BY DEF List!Edits, ListEdit
<1>10. PICK made : made = [server EXCEPT ![r.serial] = List!Made(server[r.serial])]
  OBVIOUS
<1>11. PICK removed : removed = [server EXCEPT ![r.serial] = List!Removed(server[r.serial])]
  OBVIOUS
<1>12. PICK edited : edited = [server EXCEPT ![r.serial] =
                        List!Edited(server[r.serial], IF r.op = "UPDATE" THEN server[r.serial].marked
                                                      ELSE r.marked)]
  OBVIOUS
<1>9. server' = CASE r.op = "BULK_CREATE" -> made [] r.op = "SN_DELETE" -> removed
                  [] r.op \in ListEdit -> edited [] OTHER -> server
  BY <1>2, <1>3, <1>10, <1>11, <1>12, Zenon DEF List!ServerAfter
<1>4. CASE r.op = "SYNC_REWORK"
  <2>1. server' = server
    BY <1>4, <1>9 DEF ListEdit
  <2> QED BY <1>4, <2>1, ListServerRests
<1>5. r.op # "SYNC_REWORK" => s \in ListSerial /\ x \in ListThing
  BY <1>1 DEF ListServer
<1>6. CASE r.op = "BULK_CREATE"
  <2>1. PICK y : y = List!Made(x)
    OBVIOUS
  <2>2. server' = [server EXCEPT ![s] = y]
    <3>1. server' = made
      BY <1>6, <1>9 DEF ListEdit
    <3> QED BY <1>10, <1>1, <2>1, <3>1, Zenon
  <2>3. x.is # "gone" /\ y \in ListThing
    BY <1>1, <1>5, <1>6, <2>1, ThingServed DEF List!MadeOnce
  <2>4. server[s].is = "gone" => y.is = "gone"
    BY <1>1, <2>3
  <2>5. /\ server' \in [ListSerial -> ListThing] /\ server'[s] = y
        /\ \A t \in ListSerial : t # s => server'[t] = server[t]
    BY <1>5, <1>6, <2>2, <2>3 DEF ListServer
  <2>6. ListOnward
    BY <1>5, <1>6, <2>3, <2>4, <2>5, ListThingReplaced
  <2> QED BY <1>1, <1>6, <2>3, <2>5, <2>6
<1>7. CASE r.op = "SN_DELETE"
  <2>1. PICK y : y = List!Removed(x)
    OBVIOUS
  <2>2. server' = [server EXCEPT ![s] = y]
    <3>1. server' = removed
      BY <1>7, <1>9 DEF ListEdit
    <3> QED BY <1>11, <1>1, <2>1, <3>1, Zenon
  <2>3. y.is = "gone" /\ y \in ListThing
    BY <1>1, <1>5, <1>7, <2>1, ThingServed
  <2>5. /\ server' \in [ListSerial -> ListThing] /\ server'[s] = y
        /\ \A t \in ListSerial : t # s => server'[t] = server[t]
    BY <1>5, <1>7, <2>2, <2>3 DEF ListServer
  <2>6. ListOnward
    BY <1>5, <1>7, <2>3, <2>5, ListThingReplaced
  <2> QED BY <1>1, <1>7, <2>3, <2>5, <2>6
<1>8. CASE r.op \in ListEdit
  <2>1. PICK y : y = List!Edited(x, IF r.op = "UPDATE" THEN x.marked ELSE r.marked)
    OBVIOUS
  <2>2. r.op # "BULK_CREATE" /\ r.op # "SN_DELETE" /\ r.op # "SYNC_REWORK"
    BY <1>8 DEF ListEdit
  <2>3. server' = [server EXCEPT ![s] = y]
    <3>1. server' = edited
      BY <1>8, <1>9, <2>2
    <3> QED BY <1>12, <1>1, <2>1, <3>1, Zenon
  <2>4. x.marked \in BOOLEAN
    BY <1>5, <2>2 DEF ListThing
  <2>5. y.is = x.is /\ y \in ListThing
    BY <1>5, <2>1, <2>2, <2>4, ThingServed
  <2>6. server[s].is = "gone" => y.is = "gone"
    BY <1>1, <2>5
  <2>7. /\ server' \in [ListSerial -> ListThing] /\ server'[s] = y
        /\ \A t \in ListSerial : t # s => server'[t] = server[t]
    BY <1>5, <2>2, <2>3, <2>5 DEF ListServer
  <2>8. ListOnward
    BY <1>5, <2>2, <2>5, <2>6, <2>7, ListThingReplaced
  <2> QED BY <1>1, <2>2, <2>5, <2>7, <2>8
<1> QED BY <1>4, <1>6, <1>7, <1>8 DEF ListOp

LEMMA NoOperationPlanned ==
    /\ ListPlan(List!Idle)'
    /\ List!Idle \in ListOperation /\ List!Idle.todo = <<>> /\ ListSteps(List!Idle.todo)
    /\ \A s \in ListSerial : List!Idle.list[s].sync \in {"none", "SYNCED"}
BY IdleOperation DEF ListPlan, ListSteps

LEMMA ListPostKeeps ==
    ASSUME ListInvariant, List!Post
    PROVE  ListInvariant'
<1>1. UNCHANGED <<early, cache, queue, run, dropped, excused>>
  BY DEF List!Post, List!deviceVars, List!ghostVars
<1>2. PICK r : r = act["user"]
  OBVIOUS
<1>3. /\ r \in ListOperation /\ r.todo # <<>> /\ r.todo[1] = "post"
      /\ r.op \in ListOp /\ r.serial \in ListSerial
      /\ r.op = "BULK_CREATE" => r.id = "local"
  <2>1. r.todo # <<>> /\ Head(r.todo) = "post" /\ ListAct /\ "user" \in List!Actor
    BY <1>2, ListActors DEF ListInvariant, List!Post, List!Now
  <2>2. r.todo[1] = "post"
    BY <1>2, <2>1, RestIs
  <2> QED BY <1>2, <2>1, <2>2 DEF ListAct, ListPlan
<1>4. r.marked \in BOOLEAN /\ r.op # "SYNC_REWORK" /\ \A s \in ListSerial : r.list[s].sync \in {"none", "SYNCED"}
  <2>1. r.marked \in BOOLEAN
    BY <1>3 DEF ListOperation
  <2> QED BY <1>2, <1>3, <2>1, ListActors DEF ListInvariant, ListAct, ListOp, ListEdit
<1>5. CASE List!Answered(r) = 200
  <2>1. PICK row, t, w, x : /\ row = List!RowOf(server'[r.serial]) /\ t = List!Answering(r.op)
                            /\ w = List!Carrying(r, row) /\ x = List!Left(w, t)
    OBVIOUS
  <2>2. List!MadeOnce(r) /\ List!Happens(r) /\ act' = [act EXCEPT !["user"] = x]
    BY <1>2, <1>5, <2>1 DEF List!Post
  <2>3. ListOnward /\ server'[r.serial] \in ListThing /\ (r.op = "SN_DELETE" => server'[r.serial].is = "gone")
    BY <1>1, <1>3, <1>4, <1>5, <2>2, ServerServes DEF ListInvariant
  <2>4. row \in ListRow /\ row.sync = "SYNCED"
    BY <2>1, <2>3, ListRowOf
  <2>5. /\ t \in Seq(ListStep) /\ t # <<>> /\ ListSteps(t)
        /\ t[1] = (CASE r.op = "BULK_CREATE" -> "get" [] r.op = "SN_DELETE" -> "drop" [] OTHER -> "store")
    BY <1>3, <2>1, AnsweringSteps
  <2>6. /\ w \in ListOperation /\ w.op = r.op /\ w.serial = r.serial /\ w.id = r.id /\ w.row = row
        /\ w.list = r.list
    BY <1>3, <2>1, <2>4, CarryingRow
  <2>7. /\ x \in ListOperation /\ x.op = r.op /\ x.serial = r.serial /\ x.id = r.id /\ x.row = row
        /\ x.list = r.list /\ x.todo = t
    BY <2>1, <2>5, <2>6, LeftOver
  <2>8. /\ t[1] = "drop" => r.op = "SN_DELETE"
        /\ t[1] # "write"
    BY <1>3, <2>5 DEF ListOp, ListEdit
  <2>9. ListPlan(x)'
    BY <1>3, <2>3, <2>4, <2>5, <2>7, <2>8 DEF ListPlan
  <2>10. ListAct'
    BY <1>4, <2>2, <2>5, <2>7, <2>9, OperationReplaced DEF ListInvariant
  <2> QED BY <1>1, <1>2, <1>3, <2>3, <2>10, ListActMoves
<1>6. CASE List!Answered(r) # 200
  <2>1. PICK x : x = List!Idle
    OBVIOUS
  <2>2. UNCHANGED server /\ act' = [act EXCEPT !["user"] = x]
    BY <1>2, <1>6, <2>1 DEF List!Post
  <2>3. ListOnward
    BY <1>1, <2>2, ListServerRests DEF ListInvariant
  <2>4. ListAct'
    BY <2>1, <2>2, NoOperationPlanned, OperationReplaced DEF ListInvariant
  <2> QED BY <1>1, <1>2, <1>3, <2>3, <2>4, ListActMoves
<1> QED BY <1>5, <1>6

LEMMA PostLostKeeps ==
    ASSUME ListInvariant, List!LosePost
    PROVE  ListInvariant'
<1>1. UNCHANGED <<early, cache, queue, run, dropped, excused>>
  BY DEF List!LosePost, List!deviceVars, List!ghostVars
<1>2. PICK r, t, x : r = act["user"] /\ t = List!Locally(r.op) /\ x = List!Left(r, t)
  OBVIOUS
<1>3. /\ r \in ListOperation /\ r.todo # <<>> /\ r.todo[1] = "post"
      /\ r.op \in ListOp /\ r.serial \in ListSerial
      /\ r.op = "BULK_CREATE" => r.id = "local"
  <2>1. r.todo # <<>> /\ Head(r.todo) = "post" /\ ListAct /\ "user" \in List!Actor
    BY <1>2, ListActors DEF ListInvariant, List!LosePost, List!Now
  <2>2. r.todo[1] = "post"
    BY <1>2, <2>1, RestIs
  <2> QED BY <1>2, <2>1, <2>2 DEF ListAct, ListPlan
<1>4. r.marked \in BOOLEAN /\ r.op # "SYNC_REWORK" /\ \A s \in ListSerial : r.list[s].sync \in {"none", "SYNCED"}
  <2>1. r.marked \in BOOLEAN
    BY <1>3 DEF ListOperation
  <2> QED BY <1>2, <1>3, <2>1, ListActors DEF ListInvariant, ListAct, ListOp, ListEdit
<1>5. act' = [act EXCEPT !["user"] = x] /\ List!MadeOnce(r) /\ List!MayHappen(r)
  BY <1>2, Zenon DEF List!LosePost
<1>6. ListOnward
  <2>1. CASE List!Answered(r) = 200 /\ List!Happens(r)
    BY <1>1, <1>3, <1>4, <1>5, <2>1, ServerServes DEF ListInvariant
  <2>2. CASE UNCHANGED server
    BY <1>1, <2>2, ListServerRests DEF ListInvariant
  <2> QED BY <1>5, <2>1, <2>2 DEF List!MayHappen
<1>7. /\ t \in Seq(ListStep) /\ t # <<>>
      /\ \A j \in DOMAIN t : t[j] \in ListActs => j = 1
      /\ t[1] = IF r.op = "SN_DELETE" THEN "drop" ELSE "write"
      /\ Len(t) > 1 /\ t[2] = "enqueue"
  BY <1>2, <1>3, LocalSteps
<1>8. /\ x \in ListOperation /\ x.todo = t /\ x.op = r.op /\ x.serial = r.serial /\ x.id = r.id
      /\ x.list = r.list
  BY <1>2, <1>3, <1>7, LeftOver
<1>9. ListPlan(x)' /\ ListSteps(x.todo)
  BY <1>3, <1>7, <1>8 DEF ListPlan, ListSteps
<1>10. ListAct'
  BY <1>4, <1>5, <1>8, <1>9, OperationReplaced DEF ListInvariant
<1> QED BY <1>1, <1>2, <1>3, <1>6, <1>10, ListActMoves

(* ------------------- rows written, requests queued --------------------- *)

LEMMA ListRowPut ==
    ASSUME ListCache, NEW s \in ListSerial, NEW i \in ListId, NEW row \in ListRow,
           i = "local" => row.sync \in {"none", "PENDING"}, cache' = List!With(s, i, row)
    PROVE  /\ ListCache' /\ cache'[s][i] = row
           /\ \A t \in ListSerial, j \in ListId : t # s \/ j # i => cache'[t][j] = cache[t][j]
<1>1. cache \in [ListSerial -> [ListId -> ListRow]]
  BY DEF ListCache
<1>2. cache' = [cache EXCEPT ![s][i] = row]
  BY DEF List!With
<1>3. PICK c : c = cache[s]
  OBVIOUS
<1>4. PICK d : d = [c EXCEPT ![i] = row]
  OBVIOUS
<1>5. cache' = [cache EXCEPT ![s] = d]
  BY <1>2, <1>3, <1>4
<1>6. c \in [ListId -> ListRow]
  BY <1>1, <1>3
<1>7. d \in [ListId -> ListRow] /\ d[i] = row /\ \A j \in ListId : j # i => d[j] = c[j]
  BY <1>4, <1>6
<1>8. /\ cache' \in [ListSerial -> [ListId -> ListRow]] /\ cache'[s] = d
      /\ \A t \in ListSerial : t # s => cache'[t] = cache[t]
  BY <1>1, <1>5, <1>7
<1>9. /\ cache'[s][i] = row
      /\ \A t \in ListSerial, j \in ListId : t # s \/ j # i => cache'[t][j] = cache[t][j]
  BY <1>3, <1>7, <1>8
<1>10. \A t \in ListSerial : cache'[t]["local"].sync \in {"none", "PENDING"}
  BY <1>9 DEF ListCache, ListId
<1> QED BY <1>8, <1>9, <1>10 DEF ListCache

(* A step of the screen that rows change in.                               *)
LEMMA ListRowsMove ==
    ASSUME ListInvariant, UNCHANGED <<queue, run>>, excused \subseteq excused',
           ListOnward, ListCache', ListAct', ListDecided', ListOwed'
    PROVE  ListInvariant'
<1>1. ListQueue' /\ ListRunning' /\ ListAwaits'
  BY ListRunningStays, ListAwaitsStays DEF ListInvariant, ListQueue
<1> QED BY <1>1 DEF ListInvariant, ListOnward

(* What is known of the operation that is to do a step now.                *)
LEMMA ListNow ==
    ASSUME ListInvariant, NEW step, List!Now("user", step)
    PROVE  /\ act["user"] \in ListOperation /\ act["user"].todo # <<>> /\ act["user"].todo[1] = step
           /\ act["user"].op \in ListOp /\ act["user"].serial \in ListSerial /\ act["user"].id \in ListId
           /\ act["user"].row \in ListRow /\ act["user"].marked \in BOOLEAN
           /\ "user" \in List!Actor
<1>1. /\ act["user"].todo # <<>> /\ Head(act["user"].todo) = step /\ "user" \in List!Actor
      /\ act["user"] \in ListOperation /\ ListAct
  BY ListActors DEF List!Now, ListInvariant, ListAct
<1>2. act["user"].todo[1] = step
  BY <1>1, RestIs
<1> QED BY <1>1, <1>2 DEF ListAct, ListPlan, ListOperation

LEMMA RestLeft ==
    ASSUME ListInvariant, ListOnward, act["user"].todo # <<>>, List!Goes("user", List!Rest("user"))
    PROVE  /\ ListAct'
           /\ Len(act["user"].todo) > 1 =>
                 /\ act'["user"].todo # <<>> /\ act'["user"].todo[1] = act["user"].todo[2]
                 /\ act'["user"].op = act["user"].op /\ act'["user"].serial = act["user"].serial
<1>1. PICK todo : todo = List!Rest("user")
  OBVIOUS
<1>2. /\ todo \in Seq(ListStep)
      /\ Len(act["user"].todo) > 1 => todo # <<>> /\ todo[1] = act["user"].todo[2]
      /\ \A j \in DOMAIN todo : todo[j] \notin ListActs
      /\ ListAct /\ "user" \in List!Actor
  BY <1>1, RestIs, ListActors DEF ListInvariant
<1>3. List!Goes("user", todo)
  BY <1>1
<1>4. /\ ListAct'
      /\ todo # <<>> => /\ act'["user"].todo = todo /\ act'["user"].op = act["user"].op
                        /\ act'["user"].serial = act["user"].serial
  BY <1>2, <1>3, WentOn
<1> QED BY <1>2, <1>4

LEMMA ListStoreKeeps ==
    ASSUME ListInvariant, List!Store
    PROVE  ListInvariant'
<1>1. /\ UNCHANGED <<server, early, queue, run, dropped, excused>>
      /\ List!Now("user", "store") /\ List!Goes("user", List!Rest("user"))
      /\ cache' = List!With(act["user"].serial, "real", act["user"].row)
  BY DEF List!Store, List!serverVars, List!ghostVars
<1>2. PICK r : r = act["user"]
  OBVIOUS
<1>3. /\ r \in ListOperation /\ r.todo # <<>> /\ r.todo[1] = "store" /\ r.serial \in ListSerial
      /\ r.row \in ListRow /\ r.row.sync = "SYNCED"
  BY <1>1, <1>2, ListNow DEF ListInvariant, ListAct, ListPlan
<1>4. /\ ListCache' /\ cache'[r.serial]["real"] = r.row
      /\ \A t \in ListSerial, j \in ListId : t # r.serial \/ j # "real" => cache'[t][j] = cache[t][j]
  BY <1>1, <1>2, <1>3, ListRowPut DEF ListInvariant, ListId
<1>5. ListOnward
  BY <1>1, ListServerRests DEF ListInvariant
<1>6. ListAct'
  BY <1>1, <1>2, <1>3, <1>5, RestLeft
<1>7. \A op, s : ~Enqueues(op, s)
  BY <1>2, <1>3 DEF Enqueues
<1>8. ListDecided'
  BY <1>1, <1>5, <1>7, ListDecidedStays DEF ListInvariant
<1>9. ListOwed'
  <2>1. \A s \in ListSerial, i \in ListId : cache'[s][i].sync = "PENDING" => cache[s][i].sync = "PENDING"
    BY <1>3, <1>4
  <2> QED BY <1>1, <1>7, <2>1, ListOwedStays DEF ListInvariant
<1> QED BY <1>1, <1>4, <1>5, <1>6, <1>8, <1>9, ListRowsMove

LEMMA UnsentRow ==
    ASSUME NEW r \in ListOperation
    PROVE  List!Unsent(r) \in ListRow /\ List!Unsent(r).sync = "PENDING"
BY DEF List!Unsent, ListOperation, ListRow

LEMMA WriteKeeps ==
    ASSUME ListInvariant, List!Write
    PROVE  ListInvariant'
<1>1. /\ UNCHANGED <<server, early, queue, run, dropped>>
      /\ List!Now("user", "write") /\ List!Goes("user", List!Rest("user"))
  BY DEF List!Write, List!serverVars
<1>2. PICK r, row : r = act["user"] /\ row = List!Unsent(r)
  OBVIOUS
<1>3. /\ cache' = List!With(r.serial, r.id, row)
      /\ excused \subseteq excused'
      /\ r.op \in ListEdit /\ cache[r.serial][r.id].sync = "none" => <<"row", r.serial>> \in excused'
  BY <1>2 DEF List!Write, List!Edits, ListEdit, List!Has
<1>4. /\ r \in ListOperation /\ r.todo # <<>> /\ r.todo[1] = "write" /\ r.serial \in ListSerial
      /\ r.id \in ListId /\ r.op \in ListOp
      /\ r.op # "SN_DELETE" /\ Len(r.todo) > 1 /\ r.todo[2] = "enqueue"
      /\ r.op = "BULK_CREATE" => r.id = "local"
  BY <1>1, <1>2, ListNow DEF ListInvariant, ListAct, ListPlan
<1>5. row \in ListRow /\ row.sync = "PENDING"
  BY <1>2, <1>4, UnsentRow
<1>6. /\ ListCache' /\ cache'[r.serial][r.id] = row
      /\ \A t \in ListSerial, j \in ListId : t # r.serial \/ j # r.id => cache'[t][j] = cache[t][j]
  BY <1>3, <1>4, <1>5, ListRowPut DEF ListInvariant
<1>7. ListOnward
  BY <1>1, ListServerRests DEF ListInvariant
<1>8. ListAct' /\ Enqueues(r.op, r.serial)'
  BY <1>1, <1>2, <1>4, <1>7, RestLeft DEF Enqueues
<1>9. \A op, s : ~Enqueues(op, s)
  BY <1>2, <1>4 DEF Enqueues
<1>10. ListDecided'
  BY <1>1, <1>3, <1>7, <1>9, ListDecidedStays DEF ListInvariant
<1>11. ListOwed'
  <2>1. ASSUME NEW s \in ListSerial, NEW i \in ListId, cache'[s][i].sync = "PENDING"
        PROVE  \/ <<"row", s>> \in excused'
               \/ \E op \in RowOp(i) : Enqueues(op, s)'
               \/ \E k \in DOMAIN queue' : OwesRow(k, s, i)'
    <3>1. CASE cache[s][i].sync = "PENDING"
      <4>1. <<"row", s>> \in excused \/ \E k \in DOMAIN queue : OwesRow(k, s, i)
        BY <1>9, <3>1 DEF ListInvariant, ListOwed
      <4> QED BY <1>1, <1>3, <4>1 DEF OwesRow, RowOver
    <3>2. CASE cache[s][i].sync # "PENDING"
      <4>1. s = r.serial /\ i = r.id
        BY <1>6, <2>1, <3>2
      <4>2. CASE r.op \in RowOp(i)
        BY <1>8, <4>1, <4>2
      <4>3. CASE r.op \notin RowOp(i)
        <5>1. i = "local" /\ r.op \in ListEdit
          BY <1>4, <4>1, <4>3 DEF RowOp, ListOp, ListId
        <5>2. cache[s][i].sync = "none"
          BY <3>2, <5>1 DEF ListInvariant, ListCache
        <5> QED BY <1>3, <4>1, <5>1, <5>2
      <4> QED BY <4>2, <4>3
    <3> QED BY <3>1, <3>2
  <2> QED BY <2>1 DEF ListOwed
<1> QED BY <1>1, <1>3, <1>6, <1>7, <1>8, <1>10, <1>11, ListRowsMove

LEMMA DropKeeps ==
    ASSUME ListInvariant, List!Drop
    PROVE  ListInvariant'
<1>1. /\ UNCHANGED <<server, early, queue, run, excused>>
      /\ List!Now("user", "drop") /\ List!Goes("user", List!Rest("user"))
      /\ dropped' = dropped \cup {act["user"].serial}
  BY DEF List!Drop, List!serverVars
<1>2. PICK r, row : r = act["user"] /\ row = List!NoRow
  OBVIOUS
<1>3. cache' = List!With(r.serial, r.id, row)
  BY <1>2 DEF List!Drop
<1>4. /\ r \in ListOperation /\ r.todo # <<>> /\ r.todo[1] = "drop" /\ r.serial \in ListSerial
      /\ r.id \in ListId /\ r.op = "SN_DELETE"
      /\ server[r.serial].is = "gone" \/ (Len(r.todo) > 1 /\ r.todo[2] = "enqueue")
  BY <1>1, <1>2, ListNow DEF ListInvariant, ListAct, ListPlan
<1>5. row \in ListRow /\ row.sync = "none"
  BY <1>2, NoListRow
<1>6. /\ ListCache' /\ cache'[r.serial][r.id] = row
      /\ \A t \in ListSerial, j \in ListId : t # r.serial \/ j # r.id => cache'[t][j] = cache[t][j]
  BY <1>3, <1>4, <1>5, ListRowPut DEF ListInvariant
<1>7. ListOnward
  BY <1>1, ListServerRests DEF ListInvariant
<1>8. ListAct' /\ SerialDecided(r.serial)'
  BY <1>1, <1>2, <1>4, <1>7, RestLeft DEF Enqueues, SerialDecided
<1>9. \A op, s : ~Enqueues(op, s)
  BY <1>2, <1>4 DEF Enqueues
<1>10. ListDecided'
  <2>1. ASSUME NEW s \in dropped'
        PROVE  s \in ListSerial /\ SerialDecided(s)'
    <3>1. CASE s = r.serial
      BY <1>4, <1>8, <3>1
    <3>2. CASE s \in dropped
      <4>1. s \in ListSerial /\ SerialDecided(s)
        BY <3>2 DEF ListInvariant, ListDecided
      <4> QED BY <1>1, <1>7, <1>9, <4>1, SerialStaysDecided
    <3> QED BY <1>1, <1>2, <2>1, <3>1, <3>2
  <2> QED BY <2>1 DEF ListDecided
<1>11. ListOwed'
  <2>1. \A s \in ListSerial, i \in ListId : cache'[s][i].sync = "PENDING" => cache[s][i].sync = "PENDING"
    BY <1>5, <1>6
  <2> QED BY <1>1, <1>9, <2>1, ListOwedStays DEF ListInvariant
<1> QED BY <1>1, <1>6, <1>7, <1>8, <1>10, <1>11, ListRowsMove

LEMMA ListAppended ==
    ASSUME NEW q \in Seq(ListRequest), NEW e \in ListRequest
    PROVE  /\ Append(q, e) \in Seq(ListRequest) /\ DOMAIN q \subseteq DOMAIN Append(q, e)
           /\ Len(q) + 1 \in DOMAIN Append(q, e) /\ Append(q, e)[Len(q) + 1] = e
           /\ Len(q) + 1 \notin DOMAIN q
           /\ \A k \in DOMAIN q : Append(q, e)[k] = q[k] /\ k < Len(q) + 1
           /\ \A k \in DOMAIN Append(q, e) : k \in DOMAIN q \/ k = Len(q) + 1
OBVIOUS

(* A request is queued; if it is a deletion under a temporary id it awaits *)
(* an addition that is queued, or is excused.                              *)
LEMMA ListAppends ==
    ASSUME ListInvariant, UNCHANGED <<server, early, cache, run, dropped>>,
           excused \subseteq excused', ListAct',
           NEW e \in ListRequest, e.status = "PENDING",
           e.op # "SYNC_REWORK" => e.serial \in ListSerial, queue' = Append(queue, e),
           e.op = "SN_DELETE" /\ e.id = "local" /\ <<"deletion", e.serial>> \notin excused' =>
               \E j \in DOMAIN queue :
                   /\ queue[j].op = "BULK_CREATE" /\ queue[j].serial = e.serial
                   /\ queue[j].status = "PENDING" /\ ~(run.step = "end" /\ run.item = j),
           \A op, s : Enqueues(op, s) => e.op = op /\ e.serial = s
    PROVE  ListInvariant'
<1>1. PICK n : n = Len(queue) + 1
  OBVIOUS
<1>2. /\ queue' \in Seq(ListRequest) /\ DOMAIN queue \subseteq DOMAIN queue'
      /\ n \in DOMAIN queue' /\ queue'[n] = e /\ n \notin DOMAIN queue
      /\ \A k \in DOMAIN queue : queue'[k] = queue[k] /\ k < n
      /\ \A k \in DOMAIN queue' : k \in DOMAIN queue \/ k = n
  BY <1>1, ListAppended DEF ListInvariant, ListQueue
<1>3. ListOnward
  BY ListServerRests DEF ListInvariant
<1>4. ListQueue'
  BY <1>2 DEF ListInvariant, ListQueue
<1>5. ListCache'
  BY DEF ListInvariant, ListCache
<1>6. ListRunning'
  BY <1>2, <1>3, ListRunningStays DEF ListInvariant
<1>7. n \notin run.todo /\ (run.step \in Sending => run.item # n)
  BY <1>2 DEF ListInvariant, ListRunning
<1>8. ListAwaits'
  <2>1. ASSUME NEW k \in DOMAIN queue', Early(k)'
        PROVE  \E j \in DOMAIN queue' : j < k /\ Awaits(k, j)'
    <3>1. CASE k \in DOMAIN queue
      <4>1. Early(k)
        BY <1>2, <2>1, <3>1 DEF Early
      <4>2. PICK j \in DOMAIN queue : j < k /\ Awaits(k, j)
        BY <3>1, <4>1 DEF ListInvariant, ListAwaits
      <4> QED BY <1>2, <3>1, <4>2 DEF Awaits, IsSent
    <3>2. CASE k = n
      <4>1. PICK j \in DOMAIN queue :
               /\ queue[j].op = "BULK_CREATE" /\ queue[j].serial = e.serial
               /\ queue[j].status = "PENDING" /\ ~(run.step = "end" /\ run.item = j)
        BY <1>2, <2>1, <3>2 DEF Early
      <4> QED BY <1>2, <1>7, <3>2, <4>1 DEF Awaits, IsSent
    <3> QED BY <1>2, <3>1, <3>2
  <2> QED BY <2>1 DEF ListAwaits
<1>9. ListDecided'
  <2> SUFFICES ASSUME NEW s \in ListSerial, SerialDecided(s)
               PROVE  SerialDecided(s)'
    BY DEF ListInvariant, ListDecided
  <2>1. Enqueues("SN_DELETE", s) => Deletes(n, s)'
    BY <1>2 DEF Deletes
  <2> QED BY <1>2, <1>3, <2>1, SerialStaysDecided
<1>10. ListOwed'
  <2>1. ASSUME NEW s \in ListSerial, NEW i \in ListId, cache'[s][i].sync = "PENDING"
        PROVE  \/ <<"row", s>> \in excused'
               \/ \E op \in RowOp(i) : Enqueues(op, s)'
               \/ \E k \in DOMAIN queue' : OwesRow(k, s, i)'
    <3>1. CASE \E op \in RowOp(i) : Enqueues(op, s)
      <4>1. OwesRow(n, s, i)'
        BY <1>2, <1>7, <3>1 DEF OwesRow, RowOver, Sending
      <4> QED BY <1>2, <4>1
    <3>2. CASE \E k \in DOMAIN queue : OwesRow(k, s, i)
      BY <1>2, <3>2 DEF OwesRow, RowOver
    <3> QED BY <2>1, <3>1, <3>2 DEF ListInvariant, ListOwed
  <2> QED BY <2>1 DEF ListOwed
<1> QED BY <1>3, <1>4, <1>5, <1>6, <1>8, <1>9, <1>10 DEF ListInvariant, ListOnward

LEMMA ListEnqueueKeeps ==
    ASSUME ListInvariant, List!Enqueue
    PROVE  ListInvariant'
<1>1. /\ UNCHANGED <<server, early, cache, run, dropped>>
      /\ List!Now("user", "enqueue") /\ List!Goes("user", List!Rest("user"))
  BY DEF List!Enqueue, List!serverVars
<1>2. PICK r, e : r = act["user"] /\ e = List!Request(r)
  OBVIOUS
<1>3. PICK isLate \in BOOLEAN : isLate =
         (\/ ~List!IsAsked("BULK_CREATE", r.serial)
          \/ run.step = "end" /\ List!Item.op = "BULK_CREATE" /\ List!Item.serial = r.serial)
  OBVIOUS
<1>4. /\ queue' = Append(queue, e)
      /\ excused' = excused \cup (IF r.id = "local" /\ r.op = "SN_DELETE" /\ isLate
                                  THEN {<<"deletion", r.serial>>} ELSE {})
  BY <1>2, <1>3, Zenon DEF List!Enqueue
<1>5. /\ r \in ListOperation /\ r.todo # <<>> /\ r.serial \in ListSerial /\ r.id \in ListId
      /\ r.op \in ListOp /\ r.row \in ListRow /\ r.marked \in BOOLEAN
  BY <1>1, <1>2, ListNow
<1>6. /\ e \in ListRequest /\ e.status = "PENDING" /\ e.serial = r.serial /\ e.op = r.op /\ e.id = r.id
  BY <1>2, <1>5 DEF List!Request, ListRequest
<1>7. ListOnward
  BY <1>1, ListServerRests DEF ListInvariant
<1>8. ListAct'
  BY <1>1, <1>2, <1>5, <1>7, RestLeft
<1>9. ASSUME e.op = "SN_DELETE", e.id = "local", <<"deletion", e.serial>> \notin excused'
      PROVE  \E j \in DOMAIN queue :
                 /\ queue[j].op = "BULK_CREATE" /\ queue[j].serial = e.serial
                 /\ queue[j].status = "PENDING" /\ ~(run.step = "end" /\ run.item = j)
  <2>1. ~isLate
    BY <1>4, <1>6, <1>9
  <2>2. /\ List!IsAsked("BULK_CREATE", r.serial)
        /\ ~(run.step = "end" /\ List!Item.op = "BULK_CREATE" /\ List!Item.serial = r.serial)
    BY <1>3, <2>1
  <2> QED BY <1>6, <2>2 DEF List!IsAsked, List!Waiting, List!Item
<1>10. \A op, s : Enqueues(op, s) => e.op = op /\ e.serial = s
  BY <1>2, <1>6 DEF Enqueues
<1>11. excused \subseteq excused' /\ (e.op # "SYNC_REWORK" => e.serial \in ListSerial)
  BY <1>4, <1>5, <1>6
<1> QED BY <1>1, <1>4, <1>6, <1>8, <1>9, <1>10, <1>11, ListAppends

LEMMA SyncRequested ==
    /\ List!SyncRequest \in ListRequest /\ List!SyncRequest.op = "SYNC_REWORK"
    /\ List!SyncRequest.status = "PENDING"
<1>1. PICK row, n : row = List!NoRow /\ n = List!NoSerial
  OBVIOUS
<1>2. List!SyncRequest = [op |-> "SYNC_REWORK", serial |-> n, id |-> "real", row |-> row,
                          marked |-> FALSE, status |-> "PENDING"]
  BY <1>1, Zenon DEF List!SyncRequest
<1>3. n = "none" /\ row \in ListRow
  BY <1>1, NoListRow DEF List!NoSerial
<1> QED BY <1>2, <1>3 DEF ListRequest, ListId

LEMMA SyncQueuedKeeps ==
    ASSUME ListInvariant, List!QueueSync
    PROVE  ListInvariant'
<1>1. /\ UNCHANGED <<server, early, cache, run, dropped, excused>>
      /\ List!Now("user", "sync") /\ List!Goes("user", List!Rest("user"))
  BY DEF List!QueueSync, List!serverVars, List!ghostVars
<1>2. PICK e : e = List!SyncRequest
  OBVIOUS
<1>3. queue' = Append(queue, e)
  BY <1>2, Zenon DEF List!QueueSync
<1>4. e \in ListRequest /\ e.op = "SYNC_REWORK" /\ e.status = "PENDING"
  BY <1>2, SyncRequested
<1>5. act["user"].todo # <<>> /\ act["user"].todo[1] = "sync"
  BY <1>1, ListNow
<1>6. ListOnward
  BY <1>1, ListServerRests DEF ListInvariant
<1>7. ListAct'
  BY <1>1, <1>5, <1>6, RestLeft
<1>8. \A op, s : Enqueues(op, s) => e.op = op /\ e.serial = s
  BY <1>5 DEF Enqueues
<1> QED BY <1>1, <1>3, <1>4, <1>7, <1>8, ListAppends

LEMMA NothingLeft == <<>> \in Seq(ListStep) /\ \A j \in DOMAIN <<>> : <<>>[j] \notin ListActs
OBVIOUS

LEMMA GenerateKeeps ==
    ASSUME ListInvariant, List!Generate
    PROVE  ListInvariant'
<1>1. /\ UNCHANGED <<server, early, cache, queue, run, dropped>>
      /\ List!Now("user", "generate") /\ List!Goes("user", <<>>)
      /\ excused \subseteq excused'
  BY DEF List!Generate
<1>2. act["user"].todo # <<>> /\ act["user"].todo[1] = "generate" /\ "user" \in List!Actor
  BY <1>1, ListNow
<1>3. ListOnward
  BY <1>1, ListServerRests DEF ListInvariant
<1>4. ListAct'
  BY <1>1, <1>2, <1>3, NothingLeft, WentOn DEF ListInvariant
<1> QED BY <1>1, <1>2, <1>3, <1>4, ListActMoves

(* ------------------------------- the pull ------------------------------ *)

(* An actor goes on with what is left, having read something.              *)
LEMMA ReadingKeeps ==
    ASSUME ListInvariant, UNCHANGED <<server, early, cache, queue, run, dropped, excused>>,
           NEW a \in List!Actor, act[a].todo # <<>>, act[a].todo[1] # "enqueue",
           NEW r \in ListOperation, r.op = act[a].op, r.serial = act[a].serial, r.id = act[a].id,
           \A s \in ListSerial : r.list[s].sync \in {"none", "SYNCED"},
           NEW todo, todo = List!Rest(a), NEW x, x = List!Left(r, todo), act' = [act EXCEPT ![a] = x]
    PROVE  ListInvariant'
<1>1. /\ todo \in Seq(ListStep) /\ \A j \in DOMAIN todo : todo[j] \notin ListActs
  BY RestIs DEF ListInvariant
<1>2. /\ x \in ListOperation /\ x.todo = todo /\ x.op = r.op /\ x.serial = r.serial /\ x.id = r.id
      /\ x.list = r.list
  BY <1>1, LeftOver
<1>3. todo # <<>> => todo[1] \notin ListActs
  BY <1>1
<1>4. ListSteps(x.todo)
  BY <1>1, <1>2, <1>3 DEF ListSteps, ListActs
<1>5. CASE a = "background"
  BY <1>2, <1>4, <1>5, BackgroundKeeps
<1>6. CASE a = "user"
  <2>1. ListPlan(x)'
    BY <1>2, <1>3, <1>6 DEF ListInvariant, ListAct, ListPlan, ListActs
  <2>2. ListAct'
    BY <1>2, <1>4, <1>6, <2>1, OperationReplaced DEF ListInvariant
  <2>3. ListOnward
    BY ListServerRests DEF ListInvariant
  <2> QED BY <1>6, <2>2, <2>3, ListActMoves
<1> QED BY <1>5, <1>6, ListActors

LEMMA ListReads ==
    ASSUME ListInvariant, NEW a \in List!Actor, NEW step, List!Now(a, step)
    PROVE  /\ act[a].todo # <<>> /\ act[a].todo[1] = step /\ act[a] \in ListOperation
           /\ \A s \in ListSerial : act[a].list[s].sync \in {"none", "SYNCED"}
           /\ step = "get" => Len(act[a].todo) > 2
<1>1. /\ act[a].todo # <<>> /\ Head(act[a].todo) = step /\ act[a] \in ListOperation /\ ListAct
  BY DEF List!Now, ListInvariant, ListAct
<1>2. act[a].todo[1] = step
  BY <1>1, RestIs
<1> QED BY <1>1, <1>2 DEF ListAct, ListSteps

LEMMA ListGotKeeps ==
    ASSUME ListInvariant, NEW a \in List!Actor, List!GetList(a)
    PROVE  ListInvariant'
<1>1. UNCHANGED <<server, early, cache, queue, run, dropped, excused>> /\ List!Now(a, "get")
  BY DEF List!GetList, List!serverVars, List!deviceVars, List!ghostVars
<1>2. /\ act[a].todo # <<>> /\ act[a].todo[1] = "get" /\ act[a] \in ListOperation
      /\ Len(act[a].todo) > 2
  BY <1>1, ListReads
<1>3. CASE connected
  <2>1. PICK list : list = [s \in ListSerial |-> IF server[s].is = "live" THEN List!RowOf(server[s])
                                                 ELSE List!NoRow]
    OBVIOUS
  <2>2. PICK todo, r : todo = List!Rest(a) /\ r = List!Listing(act[a], list)
    OBVIOUS
  <2>3. PICK x : x = List!Left(r, todo)
    OBVIOUS
  <2>4. act' = [act EXCEPT ![a] = x]
    BY <1>3, <2>1, <2>2, <2>3, Zenon DEF List!GetList
  <2>5. \A s \in ListSerial : list[s] \in ListRow /\ list[s].sync \in {"none", "SYNCED"}
    BY <2>1, NoListRow, ListRowOf DEF ListInvariant, ListServer
  <2>6. list \in ListRows
    BY <2>1, <2>5 DEF ListRows
  <2>7. /\ r \in ListOperation /\ r.list = list
        /\ r.op = act[a].op /\ r.serial = act[a].serial /\ r.id = act[a].id
    BY <1>2, <2>2, <2>6, ListingRows
  <2> QED BY <1>1, <1>2, <2>2, <2>3, <2>4, <2>5, <2>7, ReadingKeeps
<1>4. CASE ~connected
  <2>1. PICK t : t = act[a].todo
    OBVIOUS
  <2>2. List!Goes(a, Tail(Tail(Tail(t))))
    BY <1>4, <2>1 DEF List!GetList, List!Rest
  <2>3. t \in Seq(ListStep) /\ Len(t) > 2 /\ \A j \in DOMAIN t : t[j] \in ListActs => j = 1
    BY <1>2, <2>1 DEF ListInvariant, ListAct, ListSteps, ListOperation
  <2>4. PICK u : u = Tail(Tail(Tail(t)))
    OBVIOUS
  <2>5. u \in Seq(ListStep) /\ \A j \in DOMAIN u : j + 3 \in DOMAIN t /\ j # 0 /\ u[j] = t[j + 3] /\ j \in Nat
    <3>1. PICK v : v = Tail(t)
      OBVIOUS
    <3>2. /\ v \in Seq(ListStep) /\ Len(v) = Len(t) - 1
          /\ \A j \in DOMAIN v : j + 1 \in DOMAIN t /\ v[j] = t[j + 1]
      BY <2>3, <3>1
    <3>3. PICK w : w = Tail(v)
      OBVIOUS
    <3>4. /\ w \in Seq(ListStep) /\ Len(w) = Len(v) - 1
          /\ \A j \in DOMAIN w : j + 1 \in DOMAIN v /\ w[j] = v[j + 1]
      BY <2>3, <3>2, <3>3
    <3>5. u = Tail(w)
      BY <2>4, <3>1, <3>3
    <3>6. /\ u \in Seq(ListStep) /\ Len(u) = Len(w) - 1
          /\ \A j \in DOMAIN u : j + 1 \in DOMAIN w /\ u[j] = w[j + 1]
      BY <2>3, <3>2, <3>4, <3>5
    <3> QED BY <2>3, <3>2, <3>4, <3>6
  <2>6. \A j \in DOMAIN u : u[j] \notin ListActs
    BY <2>3, <2>5
  <2>7. ListOnward
    BY <1>1, ListServerRests DEF ListInvariant
  <2>8. /\ ListAct'
        /\ \A b \in List!Actor : b # a => act'[b] = act[b]
    BY <1>2, <2>2, <2>4, <2>5, <2>6, <2>7, WentOn DEF ListInvariant
  <2>9. act'["user"] = act["user"] \/ act["user"].todo[1] # "enqueue"
    BY <1>2, <2>8, ListActors
  <2> QED BY <1>1, <2>7, <2>8, <2>9, ListActMoves
<1> QED BY <1>3, <1>4

LEMMA RowsSeenKeeps ==
    ASSUME ListInvariant, NEW a \in List!Actor, List!SeeRows(a)
    PROVE  ListInvariant'
<1>1. UNCHANGED <<server, early, cache, queue, run, dropped, excused>> /\ List!Now(a, "see")
  BY DEF List!SeeRows, List!serverVars, List!deviceVars, List!ghostVars
<1>2. /\ act[a].todo # <<>> /\ act[a].todo[1] = "see" /\ act[a] \in ListOperation
      /\ \A s \in ListSerial : act[a].list[s].sync \in {"none", "SYNCED"}
  BY <1>1, ListReads
<1>3. PICK seen : seen = [s \in ListSerial |-> cache[s]["real"]]
  OBVIOUS
<1>4. PICK todo, r : todo = List!Rest(a) /\ r = List!Seeing(act[a], seen)
  OBVIOUS
<1>5. PICK x : x = List!Left(r, todo)
  OBVIOUS
<1>6. act' = [act EXCEPT ![a] = x]
  BY <1>3, <1>4, <1>5, Zenon DEF List!SeeRows
<1>7. seen \in ListRows
  BY <1>3 DEF ListRows, ListInvariant, ListCache, ListId
<1>8. /\ r \in ListOperation /\ r.list = act[a].list
      /\ r.op = act[a].op /\ r.serial = act[a].serial /\ r.id = act[a].id
  BY <1>2, <1>4, <1>7, SeeingRows
<1> QED BY <1>1, <1>2, <1>4, <1>5, <1>6, <1>8, ReadingKeeps

LEMMA RowsPutKeeps ==
    ASSUME ListInvariant, NEW a \in List!Actor, List!PutRows(a)
    PROVE  ListInvariant'
<1>1. /\ UNCHANGED <<server, early, queue, run, dropped, excused>> /\ List!Now(a, "put")
      /\ List!Goes(a, List!Rest(a))
  BY DEF List!PutRows, List!serverVars, List!ghostVars
<1>2. /\ act[a].todo # <<>> /\ act[a].todo[1] = "put" /\ act[a] \in ListOperation
      /\ \A s \in ListSerial : act[a].list[s].sync \in {"none", "SYNCED"}
  BY <1>1, ListReads
<1>3. PICK list : list = act[a].list
  OBVIOUS
<1>4. cache' = [s \in ListSerial |-> [i \in ListId |-> IF i = "real" /\ List!Pulled(a, s)
                                                       THEN list[s] ELSE cache[s][i]]]
  BY <1>3 DEF List!PutRows, List!Id, ListId
<1>5. list \in ListRows /\ cache \in [ListSerial -> [ListId -> ListRow]]
  BY <1>2, <1>3 DEF ListOperation, ListInvariant, ListCache
<1>6. ASSUME NEW s \in ListSerial, NEW i \in ListId
      PROVE  /\ cache'[s][i] = cache[s][i] \/ (i = "real" /\ cache'[s][i] = list[s])
             /\ cache'[s][i] \in ListRow
  BY <1>4, <1>5, <1>6 DEF ListRows
<1>7. cache' \in [ListSerial -> [ListId -> ListRow]]
  <2>1. ASSUME NEW s \in ListSerial
        PROVE  cache'[s] \in [ListId -> ListRow]
    <3>1. PICK c : c = cache'[s]
      OBVIOUS
    <3>2. c = [i \in ListId |-> IF i = "real" /\ List!Pulled(a, s) THEN list[s] ELSE cache[s][i]]
      BY <1>4, <3>1
    <3>3. \A i \in ListId : c[i] \in ListRow
      BY <1>6, <3>1
    <3> QED BY <3>1, <3>2, <3>3
  <2> QED BY <1>4, <2>1
<1>8. \A s \in ListSerial, i \in ListId : cache'[s][i].sync = "PENDING" => cache[s][i].sync = "PENDING"
  BY <1>2, <1>3, <1>6
<1>9. ListCache'
  BY <1>6, <1>7 DEF ListInvariant, ListCache, ListId
<1>10. ListOnward
  BY <1>1, ListServerRests DEF ListInvariant
<1>11. ListAct' /\ (a # "user" => act'["user"] = act["user"])
  <2>1. PICK todo : todo = List!Rest(a)
    OBVIOUS
  <2>2. todo \in Seq(ListStep) /\ \A j \in DOMAIN todo : todo[j] \notin ListActs
    BY <1>2, <2>1, RestIs DEF ListInvariant
  <2>3. List!Goes(a, todo)
    BY <1>1, <2>1
  <2> QED BY <1>2, <1>10, <2>2, <2>3, WentOn, ListActors DEF ListInvariant
<1>12. \A op, s : Enqueues(op, s) => Enqueues(op, s)'
  BY <1>2, <1>11 DEF Enqueues
<1>13. ListDecided'
  BY <1>1, <1>10, <1>12, ListDecidedStays DEF ListInvariant
<1>14. ListOwed'
  BY <1>1, <1>8, <1>12, ListOwedStays DEF ListInvariant
<1> QED BY <1>1, <1>9, <1>10, <1>11, <1>13, <1>14, ListRowsMove

(* ------------------------------ the delivery --------------------------- *)

LEMMA ListItem ==
    ASSUME ListInvariant, run.step \in Sending
    PROVE  /\ run \in ListRun /\ run.item \in DOMAIN queue /\ List!Item = queue[run.item]
           /\ queue[run.item] \in ListRequest /\ queue[run.item].status = "PENDING"
           /\ queue[run.item].op \in ListOp \cup {"SYNC_REWORK"} /\ queue[run.item].marked \in BOOLEAN
           /\ queue[run.item].op # "SYNC_REWORK" =>
                 queue[run.item].op \in ListOp /\ queue[run.item].serial \in ListSerial
           /\ queue[run.item].id \in ListId
<1>1. run \in ListRun /\ run.item \in DOMAIN queue /\ queue[run.item].status = "PENDING" /\ ListQueue
  BY DEF ListInvariant, ListRunning
<1>2. queue[run.item] \in ListRequest
      /\ (queue[run.item].op # "SYNC_REWORK" =>
             queue[run.item].op \in ListOp /\ queue[run.item].serial \in ListSerial)
  BY <1>1, ListRequests
<1>3. /\ queue[run.item].op \in ListOp \cup {"SYNC_REWORK"} /\ queue[run.item].marked \in BOOLEAN
      /\ queue[run.item].id \in ListId
  BY <1>2 DEF ListRequest
<1> QED BY <1>1, <1>2, <1>3 DEF List!Item

LEMMA ListEntities ==
    ASSUME ListQueue, NEW k \in DOMAIN queue
    PROVE  /\ List!Entity(queue[k]) \in ListEntity
           /\ queue[k].op = "BULK_CREATE" => List!Entity(queue[k]) = List!Report
           /\ queue[k].op \in {"BULK_CREATE", "SN_DELETE"} => List!Report \in List!Depends(queue[k])
           /\ queue[k].op = "BULK_CREATE" => List!Depends(queue[k]) = {List!Report}
<1>1. /\ queue[k].id \in ListId
      /\ queue[k].op # "SYNC_REWORK" => queue[k].serial \in ListSerial
  BY ListRequests DEF ListRequest
<1> QED BY <1>1 DEF List!Entity, List!Depends, ListEntity

LEMMA ListEnds ==
    ASSUME ListQueue, NEW k \in DOMAIN queue,
           NEW status \in {"PENDING", "SYNCED", "CONFLICT", "FAILED"}, List!Ends(k, status),
           queue[k].op = "BULK_CREATE" => status # "FAILED"
    PROVE  /\ ListQueue' /\ DOMAIN queue' = DOMAIN queue
           /\ queue'[k].op = queue[k].op /\ queue'[k].serial = queue[k].serial
           /\ queue'[k].id = queue[k].id /\ queue'[k].status = status
           /\ \A j \in DOMAIN queue : j # k => queue'[j] = queue[j]
<1>1. PICK x, y : x = queue[k] /\ y = List!Ended(x, status)
  OBVIOUS
<1>2. queue' = [queue EXCEPT ![k] = y]
  BY <1>1 DEF List!Ends
<1>3. x \in ListRequest
  BY <1>1, ListRequests
<1>4. /\ y \in ListRequest /\ y.status = status
      /\ y.op = x.op /\ y.serial = x.serial /\ y.id = x.id
  BY <1>1, <1>3 DEF List!Ended, ListRequest
<1>5. /\ queue' \in Seq(ListRequest) /\ DOMAIN queue' = DOMAIN queue /\ queue'[k] = y
      /\ \A j \in DOMAIN queue : j # k => queue'[j] = queue[j]
  BY <1>2, <1>4 DEF ListQueue
<1>6. ListQueue'
  BY <1>1, <1>4, <1>5 DEF ListQueue
<1> QED BY <1>1, <1>4, <1>5, <1>6

LEMMA ListPassed ==
    ASSUME NEW todo \in SUBSET Nat, NEW skip \in SUBSET ListEntity, run' = List!Passed(todo, skip)
    PROVE  /\ run' \in ListRun /\ run'.step \notin Sending /\ run'.todo = todo
           /\ todo # {} => run'.skip = skip
<1>1. PICK row : row = List!NoRow
  OBVIOUS
<1>2. row \in ListRow
  BY <1>1, NoListRow
<1>3. CASE todo = {}
  <2>1. run' = [todo |-> {}, item |-> 0, skip |-> {}, step |-> "idle", row |-> row]
    BY <1>1, <1>3, Zenon DEF List!Passed, List!NoRun
  <2> QED BY <1>2, <1>3, <2>1 DEF ListRun, Sending
<1>4. CASE todo # {}
  <2>1. run' = [todo |-> todo, item |-> 0, skip |-> skip, step |-> "next", row |-> row]
    BY <1>1, <1>4, Zenon DEF List!Passed, List!Onward
  <2> QED BY <1>2, <1>4, <2>1 DEF ListRun, Sending
<1> QED BY <1>3, <1>4

(* A step of the delivery.                                                 *)
LEMMA DeliveryMoves ==
    ASSUME ListInvariant, UNCHANGED <<act, dropped, excused>>, ListOnward,
           ListCache', ListQueue', ListRunning', ListAwaits', ListOwed',
           DOMAIN queue \subseteq DOMAIN queue',
           \A k \in DOMAIN queue :
               /\ queue'[k].op = queue[k].op /\ queue'[k].serial = queue[k].serial
               /\ queue[k].id = "real" => queue'[k].id = "real"
               /\ queue[k].op = "SN_DELETE" =>
                     \/ queue'[k].status = queue[k].status
                     \/ server[queue[k].serial].is = "gone"
                     \/ <<"deletion", queue[k].serial>> \in excused
                     \/ queue'[k].status \in {"PENDING", "CONFLICT"}
                     \/ queue'[k].status = "FAILED" /\ queue[k].id = "real"
    PROVE  ListInvariant'
<1>1. ListAct'
  BY ListActStays DEF ListInvariant
<1>2. ListDecided'
  <2> SUFFICES ASSUME NEW s \in ListSerial, SerialDecided(s)
               PROVE  SerialDecided(s)'
    BY DEF ListInvariant, ListDecided
  <2>1. Enqueues("SN_DELETE", s) => Enqueues("SN_DELETE", s)'
    BY DEF Enqueues
  <2> QED BY <2>1, SerialStaysDecided
<1> QED BY <1>1, <1>2 DEF ListInvariant, ListOnward

(* A step of it that only the run is moved on by, and the server.          *)
LEMMA OnlyRunMoves ==
    ASSUME ListInvariant, UNCHANGED <<cache, queue, act, dropped, excused>>, ListOnward,
           ListRunning', ListAwaits', ListOwed'
    PROVE  ListInvariant'
<1>1. ListCache' /\ ListQueue'
  BY DEF ListInvariant, ListCache, ListQueue
<1> QED BY <1>1, DeliveryMoves

(* Rows stay owed while their requests do.                                 *)
LEMMA OwedByRequests ==
    ASSUME ListInvariant, UNCHANGED <<act, excused>>, DOMAIN queue \subseteq DOMAIN queue',
           \A s \in ListSerial, i \in ListId :
               cache'[s][i].sync = "PENDING" =>
                   /\ cache[s][i].sync = "PENDING"
                   /\ \A k \in DOMAIN queue : OwesRow(k, s, i) => OwesRow(k, s, i)'
    PROVE  ListOwed'
<1> SUFFICES ASSUME NEW s \in ListSerial, NEW i \in ListId, cache'[s][i].sync = "PENDING"
             PROVE  \/ <<"row", s>> \in excused'
                    \/ \E op \in RowOp(i) : Enqueues(op, s)'
                    \/ \E k \in DOMAIN queue' : OwesRow(k, s, i)'
  BY DEF ListOwed
<1>1. CASE \E op \in RowOp(i) : Enqueues(op, s)
  BY <1>1 DEF Enqueues
<1>2. CASE \E k \in DOMAIN queue : OwesRow(k, s, i)
  BY <1>2
<1> QED BY <1>1, <1>2 DEF ListInvariant, ListOwed

LEMMA RunBeginsKeeps ==
    ASSUME ListInvariant, List!StartRun
    PROVE  ListInvariant'
<1>1. UNCHANGED <<server, early, cache, queue, act, dropped, excused>>
  BY DEF List!StartRun, List!serverVars, List!deviceVars, List!ghostVars
<1>2. PICK todo : todo = {k \in DOMAIN queue : List!Waiting(k)}
  OBVIOUS
<1>3. PICK skip : skip = {List!Entity(queue[k]) : k \in {j \in DOMAIN queue : queue[j].status = "CONFLICT"}}
  OBVIOUS
<1>4. PICK row : row = List!NoRow
  OBVIOUS
<1>5. run' = [todo |-> todo, item |-> 0, skip |-> skip, step |-> "next", row |-> row]
  BY <1>2, <1>3, <1>4, Zenon DEF List!StartRun, List!Onward
<1>6. /\ todo \in SUBSET Nat
      /\ \A k \in DOMAIN queue : k \in todo <=> queue[k].status = "PENDING"
      /\ todo \subseteq DOMAIN queue
  BY <1>2 DEF List!Waiting, ListInvariant, ListQueue
<1>7. skip \in SUBSET ListEntity
  BY <1>3, ListEntities DEF ListInvariant
<1>8. row \in ListRow
  BY <1>4, NoListRow
<1>9. run' \in ListRun /\ run'.step = "next" /\ run'.todo = todo /\ run'.skip = skip
  BY <1>5, <1>6, <1>7, <1>8 DEF ListRun, Sending
<1>10. ListRunning'
  BY <1>1, <1>6, <1>9 DEF ListRunning, Sending
<1>11. ListAwaits'
  <2>1. ASSUME NEW k \in DOMAIN queue', Early(k)'
        PROVE  \E j \in DOMAIN queue' : j < k /\ Awaits(k, j)'
    <3>1. Early(k)
      BY <1>1, <2>1 DEF Early
    <3>2. PICK j \in DOMAIN queue : j < k /\ Awaits(k, j)
      BY <1>1, <2>1, <3>1 DEF ListInvariant, ListAwaits
    <3>3. j \in todo \/ List!Report \in skip
      <4>1. CASE queue[j].status = "PENDING"
        BY <1>6, <4>1
      <4>2. CASE queue[j].status = "CONFLICT"
        <5>1. List!Entity(queue[j]) = List!Report
          BY <3>2, ListEntities DEF Awaits, ListInvariant
        <5> QED BY <1>3, <4>2, <5>1
      <4> QED BY <3>2, <4>1, <4>2 DEF Awaits
    <3> QED BY <1>1, <1>9, <3>2, <3>3 DEF Awaits, IsSent
  <2> QED BY <2>1 DEF ListAwaits
<1>12. ListOwed'
  <2>1. \A s, i, k : OwesRow(k, s, i) => OwesRow(k, s, i)'
    BY <1>1, <1>9 DEF OwesRow, RowOver
  <2> QED BY <1>1, <2>1, OwedByRequests
<1>13. ListOnward
  BY <1>1, ListServerRests DEF ListInvariant
<1> QED BY <1>1, <1>10, <1>11, <1>12, <1>13, OnlyRunMoves

(* The run leaves its request and goes on, or rests.                       *)
LEMMA LeavesItem ==
    ASSUME ListInvariant, UNCHANGED <<act, excused>>, DOMAIN queue' = DOMAIN queue,
           NEW todo \in SUBSET run.todo, NEW skip \in SUBSET ListEntity, run.skip \subseteq skip,
           run' = List!Passed(todo, skip), NEW i \in DOMAIN queue, i \notin todo,
           run.step \in Sending => run.item = i,
           run.todo \ {i} = todo,
           \A k \in DOMAIN queue : k # i => queue'[k] = queue[k],
           queue'[i].op = queue[i].op, queue'[i].serial = queue[i].serial,
           queue[i].op = "BULK_CREATE" =>
               \/ queue'[i].status \in {"PENDING", "CONFLICT"} /\ List!Report \in skip
               \/ run.step = "end",
           Early(i)' => /\ Early(i) /\ (queue'[i].status = queue[i].status)
    PROVE  ListRunning' /\ ListAwaits'
<1>1. /\ run \in ListRun
      /\ \A k \in run.todo : k \in DOMAIN queue /\ queue[k].status = "PENDING"
  BY DEF ListInvariant, ListRunning
<1>2. todo \in SUBSET Nat
  BY <1>1 DEF ListRun
<1>3. /\ run' \in ListRun /\ run'.step \notin Sending /\ run'.todo = todo
      /\ todo # {} => run'.skip = skip
  BY <1>2, ListPassed
<1>4. ListRunning'
  BY <1>1, <1>3 DEF ListRunning
<1>5. ASSUME NEW k \in DOMAIN queue', Early(k)'
      PROVE  \E j \in DOMAIN queue' : j < k /\ Awaits(k, j)'
  <2>1. Early(k)
    BY <1>5 DEF Early
  <2>2. PICK j \in DOMAIN queue : j < k /\ Awaits(k, j)
    BY <1>5, <2>1 DEF ListInvariant, ListAwaits
  <2>3. queue'[j].op = "BULK_CREATE" /\ queue'[j].serial = queue'[k].serial
    BY <1>5, <2>2 DEF Awaits
  <2>4. queue'[j].status \in {"PENDING", "CONFLICT"}
    BY <2>2 DEF Awaits, Sending
  <2>5. ~(run'.step = "end" /\ run'.item = j)
    BY <1>3 DEF Sending
  <2>6. ASSUME k \in run'.todo \/ IsSent(k)'
        PROVE  List!Report \in run'.skip \/ j \in run'.todo
    <3>1. k \in todo /\ run'.skip = skip
      BY <1>3, <2>6 DEF IsSent
    <3>2. List!Report \in run.skip \/ j \in run.todo \/ IsSent(j)
      BY <2>2, <3>1 DEF Awaits
    <3>3. CASE j = i
      BY <2>2, <2>3, <3>1, <3>2, <3>3 DEF Awaits, IsSent, Sending
    <3>4. CASE j # i
      BY <1>3, <3>1, <3>2, <3>4 DEF IsSent
    <3> QED BY <3>3, <3>4
  <2>7. Awaits(k, j)'
    BY <2>3, <2>4, <2>5, <2>6 DEF Awaits
  <2> QED BY <2>2, <2>7
<1> QED BY <1>4, <1>5 DEF ListAwaits

LEMMA ListJudgedKeeps ==
    ASSUME ListInvariant, List!Judge
    PROVE  ListInvariant'
<1>1. UNCHANGED <<server, early, cache, act, dropped, excused>> /\ run.step = "next"
  BY DEF List!Judge, List!serverVars, List!ghostVars
<1>13. PICK k \in run.todo :
         /\ \A j \in run.todo : k <= j
         /\ IF List!Depends(queue[k]) \cap run.skip # {}
            THEN List!Ends(k, "CONFLICT") /\ run' = List!Passed(run.todo \ {k}, run.skip)
            ELSE /\ UNCHANGED queue
                 /\ run' = [run EXCEPT !.todo = run.todo \ {k}, !.item = k, !.step = "send"]
  BY DEF List!Judge
<1>14. PICK rest : rest = run.todo \ {k}
  OBVIOUS
<1>2. /\ rest = run.todo \ {k} /\ \A j \in run.todo : k <= j
      /\ IF List!Depends(queue[k]) \cap run.skip # {}
         THEN List!Ends(k, "CONFLICT") /\ run' = List!Passed(rest, run.skip)
         ELSE UNCHANGED queue /\ run' = [run EXCEPT !.todo = rest, !.item = k, !.step = "send"]
  BY <1>13, <1>14
<1>3. /\ run \in ListRun /\ k \in DOMAIN queue /\ queue[k].status = "PENDING"
      /\ \A j \in run.todo : j \in DOMAIN queue /\ queue[j].status = "PENDING"
      /\ ListQueue
  BY <1>2 DEF ListInvariant, ListRunning
<1>4. /\ run.todo \in SUBSET Nat /\ run.skip \in SUBSET ListEntity /\ rest \in SUBSET run.todo
      /\ k \notin rest /\ k \in Nat
  BY <1>2, <1>3 DEF ListRun
<1>5. ListOnward
  BY <1>1, ListServerRests DEF ListInvariant
<1>6. CASE List!Depends(queue[k]) \cap run.skip # {}
  <2>1. List!Ends(k, "CONFLICT") /\ run' = List!Passed(rest, run.skip)
    BY <1>2, <1>6
  <2>2. /\ ListQueue' /\ DOMAIN queue' = DOMAIN queue
        /\ queue'[k].op = queue[k].op /\ queue'[k].serial = queue[k].serial
        /\ queue'[k].id = queue[k].id /\ queue'[k].status = "CONFLICT"
        /\ \A j \in DOMAIN queue : j # k => queue'[j] = queue[j]
    BY <1>3, <2>1, ListEnds
  <2>3. queue[k].op = "BULK_CREATE" => List!Report \in run.skip
    BY <1>3, <1>6, ListEntities
  <2>4. run.todo \ {k} = rest /\ run.step \notin Sending
    BY <1>1, <1>2 DEF Sending
  <2>5. ~Early(k)'
    BY <2>2 DEF Early
  <2>6. ListRunning' /\ ListAwaits'
    BY <1>1, <1>3, <1>4, <2>1, <2>2, <2>3, <2>4, <2>5, LeavesItem
  <2>7. run'.step \notin Sending
    BY <1>3, <1>4, <2>1, ListPassed
  <2>8. \A s, i, j : j \in DOMAIN queue /\ OwesRow(j, s, i) => OwesRow(j, s, i)'
    BY <2>2, <2>7 DEF OwesRow, RowOver, Sending
  <2>9. ListOwed'
    BY <1>1, <2>2, <2>8, OwedByRequests
  <2>10. ListCache'
    BY <1>1 DEF ListInvariant, ListCache
  <2> QED BY <1>1, <1>5, <2>2, <2>6, <2>9, <2>10, DeliveryMoves
<1>7. CASE List!Depends(queue[k]) \cap run.skip = {}
  <2>1. UNCHANGED queue /\ run' = [run EXCEPT !.todo = rest, !.item = k, !.step = "send"]
    BY <1>2, <1>7
  <2>2. /\ run' \in ListRun /\ run'.todo = rest /\ run'.item = k /\ run'.step = "send"
        /\ run'.skip = run.skip
    BY <1>3, <1>4, <2>1 DEF ListRun, Sending
  <2>3. \A j \in rest : k < j
    BY <1>2, <1>4
  <2>4. ListRunning'
    BY <1>3, <1>4, <1>7, <2>1, <2>2, <2>3 DEF ListRunning
  <2>5. ListAwaits'
    <3>1. ASSUME NEW m \in DOMAIN queue', Early(m)'
          PROVE  \E j \in DOMAIN queue' : j < m /\ Awaits(m, j)'
      <4>1. Early(m)
        BY <1>1, <2>1, <3>1 DEF Early
      <4>2. PICK j \in DOMAIN queue : j < m /\ Awaits(m, j)
        BY <2>1, <3>1, <4>1 DEF ListInvariant, ListAwaits
      <4>3. ASSUME m \in run'.todo \/ IsSent(m)'
            PROVE  List!Report \in run'.skip \/ j \in run'.todo \/ IsSent(j)'
        <5>1. m \in run.todo
          BY <1>2, <2>2, <4>3 DEF IsSent
        <5>2. List!Report \in run.skip \/ j \in run.todo
          BY <1>1, <4>2, <5>1 DEF Awaits, IsSent, Sending
        <5> QED BY <1>2, <2>2, <5>2 DEF IsSent, Sending
      <4> QED BY <2>1, <2>2, <4>2, <4>3 DEF Awaits
    <3> QED BY <3>1 DEF ListAwaits
  <2>6. ListOwed'
    <3>1. \A s, i, j : OwesRow(j, s, i) => OwesRow(j, s, i)'
      BY <2>1, <2>2 DEF OwesRow, RowOver
    <3> QED BY <1>1, <2>1, <3>1, OwedByRequests
  <2> QED BY <1>1, <1>5, <2>1, <2>4, <2>5, <2>6, OnlyRunMoves
<1> QED BY <1>6, <1>7

(* The run stays with its request.                                         *)
LEMMA StaysWithItem ==
    ASSUME ListInvariant, UNCHANGED <<queue, excused>>, run.step \in Sending, run'.step \in Sending,
           run'.item = run.item, run'.todo = run.todo, run'.skip = run.skip,
           run'.step = "end" => queue[run.item].op # "BULK_CREATE" \/ run.step = "end"
    PROVE  ListAwaits'
<1>1. ASSUME NEW k \in DOMAIN queue', Early(k)'
      PROVE  \E j \in DOMAIN queue' : j < k /\ Awaits(k, j)'
  <2>1. Early(k)
    BY <1>1 DEF Early
  <2>2. PICK j \in DOMAIN queue : j < k /\ Awaits(k, j)
    BY <1>1, <2>1 DEF ListInvariant, ListAwaits
  <2> QED BY <2>2 DEF Awaits, IsSent
<1> QED BY <1>1 DEF ListAwaits

LEMMA DeliveredKeeps ==
    ASSUME ListInvariant, List!Deliver
    PROVE  ListInvariant'
<1>1. UNCHANGED <<early, cache, queue, act, dropped, excused>> /\ run.step = "send"
  BY DEF List!Deliver, List!deviceVars, List!ghostVars
<1>2. PICK r : r = queue[run.item]
  OBVIOUS
<1>3. /\ run \in ListRun /\ run.item \in DOMAIN queue /\ List!Item = r
      /\ r.op \in ListOp \cup {"SYNC_REWORK"} /\ r.marked \in BOOLEAN
      /\ r.op # "SYNC_REWORK" => r.op \in ListOp /\ r.serial \in ListSerial
  BY <1>1, <1>2, ListItem DEF Sending
<1>4. /\ List!MadeOnce(r) /\ List!Answered(r) = 200 /\ List!Happens(r)
  BY <1>3 DEF List!Deliver
<1>5. /\ ListOnward
      /\ r.op = "SN_DELETE" => server'[r.serial].is = "gone"
      /\ r.op # "SYNC_REWORK" => server'[r.serial] \in ListThing
  BY <1>1, <1>3, <1>4, ServerServes DEF ListInvariant
<1>6. PICK row : row = IF r.op = "SYNC_REWORK" THEN List!NoRow ELSE List!RowOf(server'[r.serial])
  OBVIOUS
<1>7. PICK step : step = (CASE r.op = "BULK_CREATE" -> "look" [] r.op = "SN_DELETE" -> "end"
                            [] OTHER -> "cache")
  OBVIOUS
<1>8. run' = [run EXCEPT !.row = row, !.step = step]
  BY <1>3, <1>6, <1>7, Zenon DEF List!Deliver
<1>9. row \in ListRow /\ (r.op # "SYNC_REWORK" => row.sync = "SYNCED")
  BY <1>5, <1>6, NoListRow, ListRowOf
<1>10. /\ step \in {"look", "cache", "end"}
       /\ step = "look" => r.op = "BULK_CREATE"
       /\ step = "cache" => r.op # "SN_DELETE"
       /\ step = "end" => r.op = "SN_DELETE"
  BY <1>7
<1>11. /\ run' \in ListRun /\ run'.step = step /\ run'.item = run.item /\ run'.todo = run.todo
       /\ run'.skip = run.skip /\ run'.row = row
  <2>1. step \in {"idle", "next"} \cup Sending
    BY <1>10 DEF Sending
  <2> QED BY <1>3, <1>8, <1>9, <2>1 DEF ListRun
<1>12. ListRunning'
  <2>1. \A k \in run.todo : k \in DOMAIN queue /\ queue[k].status = "PENDING"
    BY DEF ListInvariant, ListRunning
  <2>2. /\ queue[run.item].status = "PENDING"
        /\ \A k \in run.todo : run.item < k
        /\ List!Depends(queue[run.item]) \cap run.skip = {}
    BY <1>1 DEF ListInvariant, ListRunning, Sending
  <2>3. /\ step \in {"look", "remap"} => r.op = "BULK_CREATE"
        /\ step \in {"look", "cache"} /\ r.op # "SYNC_REWORK" => row.sync = "SYNCED"
        /\ step = "end" /\ r.op = "SN_DELETE" => server'[r.serial].is = "gone"
    BY <1>5, <1>9, <1>10
  <2> QED BY <1>1, <1>2, <1>3, <1>10, <1>11, <2>1, <2>2, <2>3 DEF ListRunning
<1>13. ListAwaits'
  BY <1>1, <1>2, <1>10, <1>11, StaysWithItem DEF Sending
<1>14. ListOwed'
  <2>1. \A s, k : \A i \in ListId : OwesRow(k, s, i) => OwesRow(k, s, i)'
    BY <1>1, <1>2, <1>10, <1>11 DEF OwesRow, RowOver, RowOp, ListEdit
  <2> QED BY <1>1, <2>1, OwedByRequests
<1> QED BY <1>1, <1>5, <1>12, <1>13, <1>14, OnlyRunMoves

LEMMA ListDeliveryLostKeeps ==
    ASSUME ListInvariant, List!LoseDelivery
    PROVE  ListInvariant'
<1>1. UNCHANGED <<early, cache, queue, act, dropped, excused>> /\ run.step = "send"
  BY DEF List!LoseDelivery, List!deviceVars, List!ghostVars
<1>2. PICK r : r = queue[run.item]
  OBVIOUS
<1>3. /\ run \in ListRun /\ run.item \in DOMAIN queue /\ List!Item = r
      /\ r.op \in ListOp \cup {"SYNC_REWORK"} /\ r.marked \in BOOLEAN
      /\ r.op # "SYNC_REWORK" => r.op \in ListOp /\ r.serial \in ListSerial
      /\ r.status = "PENDING"
  BY <1>1, <1>2, ListItem DEF Sending
<1>4. List!MadeOnce(r) /\ List!MayHappen(r) /\ run' = List!Skipping
  BY <1>3 DEF List!LoseDelivery
<1>5. ListOnward
  <2>1. CASE List!Answered(r) = 200 /\ List!Happens(r)
    BY <1>1, <1>3, <1>4, <2>1, ServerServes DEF ListInvariant
  <2>2. CASE UNCHANGED server
    BY <1>1, <2>2, ListServerRests DEF ListInvariant
  <2> QED BY <1>4, <2>1, <2>2 DEF List!MayHappen
<1>6. PICK skip : skip = run.skip \cup {List!Entity(r)}
  OBVIOUS
<1>7. run' = List!Passed(run.todo, skip)
  BY <1>3, <1>4, <1>6 DEF List!Skipping
<1>8. /\ skip \in SUBSET ListEntity /\ run.skip \subseteq skip
      /\ r.op = "BULK_CREATE" => List!Report \in skip
  BY <1>2, <1>3, <1>6, ListEntities DEF ListInvariant, ListRun
<1>9. run.item \notin run.todo /\ run.todo \in SUBSET Nat
  BY <1>1, <1>3 DEF ListInvariant, ListRunning, Sending, ListRun
<1>10. run'.step \notin Sending
  BY <1>7, <1>8, <1>9, ListPassed
<1>11. ASSUME NEW i, i = run.item
       PROVE  ListRunning' /\ ListAwaits'
  <2>1. Early(i)' => Early(i)
    BY <1>1 DEF Early
  <2> QED BY <1>1, <1>2, <1>3, <1>7, <1>8, <1>9, <1>11, <2>1, LeavesItem
<1>12. ListOwed'
  <2>1. \A s, i, k : OwesRow(k, s, i) => OwesRow(k, s, i)'
    BY <1>1, <1>10 DEF OwesRow, RowOver, Sending
  <2> QED BY <1>1, <2>1, OwedByRequests
<1> QED BY <1>1, <1>5, <1>11, <1>12, OnlyRunMoves

LEMMA MarkedRowOf ==
    ASSUME NEW row \in ListRow, NEW mark \in {"CONFLICT", "ERROR"}
    PROVE  List!Marked(row, mark) \in ListRow /\ List!Marked(row, mark).sync = mark
BY DEF List!Marked, ListRow

LEMMA InspectedRow ==
    ASSUME NEW row \in ListRow, NEW marked \in BOOLEAN
    PROVE  List!Inspected(row, marked) \in ListRow /\ List!Inspected(row, marked).sync = row.sync
BY DEF List!Inspected, ListRow

(* A deletion under a temporary id is sent only when no addition is left   *)
(* for it to wait for.                                                     *)
LEMMA SentDeletionIsLate ==
    ASSUME ListInvariant, run.step = "send", queue[run.item].op = "SN_DELETE",
           queue[run.item].id = "local"
    PROVE  <<"deletion", queue[run.item].serial>> \in excused
<1> SUFFICES ASSUME <<"deletion", queue[run.item].serial>> \notin excused
             PROVE  FALSE
  OBVIOUS
<1>1. /\ run.item \in DOMAIN queue /\ queue[run.item].status = "PENDING"
      /\ \A k \in run.todo : run.item < k
      /\ List!Depends(queue[run.item]) \cap run.skip = {}
      /\ \A k \in run.todo : k \in DOMAIN queue
  BY DEF ListInvariant, ListRunning, Sending
<1>2. PICK j \in DOMAIN queue : j < run.item /\ Awaits(run.item, j)
  BY <1>1 DEF ListInvariant, ListAwaits, Early
<1>3. List!Report \in run.skip \/ j \in run.todo \/ IsSent(j)
  BY <1>2 DEF Awaits, IsSent, Sending
<1>4. List!Report \notin run.skip
  BY <1>1, ListEntities DEF ListInvariant
<1>5. DOMAIN queue \subseteq Int
  BY DEF ListInvariant, ListQueue
<1>6. j \notin run.todo /\ ~IsSent(j)
  BY <1>1, <1>2, <1>5 DEF IsSent
<1> QED BY <1>3, <1>4, <1>6

LEMMA ListRefusedKeeps ==
    ASSUME ListInvariant, List!Refuse
    PROVE  ListInvariant'
<1>1. UNCHANGED <<server, early, act, dropped, excused>> /\ run.step = "send"
  BY DEF List!Refuse, List!serverVars, List!ghostVars
<1>2. PICK r, code : r = queue[run.item] /\ code = List!Answered(r)
  OBVIOUS
<1>3. /\ run \in ListRun /\ run.item \in DOMAIN queue /\ List!Item = r
      /\ r.op \in ListOp \cup {"SYNC_REWORK"} /\ r.id \in ListId
      /\ r.op # "SYNC_REWORK" => r.op \in ListOp /\ r.serial \in ListSerial
      /\ r.status = "PENDING"
  BY <1>1, <1>2, ListItem DEF Sending
<1>22. List!Code = code
  BY <1>2, <1>3 DEF List!Code
<1>4. PICK mark : mark = List!Mark
  OBVIOUS
<1>23. PICK status : status = CASE List!Code = 409 -> "CONFLICT" [] List!Code = 500 -> "PENDING"
                                [] OTHER -> "FAILED"
  OBVIOUS
<1>24. mark = (CASE code = 409 -> "CONFLICT" [] code = 400 -> "ERROR" [] OTHER -> "none")
  BY <1>4, <1>22 DEF List!Mark
<1>5. code # 200 /\ run' = List!Skipping
  BY <1>22 DEF List!Refuse
<1>6. List!Ends(run.item, status)
  BY <1>23, Zenon DEF List!Refuse
<1>21. cache' = IF List!IsMarked THEN List!With(r.serial, r.id, List!Marked(cache[r.serial][r.id], mark))
                ELSE cache
  BY <1>3, <1>4, Zenon DEF List!Refuse
<1>25. List!IsMarked => mark # "none" /\ r.op # "BULK_CREATE"
  BY <1>3, <1>4 DEF List!IsMarked
<1>7. /\ r.op # "SYNC_REWORK"
      /\ r.op = "BULK_CREATE" => code = 409
      /\ code \in {400, 409} /\ r.op # "BULK_CREATE" => r.id = "real"
      /\ r.op = "SN_DELETE" /\ r.id = "local" => code = 404
  <2>1. CASE r.op = "BULK_CREATE"
    BY <1>2, <1>5, <2>1 DEF List!Answered, List!Edits
  <2>2. CASE r.op = "SYNC_REWORK"
    BY <1>2, <1>5, <2>2 DEF List!Answered, List!Edits
  <2>3. CASE r.op \in ListEdit
    BY <1>2, <1>5, <2>3 DEF List!Answered, List!Edits, ListEdit, List!Known
  <2>4. CASE r.op = "SN_DELETE"
    BY <1>2, <1>5, <2>4 DEF List!Answered, List!Edits, List!Known
  <2> QED BY <1>3, <2>1, <2>2, <2>3, <2>4 DEF ListOp
<1>26. status = (CASE code = 409 -> "CONFLICT" [] code = 500 -> "PENDING" [] OTHER -> "FAILED")
  BY <1>22, <1>23
<1>8. /\ status \in {"PENDING", "CONFLICT", "FAILED"}
      /\ r.op = "BULK_CREATE" => status = "CONFLICT"
      /\ r.op = "SN_DELETE" /\ r.id = "local" => status = "FAILED"
      /\ mark \in {"none", "CONFLICT", "ERROR"}
      /\ mark # "none" /\ r.op # "BULK_CREATE" => r.id = "real"
  BY <1>7, <1>24, <1>26
<1>9. ListOnward
  BY <1>1, ListServerRests DEF ListInvariant
<1>10. /\ ListQueue' /\ DOMAIN queue' = DOMAIN queue
       /\ queue'[run.item].op = r.op /\ queue'[run.item].serial = r.serial
       /\ queue'[run.item].id = r.id /\ queue'[run.item].status = status
       /\ \A j \in DOMAIN queue : j # run.item => queue'[j] = queue[j]
  BY <1>2, <1>3, <1>6, <1>8, ListEnds DEF ListInvariant
<1>11. /\ ListCache'
       /\ \A s \in ListSerial, i \in ListId : cache'[s][i].sync = "PENDING" => cache[s][i].sync = "PENDING"
  <2>1. CASE ~List!IsMarked
    <3>1. cache' = cache
      BY <1>21, <2>1
    <3> QED BY <3>1 DEF ListInvariant, ListCache
  <2>2. CASE List!IsMarked
    <3>1. mark \in {"CONFLICT", "ERROR"} /\ r.op # "BULK_CREATE" /\ r.id = "real"
      BY <1>8, <1>25, <2>2
    <3>2. r.serial \in ListSerial /\ cache[r.serial][r.id] \in ListRow
      BY <1>3, <1>7 DEF ListInvariant, ListCache
    <3>3. PICK row : row = List!Marked(cache[r.serial][r.id], mark)
      OBVIOUS
    <3>4. row \in ListRow /\ row.sync = mark
      BY <3>1, <3>2, <3>3, MarkedRowOf
    <3>5. cache' = List!With(r.serial, r.id, row)
      BY <1>21, <2>2, <3>3
    <3>6. /\ ListCache' /\ cache'[r.serial][r.id] = row
          /\ \A t \in ListSerial, j \in ListId : t # r.serial \/ j # r.id => cache'[t][j] = cache[t][j]
      BY <1>3, <3>1, <3>2, <3>4, <3>5, ListRowPut DEF ListInvariant
    <3> QED BY <3>1, <3>4, <3>6
  <2> QED BY <2>1, <2>2
<1>12. PICK skip : skip = run.skip \cup {List!Entity(r)}
  OBVIOUS
<1>13. run' = List!Passed(run.todo, skip)
  BY <1>3, <1>5, <1>12 DEF List!Skipping
<1>14. /\ skip \in SUBSET ListEntity /\ run.skip \subseteq skip
       /\ r.op = "BULK_CREATE" => List!Report \in skip
  BY <1>2, <1>3, <1>12, ListEntities DEF ListInvariant, ListRun
<1>15. run.item \notin run.todo /\ run.todo \in SUBSET Nat
  BY <1>1, <1>3 DEF ListInvariant, ListRunning, Sending, ListRun
<1>16. run'.step \notin Sending
  BY <1>13, <1>14, <1>15, ListPassed
<1>17. ASSUME NEW i, i = run.item
       PROVE  ListRunning' /\ ListAwaits'
  <2>1. /\ i \in DOMAIN queue /\ i \notin run.todo /\ queue[i] = r
        /\ queue'[i].op = r.op /\ queue'[i].serial = r.serial
        /\ queue'[i].id = r.id /\ queue'[i].status = status
        /\ \A k \in DOMAIN queue : k # i => queue'[k] = queue[k]
    BY <1>2, <1>3, <1>10, <1>15, <1>17
  <2>2. ~Early(i)'
    BY <1>8, <2>1 DEF Early
  <2> QED BY <1>1, <1>8, <1>10, <1>13, <1>14, <1>17, <2>1, <2>2, LeavesItem
<1>18. ListOwed'
  <2>1. \A s, i : \A k \in DOMAIN queue : OwesRow(k, s, i) => OwesRow(k, s, i)'
    BY <1>2, <1>8, <1>10, <1>16 DEF OwesRow, RowOver, Sending
  <2> QED BY <1>1, <1>10, <1>11, <2>1, OwedByRequests
<1>19. r.op = "SN_DELETE" /\ r.id = "local" => <<"deletion", r.serial>> \in excused
  BY <1>1, <1>2, SentDeletionIsLate
<1>20. \A k \in DOMAIN queue :
          /\ queue'[k].op = queue[k].op /\ queue'[k].serial = queue[k].serial
          /\ queue[k].id = "real" => queue'[k].id = "real"
          /\ queue[k].op = "SN_DELETE" =>
                \/ queue'[k].status = queue[k].status
                \/ <<"deletion", queue[k].serial>> \in excused
                \/ queue'[k].status \in {"PENDING", "CONFLICT"}
                \/ queue'[k].status = "FAILED" /\ queue[k].id = "real"
  <2> SUFFICES ASSUME NEW k \in DOMAIN queue, k = run.item
               PROVE  /\ queue'[k].op = queue[k].op /\ queue'[k].serial = queue[k].serial
                      /\ queue[k].id = "real" => queue'[k].id = "real"
                      /\ queue[k].op = "SN_DELETE" =>
                            \/ queue'[k].status = queue[k].status
                            \/ <<"deletion", queue[k].serial>> \in excused
                            \/ queue'[k].status \in {"PENDING", "CONFLICT"}
                            \/ queue'[k].status = "FAILED" /\ queue[k].id = "real"
    BY <1>10
  <2>1. r.id = "local" \/ r.id = "real"
    BY <1>3 DEF ListId
  <2> QED BY <1>2, <1>8, <1>10, <1>19, <2>1
<1> QED BY <1>1, <1>9, <1>10, <1>11, <1>17, <1>18, <1>20, DeliveryMoves

LEMMA ListLookedKeeps ==
    ASSUME ListInvariant, List!LookForTemporary
    PROVE  ListInvariant'
<1>1. UNCHANGED <<server, early, cache, queue, act, dropped, excused>> /\ run.step = "look"
  BY DEF List!LookForTemporary, List!serverVars, List!deviceVars, List!ghostVars
<1>2. PICK r : r = queue[run.item]
  OBVIOUS
<1>3. /\ run \in ListRun /\ run.item \in DOMAIN queue /\ List!Item = r /\ r.op = "BULK_CREATE"
      /\ r.serial \in ListSerial /\ run.row \in ListRow /\ run.row.sync = "SYNCED"
  <2>1. r.op = "BULK_CREATE" /\ run.step \in Sending
    BY <1>1, <1>2 DEF ListInvariant, ListRunning, Sending
  <2>2. run \in ListRun /\ run.item \in DOMAIN queue /\ List!Item = r /\ r.serial \in ListSerial
    BY <1>2, <2>1, ListItem
  <2>3. run.row \in ListRow
    BY <2>2 DEF ListRun
  <2>4. run.row.sync = "SYNCED"
    BY <1>1, <1>2, <2>1 DEF ListInvariant, ListRunning
  <2> QED BY <2>1, <2>2, <2>3, <2>4
<1>4. cache[r.serial]["local"] \in ListRow
  BY <1>3 DEF ListInvariant, ListCache, ListId
<1>5. /\ run' \in ListRun /\ run'.item = run.item /\ run'.todo = run.todo /\ run'.skip = run.skip
      /\ run'.row.sync = "SYNCED"
      /\ run'.step = IF List!Has(r.serial, "local") THEN "cache" ELSE "remap"
  <2>1. CASE List!Has(r.serial, "local")
    <3>1. PICK row : row = List!Inspected(run.row, cache[r.serial]["local"].marked)
      OBVIOUS
    <3>2. run' = [run EXCEPT !.step = "cache", !.row = row]
      BY <1>3, <2>1, <3>1, Zenon DEF List!LookForTemporary
    <3>3. cache[r.serial]["local"].marked \in BOOLEAN
      BY <1>4 DEF ListRow
    <3>4. row \in ListRow /\ row.sync = "SYNCED"
      BY <1>3, <3>1, <3>3, InspectedRow
    <3> QED BY <1>3, <2>1, <3>2, <3>4 DEF ListRun, Sending
  <2>2. CASE ~List!Has(r.serial, "local")
    <3>1. run' = [run EXCEPT !.step = "remap"]
      BY <1>3, <2>2 DEF List!LookForTemporary
    <3> QED BY <1>3, <2>2, <3>1 DEF ListRun, Sending
  <2> QED BY <2>1, <2>2
<1>6. ListOnward
  BY <1>1, ListServerRests DEF ListInvariant
<1>7. ListRunning'
  BY <1>1, <1>2, <1>3, <1>5 DEF ListInvariant, ListRunning, Sending
<1>8. ListAwaits'
  BY <1>1, <1>5, StaysWithItem DEF Sending
<1>9. ListOwed'
  <2>1. ASSUME NEW s \in ListSerial, NEW i \in ListId, cache[s][i].sync = "PENDING",
               NEW k \in DOMAIN queue, OwesRow(k, s, i)
        PROVE  OwesRow(k, s, i)'
    <3>1. CASE k = run.item /\ run'.step = "remap" /\ i = "local"
      <4>1. s = r.serial /\ ~List!Has(r.serial, "local")
        BY <1>2, <1>5, <2>1, <3>1 DEF OwesRow
      <4> QED BY <2>1, <3>1, <4>1 DEF List!Has
    <3>2. CASE ~(k = run.item /\ run'.step = "remap" /\ i = "local")
      BY <1>1, <1>5, <2>1, <3>2 DEF OwesRow, RowOver
    <3> QED BY <3>1, <3>2
  <2> QED BY <1>1, <2>1, OwedByRequests
<1> QED BY <1>1, <1>6, <1>7, <1>8, <1>9, OnlyRunMoves

LEMMA ListAnswerKeeps ==
    ASSUME ListInvariant, List!CacheAnswer
    PROVE  ListInvariant'
<1>1. UNCHANGED <<server, early, queue, act, dropped, excused>> /\ run.step = "cache"
  BY DEF List!CacheAnswer, List!serverVars, List!ghostVars
<1>2. PICK r : r = queue[run.item]
  OBVIOUS
<1>3. /\ run \in ListRun /\ run.item \in DOMAIN queue /\ List!Item = r
      /\ r.op \in ListOp \cup {"SYNC_REWORK"}
      /\ r.op # "SYNC_REWORK" => r.op \in ListOp /\ r.serial \in ListSerial
  BY <1>1, <1>2, ListItem DEF Sending
<1>4. /\ run.row \in ListRow /\ (r.op # "SYNC_REWORK" => run.row.sync = "SYNCED")
      /\ r.op # "SN_DELETE"
  <2>1. run.row \in ListRow
    BY <1>3 DEF ListRun
  <2> QED BY <1>1, <1>2, <2>1 DEF ListInvariant, ListRunning, Sending
<1>5. PICK step : step = IF r.op = "BULK_CREATE" THEN "remap" ELSE "end"
  OBVIOUS
<1>6. run' = [run EXCEPT !.step = step]
  BY <1>3, <1>5, Zenon DEF List!CacheAnswer
<1>7. /\ run' \in ListRun /\ run'.step = step /\ run'.item = run.item /\ run'.todo = run.todo
      /\ run'.skip = run.skip /\ step \in Sending
  <2>1. step \in Sending
    BY <1>5 DEF Sending
  <2> QED BY <1>3, <1>6, <2>1 DEF ListRun
<1>8. ListOnward
  BY <1>1, ListServerRests DEF ListInvariant
<1>9. ListRunning'
  <2>1. /\ step \in {"look", "remap"} => r.op = "BULK_CREATE"
        /\ step # "cache" /\ step # "look"
    BY <1>5
  <2> QED BY <1>1, <1>2, <1>3, <1>4, <1>7, <2>1 DEF ListInvariant, ListRunning, Sending
<1>10. ListAwaits'
  BY <1>1, <1>2, <1>5, <1>7, StaysWithItem DEF Sending
<1>11. /\ ListCache'
       /\ \A s \in ListSerial, i \in ListId : cache'[s][i].sync = "PENDING" => cache[s][i].sync = "PENDING"
       /\ r.op = "BULK_CREATE" => cache'[r.serial]["local"].sync = "none"
       /\ r.op \in ListEdit => cache'[r.serial]["real"].sync = "SYNCED"
  <2>1. CASE r.op = "BULK_CREATE"
    <3>1. PICK none : none = List!NoRow
      OBVIOUS
    <3>2. PICK c : c = [i \in ListId |-> IF i = "real" THEN run.row ELSE none]
      OBVIOUS
    <3>3. cache' = [cache EXCEPT ![r.serial] = c]
      <4>1. List!InPlaceOfTemporary = c
        BY <3>1, <3>2 DEF List!InPlaceOfTemporary, List!Id, ListId
      <4>2. PICK m : m = [cache EXCEPT ![List!Item.serial] = List!InPlaceOfTemporary]
        OBVIOUS
      <4>3. PICK w : w = List!With(List!Item.serial, "real", run.row)
        OBVIOUS
      <4>4. cache' = CASE List!Item.op = "BULK_CREATE" -> m [] List!Item.op \in List!Edits -> w
                       [] OTHER -> cache
        BY <4>2, <4>3, Zenon DEF List!CacheAnswer
      <4>5. cache' = m
        BY <1>3, <2>1, <4>4 DEF List!Edits
      <4> QED BY <1>3, <4>1, <4>2, <4>5, Zenon
    <3>4. c \in [ListId -> ListRow] /\ c["real"] = run.row /\ c["local"] = none
      BY <1>4, <3>1, <3>2, NoListRow DEF ListId
    <3>5. none.sync = "none" /\ r.serial \in ListSerial /\ run.row.sync = "SYNCED" /\ r.op \notin ListEdit
      BY <1>3, <1>4, <2>1, <3>1, NoListRow DEF ListEdit
    <3>6. cache \in [ListSerial -> [ListId -> ListRow]]
          /\ \A s \in ListSerial : cache[s]["local"].sync \in {"none", "PENDING"}
      BY DEF ListInvariant, ListCache
    <3>7. /\ cache' \in [ListSerial -> [ListId -> ListRow]] /\ cache'[r.serial] = c
          /\ \A s \in ListSerial : s # r.serial => cache'[s] = cache[s]
      BY <3>3, <3>4, <3>5, <3>6
    <3> QED BY <3>4, <3>5, <3>6, <3>7 DEF ListCache, ListId
  <2>2. CASE r.op \in ListEdit
    <3>1. cache' = List!With(r.serial, "real", run.row) /\ r.op # "BULK_CREATE"
      BY <1>3, <2>2 DEF List!CacheAnswer, List!Edits, ListEdit
    <3>2. r.serial \in ListSerial /\ run.row.sync = "SYNCED"
      BY <1>3, <1>4, <2>2 DEF ListEdit
    <3>3. /\ ListCache' /\ cache'[r.serial]["real"] = run.row
          /\ \A t \in ListSerial, j \in ListId : t # r.serial \/ j # "real" => cache'[t][j] = cache[t][j]
      BY <1>4, <3>1, <3>2, ListRowPut DEF ListInvariant, ListId
    <3> QED BY <3>1, <3>2, <3>3
  <2>3. CASE r.op = "SYNC_REWORK"
    <3>1. cache' = cache
      BY <1>3, <2>3 DEF List!CacheAnswer, List!Edits
    <3> QED BY <2>3, <3>1 DEF ListInvariant, ListCache, ListEdit
  <2> QED BY <1>3, <1>4, <2>1, <2>2, <2>3 DEF ListOp
<1>12. ListOwed'
  <2>1. ASSUME NEW s \in ListSerial, NEW i \in ListId, cache'[s][i].sync = "PENDING",
               NEW k \in DOMAIN queue, OwesRow(k, s, i)
        PROVE  OwesRow(k, s, i)'
    <3>1. CASE k = run.item
      <4>1. queue[k] = r /\ s = r.serial /\ r.op \in RowOp(i)
        BY <1>2, <2>1, <3>1 DEF OwesRow
      <4>2. FALSE
        BY <1>11, <2>1, <4>1 DEF RowOp, ListId
      <4> QED BY <4>2
    <3>2. CASE k # run.item
      BY <1>1, <1>7, <2>1, <3>2 DEF OwesRow, RowOver
    <3> QED BY <3>1, <3>2
  <2> QED BY <1>1, <1>11, <2>1, OwedByRequests
<1>13. ListQueue' /\ DOMAIN queue \subseteq DOMAIN queue'
  BY <1>1 DEF ListInvariant, ListQueue
<1> QED BY <1>1, <1>8, <1>9, <1>10, <1>11, <1>12, <1>13, DeliveryMoves

LEMMA ListRedirected ==
    ASSUME NEW r \in ListRequest
    PROVE  /\ List!Redirected(r) \in ListRequest /\ List!Redirected(r).id = "real"
           /\ List!Redirected(r).op = r.op /\ List!Redirected(r).serial = r.serial
           /\ List!Redirected(r).status = r.status
BY DEF List!Redirected, ListRequest, ListId

LEMMA ListRemappedKeeps ==
    ASSUME ListInvariant, List!Remap
    PROVE  ListInvariant'
<1>1. /\ UNCHANGED <<server, early, cache, act, dropped, excused>> /\ run.step = "remap"
      /\ run' = [run EXCEPT !.step = "end"]
      /\ queue' = [k \in DOMAIN queue |-> IF List!Remapped(k) THEN List!Redirected(queue[k]) ELSE queue[k]]
  BY DEF List!Remap, List!serverVars, List!ghostVars
<1>2. PICK r : r = queue[run.item]
  OBVIOUS
<1>3. /\ run \in ListRun /\ run.item \in DOMAIN queue /\ List!Item = r /\ r.op = "BULK_CREATE"
  BY <1>1, <1>2, ListItem DEF Sending, ListInvariant, ListRunning
<1>4. queue \in Seq(ListRequest)
  BY DEF ListInvariant, ListQueue
<1>5. ASSUME NEW k \in DOMAIN queue
      PROVE  /\ queue'[k] \in ListRequest
             /\ queue'[k].op = queue[k].op /\ queue'[k].serial = queue[k].serial
             /\ queue'[k].status = queue[k].status
             /\ queue'[k].id = queue[k].id \/ queue'[k].id = "real"
             /\ List!Remapped(k) => queue'[k].id = "real"
             /\ ~List!Remapped(k) => queue'[k] = queue[k]
  <2>1. queue[k] \in ListRequest
    BY <1>4
  <2> QED BY <1>1, <2>1, ListRedirected
<1>6. DOMAIN queue' = DOMAIN queue /\ queue' \in Seq(ListRequest)
  BY <1>1, <1>4, <1>5
<1>7. ListQueue'
  BY <1>5, <1>6 DEF ListInvariant, ListQueue
<1>8. \A k \in DOMAIN queue : queue[k].op \in {"BULK_CREATE", "SYNC_REWORK"} => queue'[k] = queue[k]
  BY <1>5 DEF List!Remapped, List!Edits
<1>9. /\ run' \in ListRun /\ run'.step = "end" /\ run'.item = run.item /\ run'.todo = run.todo
      /\ run'.skip = run.skip
  BY <1>1, <1>3 DEF ListRun, Sending
<1>10. ListRunning'
  <2>1. queue'[run.item] = r
    BY <1>2, <1>3, <1>8
  <2> QED BY <1>1, <1>2, <1>3, <1>5, <1>6, <1>9, <2>1 DEF ListInvariant, ListRunning, Sending
<1>11. ListAwaits'
  <2>1. ASSUME NEW k \in DOMAIN queue', Early(k)'
        PROVE  \E j \in DOMAIN queue' : j < k /\ Awaits(k, j)'
    <3>1. k \in DOMAIN queue /\ ~List!Remapped(k) /\ Early(k)
      BY <1>1, <1>5, <1>6, <2>1 DEF Early
    <3>2. queue[k].serial # r.serial
      BY <1>3, <3>1 DEF List!Remapped, List!Waiting, Early
    <3>3. PICK j \in DOMAIN queue : j < k /\ Awaits(k, j)
      BY <3>1 DEF ListInvariant, ListAwaits
    <3>4. j # run.item /\ queue'[j] = queue[j] /\ queue'[k] = queue[k]
      BY <1>2, <1>5, <1>8, <3>1, <3>2, <3>3 DEF Awaits
    <3>5. Awaits(k, j)'
      BY <1>1, <1>9, <3>3, <3>4 DEF Awaits, IsSent, Sending
    <3> QED BY <1>6, <3>3, <3>5
  <2> QED BY <2>1 DEF ListAwaits
<1>12. ListOwed'
  <2>1. ASSUME NEW s \in ListSerial, NEW i \in ListId, NEW k \in DOMAIN queue, OwesRow(k, s, i)
        PROVE  OwesRow(k, s, i)'
    <3>1. CASE k = run.item
      <4>1. i = "local"
        BY <1>2, <1>3, <2>1, <3>1 DEF OwesRow, RowOp, ListEdit, ListId
      <4> QED BY <1>1, <2>1, <3>1, <4>1 DEF OwesRow, RowOver
    <3>2. CASE k # run.item
      BY <1>5, <1>9, <2>1, <3>2 DEF OwesRow, RowOver
    <3> QED BY <3>1, <3>2
  <2> QED BY <1>1, <1>6, <2>1, OwedByRequests
<1>13. ListOnward
  BY <1>1, ListServerRests DEF ListInvariant
<1>14. ListCache'
  BY <1>1 DEF ListInvariant, ListCache
<1> QED BY <1>1, <1>5, <1>6, <1>7, <1>10, <1>11, <1>12, <1>13, <1>14, DeliveryMoves

LEMMA ListEndedKeeps ==
    ASSUME ListInvariant, List!EndItem
    PROVE  ListInvariant'
<1>1. /\ UNCHANGED <<server, early, cache, act, dropped, excused>> /\ run.step = "end"
      /\ List!Ends(run.item, "SYNCED") /\ run' = List!Passed(run.todo, run.skip)
  BY DEF List!EndItem, List!serverVars, List!ghostVars
<1>2. PICK i : i = run.item
  OBVIOUS
<1>13. run.step \in Sending
  BY <1>1 DEF Sending
<1>3. /\ run \in ListRun /\ i \in DOMAIN queue /\ queue[i].status = "PENDING" /\ ListQueue
      /\ i \notin run.todo
      /\ queue[i].op = "SN_DELETE" => server[queue[i].serial].is = "gone"
  <2>1. run \in ListRun /\ i \in DOMAIN queue /\ queue[i].status = "PENDING" /\ ListQueue
    BY <1>2, <1>13, ListItem DEF ListInvariant
  <2>2. \A k \in run.todo : run.item < k /\ k \in Nat
    BY <1>13, <2>1 DEF ListInvariant, ListRunning, ListRun
  <2>3. queue[i].op = "SN_DELETE" => server[queue[i].serial].is = "gone"
    BY <1>1, <1>2, <1>13 DEF ListInvariant, ListRunning
  <2> QED BY <1>2, <2>1, <2>2, <2>3
<1>4. run.todo \in SUBSET Nat /\ run.skip \in SUBSET ListEntity
  BY <1>3 DEF ListRun
<1>5. List!Ends(i, "SYNCED")
  BY <1>1, <1>2
<1>6. /\ ListQueue' /\ DOMAIN queue' = DOMAIN queue
      /\ queue'[i].op = queue[i].op /\ queue'[i].serial = queue[i].serial
      /\ queue'[i].id = queue[i].id /\ queue'[i].status = "SYNCED"
      /\ \A j \in DOMAIN queue : j # i => queue'[j] = queue[j]
  BY <1>3, <1>5, ListEnds
<1>7. ~Early(i)' /\ run'.step \notin Sending
  BY <1>1, <1>4, <1>6, ListPassed DEF Early
<1>8. ListRunning' /\ ListAwaits'
  BY <1>1, <1>2, <1>3, <1>4, <1>6, <1>7, LeavesItem
<1>9. ListOwed'
  <2>1. ASSUME NEW s \in ListSerial, NEW j \in ListId, NEW k \in DOMAIN queue, OwesRow(k, s, j)
        PROVE  OwesRow(k, s, j)'
    <3>1. k # i
      BY <1>1, <1>2, <2>1 DEF OwesRow, RowOver
    <3> QED BY <1>6, <1>7, <2>1, <3>1 DEF OwesRow, RowOver, Sending
  <2> QED BY <1>1, <1>6, <2>1, OwedByRequests
<1>10. ListOnward
  BY <1>1, ListServerRests DEF ListInvariant
<1>11. ListCache'
  BY <1>1 DEF ListInvariant, ListCache
<1>12. \A k \in DOMAIN queue :
          /\ queue'[k].op = queue[k].op /\ queue'[k].serial = queue[k].serial
          /\ queue[k].id = "real" => queue'[k].id = "real"
          /\ queue[k].op = "SN_DELETE" =>
                queue'[k].status = queue[k].status \/ server[queue[k].serial].is = "gone"
  BY <1>3, <1>6
<1> QED BY <1>1, <1>6, <1>8, <1>9, <1>10, <1>11, <1>12, DeliveryMoves

(* ------------------------ others and the device ------------------------ *)

LEMMA ListOthersKeep ==
    ASSUME ListInvariant, List!OthersAct
    PROVE  ListInvariant'
<1>1. UNCHANGED <<cache, queue, act, run, dropped, excused>>
  BY DEF List!OthersAct, List!deviceVars, List!ghostVars
<1>2. ListOnward
  <2>1. CASE early' = FALSE /\ UNCHANGED server
    BY <2>1 DEF ListInvariant, ListServer, ListOnward
  <2>2. ASSUME NEW s \in ListSerial, server[s].is = "live", UNCHANGED early,
               server' = [server EXCEPT ![s] = List!Edited(server[s], server[s].marked)]
        PROVE  ListOnward
    <3>1. PICK x, y : x = server[s] /\ y = List!Edited(x, x.marked)
      OBVIOUS
    <3>2. server' = [server EXCEPT ![s] = y]
      BY <2>2, <3>1
    <3>3. x \in ListThing
      BY <3>1 DEF ListInvariant, ListServer
    <3>4. x.marked \in BOOLEAN
      BY <3>3 DEF ListThing
    <3>5. y \in ListThing
      BY <3>1, <3>3, <3>4, ThingServed
    <3>6. /\ server' \in [ListSerial -> ListThing] /\ server'[s] = y
          /\ \A t \in ListSerial : t # s => server'[t] = server[t]
      BY <3>2, <3>5 DEF ListInvariant, ListServer
    <3> QED BY <2>2, <3>5, <3>6, ListThingReplaced DEF ListInvariant
  <2> QED BY <2>1, <2>2 DEF List!OthersAct
<1>3. ListAct'
  BY <1>1, <1>2, ListActStays DEF ListInvariant
<1> QED BY <1>1, <1>2, <1>3, ListActMoves

LEMMA ListRests ==
    ASSUME ListInvariant, UNCHANGED <<server, early, cache, queue, act, run, dropped, excused>>
    PROVE  ListInvariant'
<1>1. ListOnward
  BY ListServerRests DEF ListInvariant
<1>2. ListAct'
  BY <1>1, ListActStays DEF ListInvariant
<1> QED BY <1>1, <1>2, ListActMoves

LEMMA AllIdle ==
    ASSUME act' = [a \in List!Actor |-> List!Idle]
    PROVE  ListAct' /\ act'["user"].todo = <<>>
<1>1. PICK x : x = List!Idle
  OBVIOUS
<1>2. act' = [a \in List!Actor |-> x]
  BY <1>1
<1>3. /\ x \in ListOperation /\ x.todo = <<>> /\ x.op = "none" /\ ListSteps(x.todo)
      /\ \A s \in ListSerial : x.list[s].sync \in {"none", "SYNCED"}
  BY <1>1, IdleOperation DEF ListSteps
<1>4. act'["user"] = x /\ \A a \in List!Actor : act'[a] = x
  BY <1>2, ListActors
<1>5. ListPlan(act["user"])'
  BY <1>3, <1>4 DEF ListPlan
<1> QED BY <1>2, <1>3, <1>4, <1>5 DEF ListAct

LEMMA ListReloadKeeps ==
    ASSUME ListInvariant, List!Reload
    PROVE  ListInvariant'
<1>1. /\ UNCHANGED <<server, early, cache, queue, dropped>>
      /\ act' = [a \in List!Actor |-> List!Idle] /\ run' = List!NoRun
  BY DEF List!Reload, List!serverVars, List!deviceVars
<1>2. /\ excused \subseteq excused'
      /\ List!Now("user", "enqueue") =>
            {<<"deletion", act["user"].serial>>, <<"row", act["user"].serial>>} \subseteq excused'
  BY DEF List!Reload
<1>3. ListOnward
  BY <1>1, ListServerRests DEF ListInvariant
<1>4. \A op, s : Enqueues(op, s) => <<"deletion", s>> \in excused' /\ <<"row", s>> \in excused'
  <2>1. SUFFICES ASSUME NEW op, NEW s, Enqueues(op, s)
                 PROVE  <<"deletion", s>> \in excused' /\ <<"row", s>> \in excused'
    OBVIOUS
  <2>2. act["user"].todo # <<>> /\ act["user"].todo[1] = "enqueue" /\ act["user"].serial = s
    BY <2>1 DEF Enqueues
  <2>3. Head(act["user"].todo) = "enqueue"
    BY <2>2, RestIs, ListActors DEF ListInvariant
  <2> QED BY <1>2, <2>2, <2>3 DEF List!Now
<1>5. ListAct' /\ act'["user"].todo = <<>>
  BY <1>1, AllIdle
<1>6. run' \in ListRun /\ run'.step = "idle" /\ run'.todo = {}
  <2>1. PICK row : row = List!NoRow
    OBVIOUS
  <2>2. run' = [todo |-> {}, item |-> 0, skip |-> {}, step |-> "idle", row |-> row]
    BY <1>1, <2>1, Zenon DEF List!NoRun
  <2> QED BY <2>1, <2>2, NoListRow DEF ListRun
<1>7. ListCache' /\ ListQueue'
  BY <1>1 DEF ListInvariant, ListCache, ListQueue
<1>8. ListRunning'
  BY <1>6 DEF ListRunning, Sending
<1>9. ListAwaits'
  <2>1. ASSUME NEW k \in DOMAIN queue', Early(k)'
        PROVE  \E j \in DOMAIN queue' : j < k /\ Awaits(k, j)'
    <3>1. Early(k)
      BY <1>1, <1>2, <2>1 DEF Early
    <3>2. PICK j \in DOMAIN queue : j < k /\ Awaits(k, j)
      BY <1>1, <2>1, <3>1 DEF ListInvariant, ListAwaits
    <3> QED BY <1>1, <1>6, <3>2 DEF Awaits, IsSent, Sending
  <2> QED BY <2>1 DEF ListAwaits
<1>10. ListDecided'
  BY <1>1, <1>2, <1>3, <1>4, ListDecidedStays DEF ListInvariant
<1>11. ListOwed'
  <2>1. \A s, i, k : OwesRow(k, s, i) => OwesRow(k, s, i)'
    BY <1>1, <1>6 DEF OwesRow, RowOver
  <2>2. ASSUME NEW s \in ListSerial, NEW i \in ListId, cache'[s][i].sync = "PENDING"
        PROVE  \/ <<"row", s>> \in excused'
               \/ \E k \in DOMAIN queue' : OwesRow(k, s, i)'
    BY <1>1, <1>2, <1>4, <2>1, <2>2 DEF ListInvariant, ListOwed
  <2> QED BY <2>2 DEF ListOwed
<1> QED BY <1>3, <1>5, <1>7, <1>8, <1>9, <1>10, <1>11 DEF ListInvariant, ListOnward

LEMMA ListStepKeeps ==
    ASSUME ListInvariant, List!SerialListNext
    PROVE  ListInvariant'
<1>1. CASE List!ScreenStep
  BY <1>1, ListBegunKeeps, ListPostKeeps, PostLostKeeps, ListStoreKeeps, WriteKeeps, DropKeeps,
     ListEnqueueKeeps, LookingKeeps, SyncQueuedKeeps, GenerateKeeps DEF List!ScreenStep
<1>2. CASE List!PullStep
  BY <1>2, PullBegunKeeps, ListGotKeeps, RowsSeenKeeps, RowsPutKeeps DEF List!PullStep
<1>3. CASE List!DeliveryStep
  BY <1>3, RunBeginsKeeps, ListJudgedKeeps, DeliveredKeeps, ListRefusedKeeps, ListDeliveryLostKeeps,
     ListLookedKeeps, ListAnswerKeeps, ListRemappedKeeps, ListEndedKeeps DEF List!DeliveryStep
<1>4. CASE List!OthersAct \/ List!Reload
  BY <1>4, ListOthersKeep, ListReloadKeeps
<1>5. CASE List!Disconnect \/ List!Reconnect
  BY <1>5, ListRests DEF List!Disconnect, List!Reconnect, List!serverVars, List!deviceVars, List!ghostVars
<1> QED BY <1>1, <1>2, <1>3, <1>4, <1>5 DEF List!SerialListNext

LEMMA ListStarts ==
    ASSUME List!SerialListInit
    PROVE  ListInvariant
<1>1. /\ server \in [ListSerial -> {[is |-> i, version |-> 1, marked |-> FALSE] : i \in {"unborn", "live"}}]
      /\ early = TRUE /\ queue = <<>> /\ dropped = {}
      /\ cache = [s \in ListSerial |-> [i \in List!Id |->
                     IF i = "real" /\ server[s].is = "live" THEN List!RowOf(server[s]) ELSE List!NoRow]]
      /\ act = [a \in List!Actor |-> List!Idle] /\ run = List!NoRun
  BY DEF List!SerialListInit
<1>2. ListServer
  <2>1. {[is |-> i, version |-> 1, marked |-> FALSE] : i \in {"unborn", "live"}} \subseteq ListThing
    <3>1. \A i \in {"unborn", "live"} : [is |-> i, version |-> 1, marked |-> FALSE] \in ListThing
      BY DEF ListThing
    <3> QED BY <3>1
  <2>2. server \in [ListSerial -> ListThing]
    BY <1>1, <2>1
  <2> QED BY <1>1, <2>2 DEF ListServer
<1>3. ASSUME NEW s \in ListSerial, NEW i \in ListId
      PROVE  /\ cache[s][i] \in ListRow /\ cache[s][i].sync \in {"none", "SYNCED"}
             /\ i = "local" => cache[s][i].sync = "none"
  <2>1. cache[s][i] = IF i = "real" /\ server[s].is = "live" THEN List!RowOf(server[s]) ELSE List!NoRow
    BY <1>1 DEF List!Id, ListId
  <2>2. server[s] \in ListThing
    BY <1>2 DEF ListServer
  <2> QED BY <2>1, <2>2, ListRowOf, NoListRow
<1>4. ListCache
  <2>1. ASSUME NEW s \in ListSerial
        PROVE  cache[s] \in [ListId -> ListRow]
    <3>1. PICK c : c = cache[s]
      OBVIOUS
    <3>2. c = [i \in ListId |-> IF i = "real" /\ server[s].is = "live" THEN List!RowOf(server[s])
                                ELSE List!NoRow]
      BY <1>1, <3>1 DEF List!Id, ListId
    <3>3. \A i \in ListId : c[i] \in ListRow
      BY <1>3, <3>1
    <3> QED BY <3>1, <3>2, <3>3
  <2> QED BY <1>1, <1>3, <2>1 DEF ListCache, ListId
<1>5. ListQueue
  BY <1>1 DEF ListQueue
<1>6. ListAct
  <2>1. PICK x : x = List!Idle
    OBVIOUS
  <2>2. act = [a \in List!Actor |-> x]
    BY <1>1, <2>1
  <2>3. /\ x \in ListOperation /\ x.todo = <<>> /\ x.op = "none" /\ ListSteps(x.todo)
        /\ \A s \in ListSerial : x.list[s].sync \in {"none", "SYNCED"}
    BY <2>1, IdleOperation DEF ListSteps
  <2>4. act["user"] = x /\ \A a \in List!Actor : act[a] = x
    BY <2>2, ListActors
  <2> QED BY <2>2, <2>3, <2>4 DEF ListAct, ListPlan
<1>7. ListRunning
  <2>1. PICK row : row = List!NoRow
    OBVIOUS
  <2>2. run = [todo |-> {}, item |-> 0, skip |-> {}, step |-> "idle", row |-> row]
    BY <1>1, <2>1, Zenon DEF List!NoRun
  <2>3. run \in ListRun
    BY <2>1, <2>2, NoListRow DEF ListRun
  <2> QED BY <2>2, <2>3 DEF ListRunning, Sending
<1>8. ListAwaits /\ ListDecided
  BY <1>1 DEF ListAwaits, ListDecided
<1>9. ListOwed
  <2>1. \A s \in ListSerial, i \in ListId : cache[s][i].sync # "PENDING"
    BY <1>3
  <2> QED BY <2>1 DEF ListOwed
<1> QED BY <1>2, <1>4, <1>5, <1>6, <1>7, <1>8, <1>9 DEF ListInvariant

LEMMA ListDeletionsAreDecided == ListInvariant => List!DeletedSerialIsDecided
BY DEF ListInvariant, ListDecided, SerialDecided, Deletes, Enqueues, List!DeletedSerialIsDecided

LEMMA ListRowsAreOwed == ListInvariant => List!SerialRowOwed
BY DEF ListInvariant, ListOwed, OwesRow, Enqueues, List!SerialRowOwed, List!Id, ListId

----------------------------------------------------------------------------
(* The screen of a report: types.                                          *)

KnownStatus == Screen!ReportStatus \cup {"NONE"}
ReportRow == [status : KnownStatus \cup {"GONE"}, version : Nat,
              sync : {"SYNCED", "PENDING", "CONFLICT", "ERROR"}, pendingTo : KnownStatus]
ReportView == [row : ReportRow, previous : KnownStatus]
ReportOnServer == [status : Screen!ReportStatus \cup {"GONE"}, version : Nat,
                   heldFrom : KnownStatus, logFrom : KnownStatus]
ScreenChoice == [to : KnownStatus, reason : BOOLEAN, from : KnownStatus]
Queueing == {"TRANSITION", "UPDATE", "UPDATE_STATUS"}
ScreenRequest == [op : Queueing \cup {"none"}, to : KnownStatus, reason : BOOLEAN, from : KnownStatus,
                  own : BOOLEAN, version : Nat, status : {"PENDING", "SYNCED", "CONFLICT", "FAILED"}]
ScreenOp == Queueing \cup {"OPEN", "ATTACH", "DELETE"}
ScreenStep == {"post", "impact", "store", "put", "log", "enqueue", "forget", "see", "write",
               "getLogs", "putLogs", "transition", "prune"}
ScreenOperation == [op : ScreenOp \cup {"none"}, to : KnownStatus, reason : BOOLEAN, from : KnownStatus,
                    own : BOOLEAN, version : Nat, row : ReportRow, next : ScreenChoice,
                    todo : Seq(ScreenStep)]
SendingRow == {"send", "answered", "see", "write", "end"}
ScreenRun == [todo : SUBSET Nat, item : Nat, step : {"idle", "judge"} \cup SendingRow,
              skips : BOOLEAN, row : ReportRow]

(* A hold whose previousActiveStatus is known was made from that status.   *)
ScreenServer ==
    /\ host \in {"report", "child"}
    /\ server \in ReportOnServer
    /\ host = "child" => server.status \in Screen!ChildStatus
    /\ server.heldFrom # "NONE" => server.heldFrom = server.logFrom
    /\ server.heldFrom # "ON_HOLD"

(* A synced row is what the server had at that version; a child report,    *)
(* whose status changes at any version, never was in DRAFT again.          *)
IsFaithful(status, version) ==
    /\ host = "report" =>
          /\ version <= server.version
          /\ version = server.version /\ server.status # "GONE" => status = server.status
    /\ host = "child" /\ server.status = "DRAFT" => status = "DRAFT"
RowFaithful(row) ==
    row.sync = "SYNCED" /\ row.status # "NONE" => IsFaithful(row.status, row.version)

(* So is the status that a transition was chosen in, where the row had not *)
(* changed; and what a child report is offered names the status it is in.  *)
MoveFaithful(r) == r.op = "TRANSITION" /\ ~r.own => IsFaithful(r.from, r.version)
ChildMoves ==
    {<<"DRAFT", "IN_INSPECTION", FALSE>>, <<"IN_INSPECTION", "PENDING_APPROVAL", FALSE>>,
     <<"PENDING_APPROVAL", "APPROVED", FALSE>>, <<"APPROVED", "CLOSED", FALSE>>,
     <<"APPROVED", "IN_INSPECTION", TRUE>>}
IsOffered(c) == host = "child" /\ c.to # "NONE" => <<c.from, c.to, c.reason>> \in ChildMoves

ScreenRows ==
    /\ cache \in ReportRow /\ cache.status # "GONE" /\ RowFaithful(cache)
    /\ shown \in ReportView /\ shown.row.status # "GONE"
    /\ holdLog \in KnownStatus
    /\ chosen \in ScreenChoice /\ IsOffered(chosen)

(* In which order what is left to do can be.                               *)
Follows(op, todo, j) ==
    /\ todo[j] = "see" => j + 1 \in DOMAIN todo /\ todo[j + 1] = "write"
    /\ todo[j] = "getLogs" => j + 1 \in DOMAIN todo /\ todo[j + 1] = "putLogs"
    /\ todo[j] = "put" /\ op # "UPDATE_STATUS" => \E i \in DOMAIN todo : j < i /\ todo[i] = "enqueue"
    /\ todo[j] = "store" => j = 1
    /\ todo[j] = "transition" => j = Len(todo)
    /\ todo[j] = "impact" => op = "DELETE"
    /\ todo[j] = "enqueue" => op \in Queueing
    /\ todo[j] = "post" => op \in ScreenOp \ {"OPEN"}
    /\ op = "DELETE" => todo[j] \in {"impact", "post", "prune"}
    /\ op = "UPDATE_STATUS" =>
          todo[j] \in {"post", "store", "enqueue", "put"} /\ (todo[j] = "put" => j = Len(todo))
    /\ \A i \in DOMAIN todo :
          /\ todo[i] = "enqueue" =>
                /\ todo[j] \notin {"post", "impact", "store", "getLogs", "prune"}
                /\ todo[j] = "enqueue" => i = j
          /\ todo[i] = "post" => todo[j] # "getLogs"
ScreenSteps(op, todo) == \A j \in DOMAIN todo : Follows(op, todo, j)

Plans(todo, steps) == \E j \in DOMAIN todo : todo[j] \in steps
ScreenPlan(r) ==
    /\ ScreenSteps(r.op, r.todo)
    /\ Plans(r.todo, {"store"}) => r.row.sync = "SYNCED" /\ ~Plans(r.todo, {"put"})
    /\ r.row.status = "GONE" => r.op = "DELETE"
    /\ r.op \in {"UPDATE_STATUS", "OPEN", "ATTACH", "DELETE"} => host = "report"
    /\ r.op = "UPDATE_STATUS" /\ Plans(r.todo, {"post", "enqueue", "put"}) =>
          r.version = r.row.version /\ r.row.status # "NONE"
    /\ Plans(r.todo, {"post", "enqueue"}) => MoveFaithful(r) /\ IsOffered(r)
    /\ RowFaithful(r.row)
    /\ IsOffered(r.next)
ScreenAct == act \in ScreenOperation /\ ScreenPlan(act)

ScreenQueue ==
    /\ queue \in Seq(ScreenRequest)
    /\ \A k \in DOMAIN queue :
          /\ queue[k].status = "PENDING" => queue[k].op # "none"
          /\ queue[k].op = "UPDATE_STATUS" => host = "report"
          /\ MoveFaithful(queue[k]) /\ IsOffered(queue[k])

ScreenRunning ==
    /\ run \in ScreenRun
    /\ \A k \in run.todo : k \in DOMAIN queue /\ queue[k].status = "PENDING"
    /\ run.step \in SendingRow =>
          run.item \in DOMAIN queue /\ run.item \notin run.todo /\ queue[run.item].status = "PENDING"
    /\ run.step = "answered" => run.row.sync = "SYNCED"
    /\ run.row.status # "GONE" /\ RowFaithful(run.row)

(* A request that is not delivered yet, or whose answer is not cached.     *)
Unanswered(k) == queue[k].status # "SYNCED" /\ ~(run.item = k /\ run.step \in {"see", "write", "end"})
RowOwed ==
    cache.sync = "PENDING" /\ ~excused =>
        Plans(act.todo, {"enqueue"}) \/ \E k \in DOMAIN queue : Unanswered(k)

(* The row of a publication, which is queued before its row is written, is *)
(* not what was read once the publication has been answered.               *)
IsLater(row) == row.status = "NONE" \/ row.version > act.row.version
Overtaken ==
    /\ server.version > act.row.version
    /\ IsLater(cache)
    /\ run.step \in {"answered", "write"} => IsLater(run.row)
Publishes == act.op = "UPDATE_STATUS" /\ Plans(act.todo, {"put"}) /\ ~Plans(act.todo, {"enqueue"})
Published(k) ==
    /\ k > 0
    /\ Unanswered(k) \/ Overtaken
    /\ queue[k].status = "PENDING" =>
          queue[k].op = "UPDATE_STATUS" /\ queue[k].version = act.row.version
    /\ run.step = "answered" /\ run.item = k =>
          run.row.version > act.row.version /\ server.version > act.row.version
ScreenOwed == RowOwed /\ (Publishes => Published(Len(queue)))

ScreenInvariant ==
    ScreenServer /\ ScreenRows /\ ScreenAct /\ ScreenQueue /\ ScreenRunning /\ ScreenOwed

(* What the records of the screen are, and hold.                           *)
LEMMA KnownStatuses ==
    /\ "NONE" \in KnownStatus /\ "GONE" \notin KnownStatus
    /\ Screen!ReportStatus \subseteq KnownStatus /\ Screen!ChildStatus \subseteq Screen!ReportStatus
    /\ "NONE" \notin Screen!ReportStatus /\ "GONE" \notin Screen!ReportStatus
    /\ "APPROVED" \in Screen!ChildStatus /\ "ON_HOLD" \in Screen!ReportStatus
    /\ Screen!NoStatus = "NONE" /\ Screen!Gone = "GONE"
BY DEF KnownStatus, Screen!ReportStatus, Screen!ChildStatus, Screen!NoStatus, Screen!Gone

LEMMA NoReportCopy ==
    /\ Screen!NoCopy \in ReportRow /\ Screen!NoCopy.status = "NONE" /\ Screen!NoCopy.version = 0
    /\ Screen!NoCopy.sync = "SYNCED"
BY KnownStatuses DEF Screen!NoCopy, ReportRow

LEMMA NoScreenChoice ==
    /\ Screen!NoChoice \in ScreenChoice /\ Screen!NoChoice.to = "NONE"
    /\ Screen!NoChoice.from = "NONE" /\ Screen!NoChoice.reason = FALSE
BY KnownStatuses DEF Screen!NoChoice, ScreenChoice

LEMMA CopiedReport ==
    ASSUME NEW s \in ReportOnServer
    PROVE  /\ Screen!Copied(s) \in ReportRow
           /\ Screen!Copied(s).status = s.status /\ Screen!Copied(s).version = s.version
           /\ Screen!Copied(s).sync = "SYNCED"
BY KnownStatuses DEF Screen!Copied, ReportRow, ReportOnServer

LEMMA GoingOperation ==
    ASSUME act \in ScreenOperation, NEW row \in ReportRow, NEW version \in Nat, NEW from \in KnownStatus,
           NEW todo \in Seq(ScreenStep), NEW r, r = Screen!Going(row, version, from, todo)
    PROVE  /\ r \in ScreenOperation
           /\ r.op = act.op /\ r.to = act.to /\ r.reason = act.reason /\ r.from = from
           /\ r.own = act.own /\ r.version = version /\ r.row = row /\ r.next = act.next
           /\ r.todo = todo
BY DEF Screen!Going, ScreenOperation

LEMMA EndedReportRequest ==
    ASSUME NEW status \in {"PENDING", "SYNCED", "CONFLICT", "FAILED"}
    PROVE  /\ Screen!Ended(status) \in ScreenRequest
           /\ Screen!Ended(status).op = "none" /\ Screen!Ended(status).to = "NONE"
           /\ Screen!Ended(status).status = status
BY KnownStatuses DEF Screen!Ended, ScreenRequest

LEMMA ScreenRequestOf ==
    ASSUME act \in ScreenOperation, act.op \in Queueing
    PROVE  /\ Screen!Request \in ScreenRequest
           /\ Screen!Request.op = act.op /\ Screen!Request.to = act.to
           /\ Screen!Request.reason = act.reason /\ Screen!Request.from = act.from
           /\ Screen!Request.own = act.own /\ Screen!Request.version = act.version
           /\ Screen!Request.status = "PENDING"
BY DEF Screen!Request, ScreenOperation, ScreenRequest

LEMMA ScreenTurn ==
    ASSUME NEW todo \in SUBSET Nat, NEW skips \in BOOLEAN, NEW step \in {"idle", "judge"},
           NEW r, r = Screen!Turn(todo, skips, step)
    PROVE  r \in ScreenRun /\ r.todo = todo /\ r.item = 0 /\ r.step = step /\ r.row = Screen!NoCopy
BY NoReportCopy DEF Screen!Turn, ScreenRun

LEMMA MarkedReport ==
    ASSUME cache \in ReportRow, NEW sync \in {"CONFLICT", "ERROR"}, NEW pendingTo \in KnownStatus
    PROVE  /\ Screen!Marked(sync, pendingTo) \in ReportRow
           /\ Screen!Marked(sync, pendingTo).status = cache.status
           /\ Screen!Marked(sync, pendingTo).version = cache.version
           /\ Screen!Marked(sync, pendingTo).sync = sync
BY DEF Screen!Marked, ReportRow

LEMMA ChangedReport ==
    ASSUME act \in ScreenOperation, act.row.status # "GONE"
    PROVE  /\ Screen!Changed \in ReportRow /\ Screen!Changed.status # "GONE"
           /\ Screen!Changed.version = act.row.version /\ Screen!Changed.sync = "PENDING"
<1>1. act.row \in ReportRow /\ act.to \in KnownStatus
  BY DEF ScreenOperation
<1>2. PICK status : status = (CASE act.op = "UPDATE_STATUS" -> "APPROVED"
                             [] act.op = "TRANSITION" /\ host = "child" -> act.to
                             [] OTHER -> act.row.status)
  OBVIOUS
<1>3. status \in KnownStatus
  BY <1>1, <1>2, KnownStatuses DEF ReportRow
<1>4. PICK pendingTo : pendingTo = IF act.op = "TRANSITION" /\ host = "report" THEN act.to
                                   ELSE act.row.pendingTo
  OBVIOUS
<1>5. pendingTo \in KnownStatus
  BY <1>1, <1>4 DEF ReportRow
<1>6. Screen!Changed = [status |-> status, version |-> act.row.version, sync |-> "PENDING",
                        pendingTo |-> pendingTo]
  BY <1>2, <1>4, Zenon DEF Screen!Changed
<1> QED BY <1>1, <1>3, <1>5, <1>6, KnownStatuses DEF ReportRow

(* What is left after a step is still in order, and nothing is added to it.*)
LEMMA RestOfSteps ==
    ASSUME NEW op, NEW todo \in Seq(ScreenStep), todo # <<>>, ScreenSteps(op, todo)
    PROVE  /\ 1 \in DOMAIN todo /\ Head(todo) = todo[1]
           /\ Tail(todo) \in Seq(ScreenStep) /\ ScreenSteps(op, Tail(todo))
           /\ \A steps : Plans(Tail(todo), steps) => Plans(todo, steps)
           /\ \A steps : Plans(todo, steps) => todo[1] \in steps \/ Plans(Tail(todo), steps)
           /\ ~Plans(Tail(todo), {"store"})
<1> DEFINE rest == Tail(todo)
<1>1. /\ rest \in Seq(ScreenStep) /\ Len(rest) = Len(todo) - 1 /\ 1 \in DOMAIN todo
      /\ DOMAIN rest = 1 .. Len(todo) - 1 /\ DOMAIN todo = 1 .. Len(todo) /\ Head(todo) = todo[1]
      /\ \A j \in DOMAIN rest : j + 1 \in DOMAIN todo /\ rest[j] = todo[j + 1]
      /\ Len(todo) \in Nat
  OBVIOUS
<1>2. \A j \in DOMAIN todo : j # 1 => j - 1 \in DOMAIN rest /\ rest[j - 1] = todo[j]
  BY <1>1
<1> HIDE DEF rest
<1>3. ASSUME NEW j \in DOMAIN rest
      PROVE  Follows(op, rest, j)
  <2>1. Follows(op, todo, j + 1) /\ rest[j] = todo[j + 1] /\ j \in Nat /\ j >= 1
    BY <1>1 DEF ScreenSteps
  <2>2. /\ rest[j] = "see" => j + 1 \in DOMAIN rest /\ rest[j + 1] = "write"
        /\ rest[j] = "getLogs" => j + 1 \in DOMAIN rest /\ rest[j + 1] = "putLogs"
    BY <1>1, <2>1 DEF Follows
  <2>3. ASSUME rest[j] = "put", op # "UPDATE_STATUS"
        PROVE  \E i \in DOMAIN rest : j < i /\ rest[i] = "enqueue"
    <3>1. PICK i \in DOMAIN todo : j + 1 < i /\ todo[i] = "enqueue"
      BY <2>1, <2>3 DEF Follows
    <3>2. i - 1 \in DOMAIN rest /\ rest[i - 1] = "enqueue" /\ j < i - 1
      BY <1>1, <1>2, <2>1, <3>1
    <3> QED BY <3>2
  <2>4. /\ rest[j] # "store"
        /\ rest[j] = "transition" => j = Len(rest)
        /\ rest[j] = "impact" => op = "DELETE"
        /\ rest[j] = "enqueue" => op \in Queueing
        /\ rest[j] = "post" => op \in ScreenOp \ {"OPEN"}
        /\ op = "DELETE" => rest[j] \in {"impact", "post", "prune"}
        /\ op = "UPDATE_STATUS" =>
             rest[j] \in {"post", "store", "enqueue", "put"} /\ (rest[j] = "put" => j = Len(rest))
    BY <1>1, <2>1 DEF Follows
  <2>5. ASSUME NEW i \in DOMAIN rest
        PROVE  /\ rest[i] = "enqueue" =>
                    /\ rest[j] \notin {"post", "impact", "store", "getLogs", "prune"}
                    /\ rest[j] = "enqueue" => i = j
               /\ rest[i] = "post" => rest[j] # "getLogs"
    <3>1. i + 1 \in DOMAIN todo /\ rest[i] = todo[i + 1] /\ i \in Nat
      BY <1>1
    <3> QED BY <2>1, <3>1 DEF Follows
  <2> QED BY <2>2, <2>3, <2>4, <2>5 DEF Follows
<1>4. \A steps : Plans(rest, steps) => Plans(todo, steps)
  BY <1>1 DEF Plans
<1>5. \A steps : Plans(todo, steps) => todo[1] \in steps \/ Plans(rest, steps)
  BY <1>1, <1>2 DEF Plans
<1>6. ~Plans(rest, {"store"})
  <2>1. \A j \in DOMAIN rest : Follows(op, todo, j + 1) /\ rest[j] = todo[j + 1] /\ j >= 1 /\ j \in Nat
    BY <1>1 DEF ScreenSteps
  <2> QED BY <2>1 DEF Follows, Plans
<1> QED BY <1>1, <1>3, <1>4, <1>5, <1>6 DEF ScreenSteps, rest

LEMMA FirstOfSteps ==
    ASSUME NEW todo \in Seq(ScreenStep), 1 \in DOMAIN todo
    PROVE  todo # <<>> /\ Head(todo) = todo[1]
OBVIOUS

(* A step that reads is followed by one that writes; they go together.     *)
LEMMA StepsOfTwo ==
    ASSUME NEW op, NEW todo \in Seq(ScreenStep), todo # <<>>, ScreenSteps(op, todo),
           Head(todo) \in {"see", "getLogs"}
    PROVE  /\ Tail(todo) # <<>> /\ Head(Tail(todo)) \in {"write", "putLogs"}
           /\ Tail(Tail(todo)) \in Seq(ScreenStep) /\ ScreenSteps(op, Tail(Tail(todo)))
           /\ \A steps : Plans(Tail(Tail(todo)), steps) => Plans(todo, steps)
           /\ Plans(todo, {"enqueue"}) => Plans(Tail(Tail(todo)), {"enqueue"})
<1>1. Follows(op, todo, 1) /\ todo[1] = Head(todo)
  BY RestOfSteps DEF ScreenSteps
<1>2. 2 \in DOMAIN todo /\ todo[2] \in {"write", "putLogs"}
  BY <1>1 DEF Follows
<1>3. Tail(todo) # <<>> /\ Head(Tail(todo)) = todo[2]
  <2>1. Tail(todo) \in Seq(ScreenStep) /\ 1 \in DOMAIN Tail(todo) /\ Tail(todo)[1] = todo[2]
    BY <1>2
  <2> QED BY <2>1, FirstOfSteps
<1>4. Tail(todo) \in Seq(ScreenStep) /\ ScreenSteps(op, Tail(todo))
  BY RestOfSteps
<1> QED BY <1>1, <1>2, <1>3, <1>4, RestOfSteps

LEMMA NoStepsLeft == \A op : ScreenSteps(op, <<>>) /\ \A steps : ~Plans(<<>>, steps)
BY DEF ScreenSteps, Plans

(* What is left to do after an answer, ...                                 *)
LEMMA AnsweredSteps ==
    ASSUME host \in {"report", "child"}, NEW op \in ScreenOp \ {"OPEN"}, NEW next,
           op \notin {"TRANSITION", "UPDATE"} => host = "report"
    PROVE  /\ Screen!Answering(op, next) \in Seq(ScreenStep)
           /\ ScreenSteps(op, Screen!Answering(op, next))
           /\ ~Plans(Screen!Answering(op, next), {"post", "enqueue", "put"})
           /\ Plans(Screen!Answering(op, next), {"store"}) => op # "DELETE"
<1>0. PICK todo : todo = Screen!Answering(op, next)
  OBVIOUS
<1>1. CASE host = "child" /\ op = "TRANSITION"
  <2>1. todo = <<"store", "forget">>
    BY <1>0, <1>1 DEF Screen!Answering
  <2>2. /\ todo \in Seq(ScreenStep) /\ Len(todo) = 2 /\ DOMAIN todo = {1, 2}
        /\ todo[1] = "store" /\ todo[2] = "forget"
    BY <2>1 DEF ScreenStep
  <2> QED BY <1>0, <1>1, <2>2 DEF ScreenSteps, Follows, Plans, ScreenOp, Queueing
<1>2. CASE host = "child" /\ op = "UPDATE" /\ next = Screen!NoChoice
  <2>1. todo = <<"store">>
    BY <1>0, <1>2 DEF Screen!Answering
  <2>2. /\ todo \in Seq(ScreenStep) /\ Len(todo) = 1 /\ DOMAIN todo = {1}
        /\ todo[1] = "store"
    BY <2>1 DEF ScreenStep
  <2> QED BY <1>0, <1>2, <2>2 DEF ScreenSteps, Follows, Plans, ScreenOp, Queueing
<1>3. CASE host = "child" /\ op = "UPDATE" /\ next # Screen!NoChoice
  <2>1. todo = <<"store", "transition">>
    BY <1>0, <1>3 DEF Screen!Answering
  <2>2. /\ todo \in Seq(ScreenStep) /\ Len(todo) = 2 /\ DOMAIN todo = {1, 2}
        /\ todo[1] = "store" /\ todo[2] = "transition"
    BY <2>1 DEF ScreenStep
  <2>3. Follows(op, todo, 1)
    BY <1>3, <2>2 DEF Follows, ScreenOp, Queueing
  <2>4. Follows(op, todo, 2)
    BY <1>3, <2>2 DEF Follows, ScreenOp, Queueing
  <2>5. ScreenSteps(op, todo)
    BY <2>2, <2>3, <2>4 DEF ScreenSteps
  <2> QED BY <1>0, <1>3, <2>2, <2>5 DEF Plans
<1>4. CASE host = "report" /\ op = "TRANSITION"
  <2>1. todo = <<"store", "see", "write", "getLogs", "putLogs", "forget">>
    BY <1>0, <1>4 DEF Screen!Answering
  <2>2. /\ todo \in Seq(ScreenStep) /\ Len(todo) = 6 /\ DOMAIN todo = {1, 2, 3, 4, 5, 6}
        /\ todo[1] = "store" /\ todo[2] = "see" /\ todo[3] = "write"
        /\ todo[4] = "getLogs" /\ todo[5] = "putLogs" /\ todo[6] = "forget"
    BY <2>1 DEF ScreenStep
  <2> QED BY <1>0, <1>4, <2>2 DEF ScreenSteps, Follows, Plans, ScreenOp, Queueing
<1>5. CASE host = "report" /\ op = "UPDATE"
  <2>1. todo = <<"store", "see", "write">>
    BY <1>0, <1>5 DEF Screen!Answering
  <2>2. /\ todo \in Seq(ScreenStep) /\ Len(todo) = 3 /\ DOMAIN todo = {1, 2, 3}
        /\ todo[1] = "store" /\ todo[2] = "see" /\ todo[3] = "write"
    BY <2>1 DEF ScreenStep
  <2> QED BY <1>0, <1>5, <2>2 DEF ScreenSteps, Follows, Plans, ScreenOp, Queueing
<1>6. CASE host = "report" /\ op = "UPDATE_STATUS"
  <2>1. todo = <<"store">>
    BY <1>0, <1>6 DEF Screen!Answering
  <2>2. /\ todo \in Seq(ScreenStep) /\ Len(todo) = 1 /\ DOMAIN todo = {1}
        /\ todo[1] = "store"
    BY <2>1 DEF ScreenStep
  <2>3. Follows(op, todo, 1)
    BY <1>6, <2>2 DEF Follows, ScreenOp, Queueing
  <2>4. ScreenSteps(op, todo)
    BY <2>2, <2>3 DEF ScreenSteps
  <2> QED BY <1>0, <1>6, <2>2, <2>4 DEF Plans
<1>7. CASE host = "report" /\ op = "ATTACH"
  <2>1. todo = <<"see", "write">>
    BY <1>0, <1>7 DEF Screen!Answering
  <2>2. /\ todo \in Seq(ScreenStep) /\ Len(todo) = 2 /\ DOMAIN todo = {1, 2}
        /\ todo[1] = "see" /\ todo[2] = "write"
    BY <2>1 DEF ScreenStep
  <2> QED BY <1>0, <1>7, <2>2 DEF ScreenSteps, Follows, Plans, ScreenOp, Queueing
<1>8. CASE host = "report" /\ op = "DELETE"
  <2>1. todo = <<"prune">>
    BY <1>0, <1>8 DEF Screen!Answering
  <2>2. /\ todo \in Seq(ScreenStep) /\ Len(todo) = 1 /\ DOMAIN todo = {1}
        /\ todo[1] = "prune"
    BY <2>1 DEF ScreenStep
  <2> QED BY <1>0, <1>8, <2>2 DEF ScreenSteps, Follows, Plans, ScreenOp, Queueing
<1> QED BY <1>1, <1>2, <1>3, <1>4, <1>5, <1>6, <1>7, <1>8 DEF ScreenOp, Queueing

(* ... and when there is none.                                             *)
LEMMA LocallySteps ==
    ASSUME host \in {"report", "child"}, NEW op \in Queueing, NEW next,
           op = "UPDATE_STATUS" => host = "report"
    PROVE  /\ Screen!Locally(op, next) \in Seq(ScreenStep)
           /\ ScreenSteps(op, Screen!Locally(op, next))
           /\ Plans(Screen!Locally(op, next), {"enqueue"})
           /\ ~Plans(Screen!Locally(op, next), {"store"})
<1>0. PICK todo : todo = Screen!Locally(op, next)
  OBVIOUS
<1>1. CASE host = "child" /\ op = "TRANSITION"
  <2>1. todo = <<"put", "enqueue", "forget">>
    BY <1>0, <1>1 DEF Screen!Locally
  <2>2. /\ todo \in Seq(ScreenStep) /\ Len(todo) = 3 /\ DOMAIN todo = {1, 2, 3}
        /\ todo[1] = "put" /\ todo[2] = "enqueue" /\ todo[3] = "forget"
    BY <2>1 DEF ScreenStep
  <2> QED BY <1>0, <1>1, <2>2 DEF ScreenSteps, Follows, Plans, ScreenOp, Queueing
<1>2. CASE host = "child" /\ op = "UPDATE" /\ next = Screen!NoChoice
  <2>1. todo = <<"put", "enqueue">>
    BY <1>0, <1>2 DEF Screen!Locally
  <2>2. /\ todo \in Seq(ScreenStep) /\ Len(todo) = 2 /\ DOMAIN todo = {1, 2}
        /\ todo[1] = "put" /\ todo[2] = "enqueue"
    BY <2>1 DEF ScreenStep
  <2> QED BY <1>0, <1>2, <2>2 DEF ScreenSteps, Follows, Plans, ScreenOp, Queueing
<1>3. CASE host = "child" /\ op = "UPDATE" /\ next # Screen!NoChoice
  <2>1. todo = <<"put", "enqueue", "transition">>
    BY <1>0, <1>3 DEF Screen!Locally
  <2>2. /\ todo \in Seq(ScreenStep) /\ Len(todo) = 3 /\ DOMAIN todo = {1, 2, 3}
        /\ todo[1] = "put" /\ todo[2] = "enqueue" /\ todo[3] = "transition"
    BY <2>1 DEF ScreenStep
  <2>3. Follows(op, todo, 1)
    BY <1>3, <2>2 DEF Follows, ScreenOp, Queueing
  <2>4. Follows(op, todo, 2)
    BY <1>3, <2>2 DEF Follows, ScreenOp, Queueing
  <2>5. Follows(op, todo, 3)
    BY <1>3, <2>2 DEF Follows, ScreenOp, Queueing
  <2>6. ScreenSteps(op, todo)
    BY <2>2, <2>3, <2>4, <2>5 DEF ScreenSteps
  <2> QED BY <1>0, <1>3, <2>2, <2>6 DEF Plans
<1>4. CASE host = "report" /\ op = "TRANSITION"
  <2>1. todo = <<"put", "log", "enqueue", "forget">>
    BY <1>0, <1>4 DEF Screen!Locally
  <2>2. /\ todo \in Seq(ScreenStep) /\ Len(todo) = 4 /\ DOMAIN todo = {1, 2, 3, 4}
        /\ todo[1] = "put" /\ todo[2] = "log" /\ todo[3] = "enqueue"
        /\ todo[4] = "forget"
    BY <2>1 DEF ScreenStep
  <2> QED BY <1>0, <1>4, <2>2 DEF ScreenSteps, Follows, Plans, ScreenOp, Queueing
<1>5. CASE host = "report" /\ op = "UPDATE"
  <2>1. todo = <<"put", "see", "write", "enqueue">>
    BY <1>0, <1>5 DEF Screen!Locally
  <2>2. /\ todo \in Seq(ScreenStep) /\ Len(todo) = 4 /\ DOMAIN todo = {1, 2, 3, 4}
        /\ todo[1] = "put" /\ todo[2] = "see" /\ todo[3] = "write"
        /\ todo[4] = "enqueue"
    BY <2>1 DEF ScreenStep
  <2> QED BY <1>0, <1>5, <2>2 DEF ScreenSteps, Follows, Plans, ScreenOp, Queueing
<1>6. CASE host = "report" /\ op = "UPDATE_STATUS"
  <2>1. todo = <<"enqueue", "put">>
    BY <1>0, <1>6 DEF Screen!Locally
  <2>2. /\ todo \in Seq(ScreenStep) /\ Len(todo) = 2 /\ DOMAIN todo = {1, 2}
        /\ todo[1] = "enqueue" /\ todo[2] = "put"
    BY <2>1 DEF ScreenStep
  <2>3. Follows(op, todo, 1)
    BY <1>6, <2>2 DEF Follows, ScreenOp, Queueing
  <2>4. Follows(op, todo, 2)
    BY <1>6, <2>2 DEF Follows, ScreenOp, Queueing
  <2>5. ScreenSteps(op, todo)
    BY <2>2, <2>3, <2>4 DEF ScreenSteps
  <2> QED BY <1>0, <1>6, <2>2, <2>5 DEF Plans
<1> QED BY <1>1, <1>2, <1>3, <1>4, <1>5, <1>6 DEF Queueing

(* What the first three of an operation's steps are when its page opens.   *)
LEMMA OpeningSteps ==
    ASSUME NEW todo, todo = <<"see", "write", "getLogs", "putLogs">>
    PROVE  /\ todo \in Seq(ScreenStep) /\ ScreenSteps("OPEN", todo)
           /\ ~Plans(todo, {"post", "enqueue", "put"}) /\ ~Plans(todo, {"store"})
<1>1. /\ todo \in Seq(ScreenStep) /\ Len(todo) = 4 /\ DOMAIN todo = {1, 2, 3, 4}
      /\ todo[1] = "see" /\ todo[2] = "write" /\ todo[3] = "getLogs" /\ todo[4] = "putLogs"
  BY DEF ScreenStep
<1> QED BY <1>1 DEF ScreenSteps, Follows, Plans, Queueing

LEMMA PostingSteps ==
    ASSUME NEW op \in ScreenOp \ {"OPEN", "DELETE"}, NEW todo, todo = <<"post">>
    PROVE  /\ todo \in Seq(ScreenStep) /\ ScreenSteps(op, todo)
           /\ ~Plans(todo, {"store"}) /\ ~Plans(todo, {"enqueue"}) /\ ~Plans(todo, {"put"})
<1>1. todo \in Seq(ScreenStep) /\ Len(todo) = 1 /\ DOMAIN todo = {1} /\ todo[1] = "post"
  BY DEF ScreenStep
<1> QED BY <1>1 DEF ScreenSteps, Follows, Plans, ScreenOp, Queueing

LEMMA DeletingSteps ==
    ASSUME NEW todo, todo = <<"impact", "post">>
    PROVE  /\ todo \in Seq(ScreenStep) /\ ScreenSteps("DELETE", todo)
           /\ ~Plans(todo, {"store"}) /\ ~Plans(todo, {"enqueue"})
<1>1. /\ todo \in Seq(ScreenStep) /\ Len(todo) = 2 /\ DOMAIN todo = {1, 2}
      /\ todo[1] = "impact" /\ todo[2] = "post"
  BY DEF ScreenStep
<1> QED BY <1>1 DEF ScreenSteps, Follows, Plans, ScreenOp, Queueing

----------------------------------------------------------------------------
(* The screen of a report: the server.                                     *)

LEMMA InspectionMoves ==
    ASSUME NEW role, NEW from \in Screen!ReportStatus
    PROVE  Screen!InspectionTransitions(role, from) \subseteq Screen!ReportStatus
<1>1. Screen!AdminInspectionTransitions[from] \subseteq Screen!ReportStatus
  BY DEF Screen!AdminInspectionTransitions, Screen!ReportStatus
<1> QED BY <1>1 DEF Screen!InspectionTransitions, Screen!ReportStatus

LEMMA ChildReportMoves ==
    ASSUME NEW role, NEW from \in Screen!ChildStatus
    PROVE  Screen!ChildTransitions(role, from) \subseteq Screen!ChildStatus \ {"DRAFT"}
<1>1. Screen!AdminChildTransitions[from] \subseteq Screen!ChildStatus \ {"DRAFT"}
  BY DEF Screen!AdminChildTransitions, Screen!ChildStatus
<1> QED BY <1>1 DEF Screen!ChildTransitions, Screen!ChildStatus

(* From where a child report is moved on, given where to.                  *)
LEMMA ChildMovesFrom ==
    ASSUME NEW role, NEW from \in Screen!ChildStatus, NEW c, <<c.from, c.to, c.reason>> \in ChildMoves,
           c.to \in Screen!ChildTransitions(role, from),
           Screen!ReasonRequiredForChild(from, c.to) => c.reason
    PROVE  from = c.from \/ from = "DRAFT"
<1>1. c.to \in Screen!AdminChildTransitions[from]
  BY DEF Screen!ChildTransitions
<1>2. /\ from = "DRAFT" => c.to = "IN_INSPECTION"
      /\ from = "IN_INSPECTION" => c.to = "PENDING_APPROVAL"
      /\ from = "PENDING_APPROVAL" => c.to = "APPROVED"
      /\ from = "APPROVED" => c.to \in {"CLOSED", "IN_INSPECTION"}
      /\ from # "CLOSED"
  BY <1>1 DEF Screen!AdminChildTransitions
<1> QED BY <1>2 DEF ChildMoves, Screen!ChildStatus, Screen!ReasonRequiredForChild

(* The server moves on: what it had at a version stays what it had.        *)
ScreenOnward ==
    /\ ScreenServer' /\ host' = host /\ server.version <= server'.version
    /\ host = "report" /\ server'.version = server.version /\ server'.status # "GONE" =>
          server'.status = server.status
    /\ host = "child" /\ server'.status = "DRAFT" => server.status = "DRAFT"

LEMMA ScreenServerRests ==
    ASSUME ScreenServer, UNCHANGED <<host, server>>
    PROVE  ScreenOnward
BY DEF ScreenServer, ScreenOnward, ReportOnServer

LEMMA MovedReport ==
    ASSUME server \in ReportOnServer, server.status # "GONE", NEW to \in Screen!ReportStatus \cup {"GONE"}
    PROVE  /\ Screen!Moved(server, to) \in ReportOnServer
           /\ Screen!Moved(server, to).status = to
           /\ Screen!Moved(server, to).version = server.version
           /\ to # "ON_HOLD" =>
                 /\ Screen!Moved(server, to).heldFrom = server.heldFrom
                 /\ Screen!Moved(server, to).logFrom = server.logFrom
           /\ to = "ON_HOLD" =>
                 /\ Screen!Moved(server, to).heldFrom = Screen!Moved(server, to).logFrom
                 /\ Screen!Moved(server, to).heldFrom = server.status
BY KnownStatuses DEF Screen!Moved, ReportOnServer

LEMMA LaterReport ==
    ASSUME NEW s \in ReportOnServer
    PROVE  /\ Screen!Later(s) \in ReportOnServer
           /\ Screen!Later(s).status = s.status /\ Screen!Later(s).version = s.version + 1
           /\ Screen!Later(s).heldFrom = s.heldFrom /\ Screen!Later(s).logFrom = s.logFrom
BY DEF Screen!Later, ReportOnServer

LEMMA PatchedReport ==
    ASSUME server \in ReportOnServer, server.status # "GONE"
    PROVE  /\ Screen!Patched(server) \in ReportOnServer
           /\ Screen!Patched(server).status = "ON_HOLD"
           /\ Screen!Patched(server).version = server.version + 1
           /\ Screen!Patched(server).heldFrom = "NONE"
BY KnownStatuses DEF Screen!Patched, ReportOnServer

(* A new server, moved to a status of the report's or of the child's.      *)
LEMMA ServerMovedOn ==
    ASSUME ScreenServer, server.status # "GONE", host' = host,
           NEW to \in Screen!ReportStatus \cup {"GONE"},
           host = "child" => to \in Screen!ChildStatus /\ (to = "DRAFT" => server.status = "DRAFT"),
           to = "ON_HOLD" => server.status # "ON_HOLD",
           \/ server' = Screen!Moved(server, to) /\ (host = "child" \/ to = "GONE")
           \/ server' = Screen!Later(Screen!Moved(server, to))
    PROVE  ScreenOnward
<1>1. PICK s : s = Screen!Moved(server, to)
  OBVIOUS
<1>2. s \in ReportOnServer /\ s.status = to /\ s.version = server.version
  BY <1>1, MovedReport DEF ScreenServer
<1>3. (s.heldFrom # "NONE" => s.heldFrom = s.logFrom) /\ s.heldFrom # "ON_HOLD"
  BY <1>1, MovedReport DEF ScreenServer
<1>4. PICK t : t = Screen!Later(s)
  OBVIOUS
<1>5. /\ t \in ReportOnServer /\ t.status = to /\ t.version = server.version + 1
      /\ (t.heldFrom # "NONE" => t.heldFrom = t.logFrom) /\ t.heldFrom # "ON_HOLD"
  BY <1>2, <1>3, <1>4, LaterReport
<1>6. server.version \in Nat
  BY DEF ScreenServer, ReportOnServer
<1>7. CASE server' = s /\ (host = "child" \/ to = "GONE")
  BY <1>2, <1>3, <1>6, <1>7 DEF ScreenServer, ScreenOnward
<1>8. CASE server' = t
  BY <1>5, <1>6, <1>8 DEF ScreenServer, ScreenOnward
<1> QED BY <1>1, <1>4, <1>7, <1>8

(* What a request does that the server accepts.                            *)
LEMMA AcceptedMoves ==
    ASSUME ScreenServer, NEW r, r.op \in ScreenOp \ {"OPEN"},
           r.op \notin {"TRANSITION", "UPDATE"} => host = "report",
           Screen!Answered(r) = 200, server' = Screen!After(r), host' = host
    PROVE  /\ ScreenOnward
           /\ r.op # "DELETE" => server'.status # "GONE"
           /\ r.op = "UPDATE_STATUS" => server.version = r.version /\ server'.version = r.version + 1
<1>1. server.status # "GONE" /\ Screen!VersionMatches(r) /\ Screen!Permitted(r)
  <2>1. ~(server.status = Screen!Gone)
    BY DEF Screen!Answered
  <2>2. ~(server.status # Screen!Gone /\ ~Screen!VersionMatches(r))
    BY DEF Screen!Answered
  <2>3. ~(server.status # Screen!Gone /\ Screen!VersionMatches(r) /\ ~Screen!Permitted(r))
    BY DEF Screen!Answered
  <2> QED BY <2>1, <2>2, <2>3, KnownStatuses
<1>2. server \in ReportOnServer /\ server.status \in Screen!ReportStatus
  BY <1>1 DEF ScreenServer, ReportOnServer
<1>3. CASE r.op = "ATTACH"
  <2>1. server' = server
    BY <1>3 DEF Screen!After
  <2> QED BY <1>1, <1>3, <2>1, ScreenServerRests
<1>4. CASE r.op = "DELETE"
  <2>1. server' = Screen!Moved(server, "GONE") /\ host = "report"
    BY <1>4, KnownStatuses DEF Screen!After
  <2> QED BY <1>1, <1>4, <2>1, ServerMovedOn
<1>5. CASE r.op = "UPDATE"
  <2>1. server' = Screen!Later(server)
    BY <1>5 DEF Screen!After
  <2>2. /\ server' \in ReportOnServer /\ server'.status = server.status
        /\ server'.version = server.version + 1
        /\ server'.heldFrom = server.heldFrom /\ server'.logFrom = server.logFrom
    BY <1>2, <2>1, LaterReport
  <2>3. server.version \in Nat
    BY <1>2 DEF ReportOnServer
  <2> QED BY <1>1, <1>5, <2>2, <2>3 DEF ScreenOnward, ScreenServer
<1>6. CASE r.op = "UPDATE_STATUS"
  <2>1. server' = Screen!Later(Screen!Moved(server, "APPROVED"))
    BY <1>6 DEF Screen!After
  <2>2. ScreenOnward
    BY <1>1, <2>1, ServerMovedOn, KnownStatuses
  <2>3. host = "report" /\ server.version = r.version
    BY <1>1, <1>6 DEF Screen!VersionMatches
  <2>4. server'.status = "APPROVED" /\ server'.version = server.version + 1
    BY <1>1, <1>2, <2>1, MovedReport, LaterReport, KnownStatuses
  <2> QED BY <1>6, <2>2, <2>3, <2>4
<1>7. CASE r.op = "TRANSITION" /\ host = "report"
  <2>1. server' = Screen!Later(Screen!Moved(server, r.to))
    BY <1>7 DEF Screen!After
  <2>2. Screen!MayMove(user, server.status, r.to, r.reason)
    BY <1>1, <1>7 DEF Screen!Permitted
  <2>3. r.to \in Screen!ReportStatus
    BY <1>2, <2>2, InspectionMoves, KnownStatuses DEF Screen!MayMove, ReportOnServer, KnownStatus
  <2>4. r.to = "ON_HOLD" => server.status # "ON_HOLD"
    BY <2>2 DEF Screen!MayMove, ScreenServer
  <2>5. ScreenOnward
    BY <1>1, <1>7, <2>1, <2>3, <2>4, ServerMovedOn
  <2>6. server'.status = r.to
    BY <1>1, <1>2, <2>1, <2>3, MovedReport, LaterReport
  <2> QED BY <1>7, <2>3, <2>5, <2>6, KnownStatuses
<1>8. CASE r.op = "TRANSITION" /\ host # "report"
  <2>1. server' = Screen!Moved(server, r.to)
    BY <1>8 DEF Screen!After
  <2>2. Screen!MayMoveChild(user, server.status, r.to, r.reason)
    BY <1>1, <1>8 DEF Screen!Permitted
  <2>3. host = "child" /\ server.status \in Screen!ChildStatus
    BY <1>8 DEF ScreenServer
  <2>4. r.to \in Screen!ChildStatus \ {"DRAFT"}
    BY <2>2, <2>3, ChildReportMoves DEF Screen!MayMoveChild
  <2>5. ScreenOnward
    BY <1>1, <2>1, <2>3, <2>4, ServerMovedOn, KnownStatuses DEF Screen!ChildStatus
  <2>6. server'.status = r.to
    BY <1>1, <1>2, <2>1, <2>4, MovedReport, KnownStatuses
  <2> QED BY <1>8, <2>4, <2>5, <2>6, KnownStatuses
<1> QED BY <1>3, <1>4, <1>5, <1>6, <1>7, <1>8 DEF ScreenOp, Queueing

(* A transition is made from where it was offered.                         *)
LEMMA TransitionsAreOffered ==
    ASSUME ScreenServer, NEW r, r.op = "TRANSITION", Screen!Answered(r) = 200,
           MoveFaithful(r), IsOffered(r)
    PROVE  \/ server.status = r.from
           \/ r.own /\ (host = "report" \/ server.status = "DRAFT")
<1>1. server.status # "GONE" /\ Screen!VersionMatches(r) /\ Screen!Permitted(r)
  <2>1. ~(server.status = Screen!Gone)
    BY DEF Screen!Answered
  <2>2. ~(server.status # Screen!Gone /\ ~Screen!VersionMatches(r))
    BY DEF Screen!Answered
  <2>3. ~(server.status # Screen!Gone /\ Screen!VersionMatches(r) /\ ~Screen!Permitted(r))
    BY DEF Screen!Answered
  <2> QED BY <2>1, <2>2, <2>3, KnownStatuses
<1>2. CASE host = "report"
  <2>1. server.version = r.version
    BY <1>1, <1>2 DEF Screen!VersionMatches
  <2> QED BY <1>1, <1>2, <2>1 DEF MoveFaithful, IsFaithful
<1>3. CASE host # "report"
  <2>1. Screen!MayMoveChild(user, server.status, r.to, r.reason)
    BY <1>1, <1>3 DEF Screen!Permitted
  <2>2. host = "child" /\ server.status \in Screen!ChildStatus
    BY <1>3 DEF ScreenServer
  <2>3. r.to \in Screen!ChildStatus
    BY <2>1, <2>2, ChildReportMoves DEF Screen!MayMoveChild
  <2>4. <<r.from, r.to, r.reason>> \in ChildMoves
    BY <2>2, <2>3, KnownStatuses DEF IsOffered
  <2>5. server.status = r.from \/ server.status = "DRAFT"
    BY <2>1, <2>2, <2>4, ChildMovesFrom DEF Screen!MayMoveChild
  <2>6. ~r.own /\ server.status = "DRAFT" => server.status = r.from
    BY <2>2 DEF MoveFaithful, IsFaithful
  <2> QED BY <2>2, <2>5, <2>6
<1> QED BY <1>2, <1>3

(* What other people do.                                                   *)
LEMMA OthersMoveOn ==
    ASSUME ScreenServer, Screen!OthersAct
    PROVE  ScreenOnward
<1>1. host' = host /\ server.status # "GONE" /\ server \in ReportOnServer /\ server.version \in Nat
  BY KnownStatuses DEF Screen!OthersAct, Screen!fixed, ScreenServer, ReportOnServer
<1>2. server.status \in Screen!ReportStatus
  BY <1>1 DEF ReportOnServer
<1>3. CASE server' = Screen!Later(server)
  <2>1. /\ server' \in ReportOnServer /\ server'.status = server.status
        /\ server'.version = server.version + 1
        /\ server'.heldFrom = server.heldFrom /\ server'.logFrom = server.logFrom
    BY <1>1, <1>3, LaterReport
  <2> QED BY <1>1, <2>1 DEF ScreenOnward, ScreenServer
<1>4. CASE host = "report" /\ server' = Screen!Moved(server, Screen!Gone)
  BY <1>1, <1>4, ServerMovedOn, KnownStatuses
<1>5. CASE host = "report" /\ server' = Screen!Patched(server)
  BY <1>1, <1>5, PatchedReport DEF ScreenOnward, ScreenServer
<1>6. ASSUME NEW to \in Screen!ReportStatus,
             IF host = "report"
             THEN Screen!MayMove("ADMIN", server.status, to, TRUE)
                  /\ server' = Screen!Later(Screen!Moved(server, to))
             ELSE Screen!MayMoveChild("ADMIN", server.status, to, TRUE)
                  /\ server' = Screen!Moved(server, to)
      PROVE  ScreenOnward
  <2>1. CASE host = "report"
    <3>1. to = "ON_HOLD" => server.status # "ON_HOLD"
      BY <1>6, <2>1 DEF Screen!MayMove, ScreenServer
    <3> QED BY <1>1, <1>6, <2>1, <3>1, ServerMovedOn
  <2>2. CASE host # "report"
    <3>1. host = "child" /\ server.status \in Screen!ChildStatus
      BY <2>2 DEF ScreenServer
    <3>2. to \in Screen!ChildStatus \ {"DRAFT"}
      BY <1>6, <2>2, <3>1, ChildReportMoves DEF Screen!MayMoveChild
    <3> QED BY <1>1, <1>6, <2>2, <3>1, <3>2, ServerMovedOn DEF Screen!ChildStatus
  <2> QED BY <2>1, <2>2
<1> QED BY <1>3, <1>4, <1>5, <1>6 DEF Screen!OthersAct

(* What the screen offers of a row that is the server's, it accepts.       *)
LEMMA HoldOrCloseIs ==
    ASSUME NEW c \in Screen!HoldOrClose
    PROVE  /\ user \in {"ADMIN", "SUPERVISOR"} /\ c.from = shown.row.status
           /\ (c.to = "ON_HOLD" /\ c.reason = TRUE) \/ (c.to = "CLOSED" /\ c.reason = FALSE)
<1>1. user \in Screen!AdminLike /\ c \in Screen!Hold \cup {Screen!Choice("CLOSED", FALSE)}
  BY DEF Screen!HoldOrClose, Screen!Roles
<1>2. c = Screen!Choice("ON_HOLD", TRUE) \/ c = Screen!Choice("CLOSED", FALSE)
  BY <1>1 DEF Screen!Hold
<1> QED BY <1>1, <1>2 DEF Screen!Choice, Screen!AdminLike

LEMMA ForwardIs ==
    ASSUME NEW admits, NEW to, NEW c \in Screen!Forward(admits, to)
    PROVE  \/ user \in admits \cup {"ADMIN", "SUPERVISOR"} /\ c = Screen!Choice(to, FALSE)
           \/ c \in Screen!HoldOrClose
BY DEF Screen!Forward, Screen!Roles, Screen!AdminLike

LEMMA ReportChoicesAccepted ==
    ASSUME NEW status \in Screen!ReportStatus, NEW previous, NEW c \in Screen!ReportChoices(status, previous)
    PROVE  /\ status # "ON_HOLD" \/ c.to = "CLOSED" =>
                 /\ c.to \in Screen!InspectionTransitions(user, status)
                 /\ Screen!ReasonRequiredForInspection(status, c.to) => c.reason
           /\ status = "ON_HOLD" =>
                 /\ user \in Screen!AdminLike /\ c.from = shown.row.status
                 /\ c.to = "CLOSED" \/ previous = "NONE" \/ c.to = previous
<1>1. status \in Screen!ReportStatus
  OBVIOUS
<1>2. ASSUME NEW to, NEW admits, c \in Screen!Forward(admits, to)
      PROVE  \/ /\ user \in admits \cup {"ADMIN", "SUPERVISOR"} /\ c.to = to /\ c.reason = FALSE
             \/ c \in Screen!HoldOrClose
  BY <1>2, ForwardIs DEF Screen!Choice
<1>3. c \in Screen!HoldOrClose =>
         /\ user \in {"ADMIN", "SUPERVISOR"}
         /\ (c.to = "ON_HOLD" /\ c.reason = TRUE) \/ (c.to = "CLOSED" /\ c.reason = FALSE)
  BY HoldOrCloseIs
<1>4. CASE status = "DRAFT"
  <2>1. c \in Screen!Forward({"RECEIVER"}, "RECEIVED")
    BY <1>4 DEF Screen!ReportChoices
  <2> QED BY <1>2, <1>3, <1>4, <2>1 DEF Screen!InspectionTransitions, Screen!AdminInspectionTransitions,
            Screen!ReasonRequiredForInspection
<1>5. CASE status = "RECEIVED"
  <2>1. c \in Screen!Forward({"RECEIVER"}, "READY_FOR_CLEANING")
    BY <1>5 DEF Screen!ReportChoices
  <2> QED BY <1>2, <1>3, <1>5, <2>1 DEF Screen!InspectionTransitions, Screen!AdminInspectionTransitions,
            Screen!ReasonRequiredForInspection
<1>6. CASE status = "READY_FOR_CLEANING"
  <2>1. c \in Screen!Forward({"RECEIVER"}, "READY_FOR_INSPECTION")
    BY <1>6 DEF Screen!ReportChoices
  <2> QED BY <1>2, <1>3, <1>6, <2>1 DEF Screen!InspectionTransitions, Screen!AdminInspectionTransitions,
            Screen!ReasonRequiredForInspection
<1>7. CASE status = "READY_FOR_INSPECTION"
  <2>1. c \in Screen!Forward({"INSPECTOR"}, "IN_INSPECTION")
    BY <1>7 DEF Screen!ReportChoices
  <2> QED BY <1>2, <1>3, <1>7, <2>1 DEF Screen!InspectionTransitions, Screen!AdminInspectionTransitions,
            Screen!ReasonRequiredForInspection
<1>8. CASE status = "IN_INSPECTION"
  <2>1. c \in Screen!Roles({"INSPECTOR"}, Screen!Hold) \/ c \in Screen!HoldOrClose
    BY <1>8 DEF Screen!ReportChoices
  <2>2. c \in Screen!Roles({"INSPECTOR"}, Screen!Hold) =>
           user = "INSPECTOR" /\ c.to = "ON_HOLD" /\ c.reason = TRUE
    BY DEF Screen!Choice, Screen!Roles, Screen!Hold
  <2> QED BY <1>3, <1>8, <2>1, <2>2 DEF Screen!InspectionTransitions, Screen!AdminInspectionTransitions,
            Screen!ReasonRequiredForInspection
<1>9. CASE status = "PENDING_APPROVAL"
  <2>1. \/ c \in Screen!Roles(Screen!AdminLike, {Screen!Choice("APPROVED", FALSE), Screen!Choice("IN_INSPECTION", TRUE)})
        \/ c \in Screen!HoldOrClose
    BY <1>9 DEF Screen!ReportChoices
  <2>2. c \in Screen!Roles(Screen!AdminLike, {Screen!Choice("APPROVED", FALSE), Screen!Choice("IN_INSPECTION", TRUE)}) =>
           user \in {"ADMIN", "SUPERVISOR"} /\ c.to \in {"APPROVED", "IN_INSPECTION"}
    BY DEF Screen!Choice, Screen!Roles, Screen!AdminLike
  <2> QED BY <1>3, <1>9, <2>1, <2>2 DEF Screen!InspectionTransitions, Screen!AdminInspectionTransitions,
            Screen!ReasonRequiredForInspection
<1>10. CASE status = "APPROVED"
  <2>1. \/ c \in Screen!Roles(Screen!AdminLike, {Screen!Choice("IN_INSPECTION", TRUE)})
        \/ c \in Screen!HoldOrClose
    BY <1>10 DEF Screen!ReportChoices
  <2>2. c \in Screen!Roles(Screen!AdminLike, {Screen!Choice("IN_INSPECTION", TRUE)}) =>
           user \in {"ADMIN", "SUPERVISOR"} /\ c.to = "IN_INSPECTION" /\ c.reason = TRUE
    BY DEF Screen!Choice, Screen!Roles, Screen!AdminLike
  <2> QED BY <1>3, <1>10, <2>1, <2>2 DEF Screen!InspectionTransitions, Screen!AdminInspectionTransitions,
            Screen!ReasonRequiredForInspection
<1>11. CASE status = "CLOSED"
  <2>1. c \in Screen!Roles(Screen!AdminLike, {Screen!Choice("APPROVED", TRUE), Screen!Choice("IN_INSPECTION", TRUE)})
    BY <1>11 DEF Screen!ReportChoices
  <2>2. user \in {"ADMIN", "SUPERVISOR"} /\ c.to \in {"APPROVED", "IN_INSPECTION"} /\ c.reason = TRUE
    BY <2>1 DEF Screen!Choice, Screen!Roles, Screen!AdminLike
  <2> QED BY <1>11, <2>1, <2>2 DEF Screen!InspectionTransitions, Screen!AdminInspectionTransitions,
            Screen!ReasonRequiredForInspection
<1>12. CASE status = "ON_HOLD"
  <2>1. PICK to : to = IF previous = "NONE" THEN "DRAFT" ELSE previous
    OBVIOUS
  <2>2. c \in Screen!Roles(Screen!AdminLike, {Screen!Choice(to, FALSE), Screen!Choice("CLOSED", FALSE)})
    BY <1>12, <2>1, KnownStatuses DEF Screen!ReportChoices
  <2>3. /\ user \in Screen!AdminLike /\ c.from = shown.row.status
        /\ c.to = to \/ c.to = "CLOSED"
    BY <2>2 DEF Screen!Choice, Screen!Roles
  <2>4. user \in {"ADMIN", "SUPERVISOR"}
    BY <2>3 DEF Screen!AdminLike
  <2> QED BY <1>12, <2>1, <2>3, <2>4 DEF Screen!InspectionTransitions, Screen!AdminInspectionTransitions,
            Screen!ReasonRequiredForInspection
<1> QED BY <1>4, <1>5, <1>6, <1>7, <1>8, <1>9, <1>10, <1>11, <1>12 DEF Screen!ReportStatus

(* A child report's choices, and what is chosen of them.                   *)
LEMMA ChildChoicesAre ==
    ASSUME NEW status, NEW c \in Screen!ChildChoices(status), shown.row.status = status
    PROVE  /\ <<c.from, c.to, c.reason>> \in ChildMoves /\ c.from = status
           /\ c \in ScreenChoice
           /\ c.to \in Screen!ChildTransitions(user, status)
           /\ Screen!ReasonRequiredForChild(status, c.to) => c.reason
<1>1. \/ /\ status = "DRAFT" /\ user \in {"INSPECTOR", "ADMIN", "SUPERVISOR"}
         /\ c = Screen!Choice("IN_INSPECTION", FALSE)
      \/ /\ status = "IN_INSPECTION" /\ user \in {"INSPECTOR", "ADMIN", "SUPERVISOR"}
         /\ c = Screen!Choice("PENDING_APPROVAL", FALSE)
      \/ /\ status = "PENDING_APPROVAL" /\ user \in {"ADMIN", "SUPERVISOR"}
         /\ c = Screen!Choice("APPROVED", FALSE)
      \/ /\ status = "APPROVED" /\ user \in {"ADMIN", "SUPERVISOR"}
         /\ c = Screen!Choice("CLOSED", FALSE) \/ c = Screen!Choice("IN_INSPECTION", TRUE)
  BY DEF Screen!ChildChoices, Screen!Roles, Screen!AdminLike
<1>2. \E to \in Screen!ChildStatus, reason \in BOOLEAN :
         c = Screen!Choice(to, reason) /\ <<status, to, reason>> \in ChildMoves
  BY <1>1 DEF Screen!ChildStatus, ChildMoves
<1>3. PICK to \in Screen!ChildStatus, reason \in BOOLEAN :
         c = [to |-> to, reason |-> reason, from |-> status] /\ <<status, to, reason>> \in ChildMoves
  BY <1>2 DEF Screen!Choice
<1>6. status \in KnownStatus
  BY <1>1 DEF KnownStatus, Screen!ReportStatus
<1>7. c \in ScreenChoice /\ <<c.from, c.to, c.reason>> \in ChildMoves /\ c.from = status
  BY <1>3, <1>6, KnownStatuses DEF ScreenChoice
<1>4. c.to \in Screen!ChildTransitions(user, status)
  BY <1>1 DEF Screen!Choice, Screen!ChildTransitions, Screen!AdminChildTransitions
<1>5. Screen!ReasonRequiredForChild(status, c.to) => c.reason
  BY <1>1 DEF Screen!Choice, Screen!ReasonRequiredForChild
<1> QED BY <1>4, <1>5, <1>7

LEMMA OffersAreAccepted ==
    ASSUME ScreenServer, ScreenRows
    PROVE  Screen!OfferedIsAccepted
<1> SUFFICES ASSUME Screen!IsCurrent, NEW c \in Screen!Offered,
                    ~(Screen!Released(c) /\ (server.heldFrom = Screen!NoStatus
                                             \/ shown.previous # server.logFrom))
             PROVE  IF host = "report" THEN Screen!MayMove(user, server.status, c.to, c.reason)
                    ELSE Screen!MayMoveChild(user, server.status, c.to, c.reason)
  BY DEF Screen!OfferedIsAccepted
<1>1. /\ shown.row.sync = "SYNCED" /\ shown.row.status = server.status
      /\ server.status \in Screen!ReportStatus
  BY KnownStatuses DEF Screen!IsCurrent, ScreenServer, ReportOnServer, ScreenRows
<1>2. ~(shown.row.sync = "CONFLICT" \/ shown.row.status = Screen!NoStatus)
  BY <1>1, KnownStatuses
<1>3. CASE host = "report"
  <2>1. c \in Screen!ReportChoices(server.status, shown.previous)
    BY <1>1, <1>2, <1>3 DEF Screen!Offered
  <2>2. CASE server.status # "ON_HOLD" \/ c.to = "CLOSED"
    BY <1>1, <1>3, <2>1, <2>2, ReportChoicesAccepted DEF Screen!MayMove
  <2>3. CASE server.status = "ON_HOLD" /\ c.to # "CLOSED"
    <3>1. /\ user \in Screen!AdminLike /\ c.from = shown.row.status
          /\ shown.previous = "NONE" \/ c.to = shown.previous
      BY <1>1, <2>1, <2>3, ReportChoicesAccepted
    <3>2. server.heldFrom # "NONE" /\ shown.previous = server.logFrom
      BY <1>1, <2>3, <3>1, KnownStatuses DEF Screen!Released
    <3>3. c.to = server.heldFrom
      BY <3>1, <3>2 DEF ScreenServer
    <3>4. c.to # "ON_HOLD"
      BY <3>3 DEF ScreenServer
    <3> QED BY <1>3, <2>3, <3>1, <3>2, <3>3, <3>4, KnownStatuses
           DEF Screen!MayMove, Screen!ReasonRequiredForInspection
  <2> QED BY <2>2, <2>3
<1>4. CASE host # "report"
  <2>1. host = "child"
    BY <1>4 DEF ScreenServer
  <2>2. c \in Screen!ChildChoices(server.status)
    BY <1>1, <1>2, <1>4 DEF Screen!Offered
  <2> QED BY <1>1, <1>4, <2>2, ChildChoicesAre DEF Screen!MayMoveChild
<1> QED BY <1>3, <1>4

(* What can be selected.                                                   *)
LEMMA SelectableIs ==
    ASSUME ScreenServer, ScreenRows, NEW c \in Screen!Offered
    PROVE  c \in ScreenChoice /\ IsOffered(c)
<1> DEFINE choices == {Screen!Choice(to, reason) : to \in KnownStatus, reason \in BOOLEAN}
<1>1. /\ shown.row.status \in Screen!ReportStatus \cup {"NONE"} /\ shown.previous \in KnownStatus
      /\ shown.row.status \in KnownStatus
  BY DEF ScreenRows, ReportView, ReportRow, KnownStatus
<1>2. choices \subseteq ScreenChoice
  BY <1>1 DEF Screen!Choice, ScreenChoice
<1>3. ~(shown.row.sync = "CONFLICT" \/ shown.row.status = Screen!NoStatus)
  BY DEF Screen!Offered
<1>4. CASE host = "report"
  <2>1. c \in Screen!ReportChoices(shown.row.status, shown.previous)
    BY <1>3, <1>4 DEF Screen!Offered
  <2>2. shown.row.status \in Screen!ReportStatus
    BY <1>1, <1>3, KnownStatuses
  <2>3. \A to, reason : to \in KnownStatus /\ reason \in BOOLEAN => Screen!Choice(to, reason) \in choices
    OBVIOUS
  <2> HIDE DEF choices
  <2>4. {"RECEIVED", "READY_FOR_CLEANING", "READY_FOR_INSPECTION", "IN_INSPECTION", "APPROVED",
         "ON_HOLD", "CLOSED", "DRAFT"} \subseteq KnownStatus
    BY DEF KnownStatus, Screen!ReportStatus
  <2>5. Screen!Hold \subseteq choices /\ Screen!HoldOrClose \subseteq choices
    BY <2>3, <2>4 DEF Screen!Hold, Screen!HoldOrClose, Screen!Roles
  <2>6. \A admits, to : to \in KnownStatus => Screen!Forward(admits, to) \subseteq choices
    BY <2>3, <2>5 DEF Screen!Forward, Screen!Roles
  <2>7. \A admits, cs : cs \subseteq choices => Screen!Roles(admits, cs) \subseteq choices
    BY DEF Screen!Roles
  <2>8. /\ {Screen!Choice("APPROVED", FALSE), Screen!Choice("IN_INSPECTION", TRUE)} \subseteq choices
        /\ {Screen!Choice("IN_INSPECTION", TRUE)} \subseteq choices
        /\ {Screen!Choice("APPROVED", TRUE), Screen!Choice("IN_INSPECTION", TRUE)} \subseteq choices
    BY <2>3, <2>4
  <2>9. PICK to : to = IF shown.previous = Screen!NoStatus THEN "DRAFT" ELSE shown.previous
    OBVIOUS
  <2>10. {Screen!Choice(to, FALSE), Screen!Choice("CLOSED", FALSE)} \subseteq choices
    BY <1>1, <2>3, <2>4, <2>9
  <2>11. Screen!ReportChoices(shown.row.status, shown.previous) \subseteq choices
    BY <2>2, <2>4, <2>5, <2>6, <2>7, <2>8, <2>9, <2>10 DEF Screen!ReportChoices, Screen!ReportStatus
  <2>12. c \in choices
    BY <2>1, <2>11
  <2> QED BY <1>2, <1>4, <2>12 DEF IsOffered
<1>5. CASE host # "report"
  <2>1. c \in Screen!ChildChoices(shown.row.status)
    BY <1>3, <1>5 DEF Screen!Offered
  <2> QED BY <2>1, ChildChoicesAre DEF IsOffered
<1> QED BY <1>4, <1>5

----------------------------------------------------------------------------
(* The screen of a report: what stays as the server moves on.              *)

LEMMA FaithfulOnward ==
    ASSUME ScreenServer, ScreenOnward, NEW status, NEW version \in Nat, IsFaithful(status, version)
    PROVE  IsFaithful(status, version)'
BY DEF ScreenServer, ScreenOnward, ReportOnServer, IsFaithful

LEMMA RowFaithfulOnward ==
    ASSUME ScreenServer, ScreenOnward, NEW row \in ReportRow, RowFaithful(row)
    PROVE  RowFaithful(row)'
<1>1. row.version \in Nat
  BY DEF ReportRow
<1>2. PICK status : status = row.status
  OBVIOUS
<1>3. PICK version \in Nat : version = row.version
  BY <1>1
<1> QED BY <1>2, <1>3, FaithfulOnward DEF RowFaithful

LEMMA MoveFaithfulOnward ==
    ASSUME ScreenServer, ScreenOnward, NEW r, r.version \in Nat, MoveFaithful(r)
    PROVE  MoveFaithful(r)'
<1>1. PICK status : status = r.from
  OBVIOUS
<1>2. PICK version \in Nat : version = r.version
  OBVIOUS
<1> QED BY <1>1, <1>2, FaithfulOnward DEF MoveFaithful

LEMMA OfferedOnward ==
    ASSUME ScreenOnward, NEW c, IsOffered(c)
    PROVE  IsOffered(c)'
BY DEF ScreenOnward, IsOffered

LEMMA PlanOnward ==
    ASSUME ScreenServer, ScreenOnward, NEW r \in ScreenOperation, ScreenPlan(r)
    PROVE  ScreenPlan(r)'
<1>1. r.row \in ReportRow /\ r.version \in Nat
  BY DEF ScreenOperation
<1>2. PICK row, next : row = r.row /\ next = r.next
  BY <1>1
<1>3. RowFaithful(row)'
  BY <1>1, <1>2, RowFaithfulOnward DEF ScreenPlan
<1>4. IsOffered(next)'
  BY <1>2, OfferedOnward DEF ScreenPlan
<1>5. Plans(r.todo, {"post", "enqueue"}) => MoveFaithful(r)' /\ IsOffered(r)'
  BY <1>1, MoveFaithfulOnward, OfferedOnward DEF ScreenPlan
<1>6. host' = host
  BY DEF ScreenOnward
<1> QED BY <1>2, <1>3, <1>4, <1>5, <1>6 DEF ScreenPlan

LEMMA ScreenRowsStay ==
    ASSUME ScreenServer, ScreenOnward, ScreenRows, UNCHANGED <<cache, shown, holdLog, chosen>>
    PROVE  ScreenRows'
<1>1. PICK row, c : row = cache /\ c = chosen
  OBVIOUS
<1>2. row \in ReportRow /\ RowFaithful(row) /\ IsOffered(c)
  BY <1>1 DEF ScreenRows
<1>3. RowFaithful(row)' /\ IsOffered(c)'
  BY <1>2, RowFaithfulOnward, OfferedOnward
<1>4. cache' = row /\ chosen' = c
  BY <1>1
<1> QED BY <1>3, <1>4 DEF ScreenRows

LEMMA ScreenActStays ==
    ASSUME ScreenServer, ScreenOnward, ScreenAct, UNCHANGED act
    PROVE  ScreenAct'
<1>1. PICK r : r = act
  OBVIOUS
<1>2. r \in ScreenOperation /\ ScreenPlan(r)
  BY <1>1 DEF ScreenAct
<1>3. ScreenPlan(r)' /\ act' = r
  BY <1>1, <1>2, PlanOnward
<1> QED BY <1>2, <1>3 DEF ScreenAct

LEMMA ScreenQueueStays ==
    ASSUME ScreenServer, ScreenOnward, ScreenQueue, UNCHANGED queue
    PROVE  ScreenQueue'
<1>1. ASSUME NEW k \in DOMAIN queue
      PROVE  MoveFaithful(queue[k])' /\ IsOffered(queue[k])'
  <2>1. PICK r : r = queue[k]
    OBVIOUS
  <2>2. r \in ScreenRequest /\ MoveFaithful(r) /\ IsOffered(r)
    BY <2>1 DEF ScreenQueue
  <2>3. MoveFaithful(r)' /\ IsOffered(r)' /\ queue'[k] = r
    BY <2>1, <2>2, MoveFaithfulOnward, OfferedOnward DEF ScreenRequest
  <2> QED BY <2>3
<1> QED BY <1>1 DEF ScreenQueue, ScreenOnward

LEMMA ScreenRunningStays ==
    ASSUME ScreenServer, ScreenOnward, ScreenRunning, UNCHANGED <<queue, run>>
    PROVE  ScreenRunning'
<1>1. PICK row : row = run.row
  OBVIOUS
<1>2. row \in ReportRow /\ RowFaithful(row)
  BY <1>1 DEF ScreenRunning, ScreenRun
<1>3. RowFaithful(row)' /\ run'.row = row
  BY <1>1, <1>2, RowFaithfulOnward
<1> QED BY <1>3 DEF ScreenRunning

(* An operation goes on, or gives way to another.                          *)
LEMMA OwedActMoves ==
    ASSUME ScreenServer, ScreenOnward, ScreenAct, ScreenOwed, UNCHANGED <<cache, excused, queue, run>>,
           Plans(act.todo, {"enqueue"}) => Plans(act'.todo, {"enqueue"}),
           Publishes' => Publishes /\ act'.row = act.row
    PROVE  ScreenOwed'
<1>1. RowOwed'
  BY DEF ScreenOwed, RowOwed, Unanswered
<1>2. ASSUME Publishes'
      PROVE  Published(Len(queue))'
  <2>1. Published(Len(queue)) /\ act'.row = act.row
    BY <1>2 DEF ScreenOwed
  <2>2. act.row.version \in Nat /\ server.version \in Nat /\ server'.version \in Nat
        /\ server'.version >= server.version
    BY DEF ScreenAct, ScreenOperation, ReportRow, ScreenServer, ReportOnServer, ScreenOnward
  <2>3. PICK k : k = Len(queue)
    OBVIOUS
  <2>4. Published(k)'
    BY <2>1, <2>2, <2>3 DEF Published, Unanswered, Overtaken, IsLater
  <2> QED BY <2>3, <2>4
<1> QED BY <1>1, <1>2 DEF ScreenOwed

LEMMA ScreenActMoves ==
    ASSUME ScreenInvariant, ScreenOnward, ScreenRows', UNCHANGED <<cache, queue, run, excused>>,
           NEW r \in ScreenOperation, act' = r, ScreenPlan(r)',
           Plans(act.todo, {"enqueue"}) => Plans(r.todo, {"enqueue"}),
           r.op = "UPDATE_STATUS" /\ Plans(r.todo, {"put"}) /\ ~Plans(r.todo, {"enqueue"}) =>
               Publishes /\ r.row = act.row
    PROVE  ScreenInvariant'
<1>1. ScreenAct'
  BY DEF ScreenAct
<1>2. ScreenOwed'
  BY OwedActMoves DEF ScreenInvariant, Publishes
<1> QED BY <1>1, <1>2, ScreenQueueStays, ScreenRunningStays
       DEF ScreenInvariant, ScreenOnward

LEMMA ScreenRests ==
    ASSUME ScreenInvariant, UNCHANGED <<host, server, cache, shown, holdLog, chosen, queue, act, run, excused>>
    PROVE  ScreenInvariant'
<1>1. ScreenOnward
  BY ScreenServerRests DEF ScreenInvariant
<1>2. ScreenOwed'
  BY <1>1, OwedActMoves DEF ScreenInvariant, Publishes
<1> QED BY <1>1, <1>2, ScreenRowsStay, ScreenActStays, ScreenQueueStays, ScreenRunningStays
       DEF ScreenInvariant, ScreenOnward

----------------------------------------------------------------------------
(* The screen of a report: the steps of an operation.                      *)

LEMMA NothingPlanned ==
    /\ Screen!NoOperation \in ScreenOperation /\ Screen!NoOperation.op = "none"
    /\ Screen!NoOperation.todo = <<>> /\ Screen!NoOperation.row = Screen!NoCopy
    /\ Screen!NoOperation.next = Screen!NoChoice
<1>1. PICK todo : todo = <<>>
  OBVIOUS
<1>2. todo \in Seq(ScreenStep)
  BY <1>1
<1>3. PICK row, next : row = Screen!NoCopy /\ next = Screen!NoChoice
  OBVIOUS
<1>4. row \in ReportRow /\ next \in ScreenChoice
  BY <1>3, NoReportCopy, NoScreenChoice
<1>5. Screen!NoOperation = Screen!Doing("none", row, next, todo)
  BY <1>1, <1>3 DEF Screen!NoOperation
<1>6. PICK r : r = Screen!Doing("none", row, next, todo)
  OBVIOUS
<1>7. r \in ScreenOperation /\ r.op = "none" /\ r.row = row /\ r.next = next /\ r.todo = todo
  BY <1>2, <1>4, <1>6, KnownStatuses DEF Screen!Doing, ScreenOperation
<1>8. Screen!NoOperation = r
  BY <1>5, <1>6
<1> QED BY <1>1, <1>3, <1>7, <1>8

LEMMA NothingPlannedKeeps ==
    ASSUME NEW r, r = Screen!NoOperation
    PROVE  ScreenPlan(r)
BY NothingPlanned, NoStepsLeft, NoReportCopy, NoScreenChoice DEF ScreenPlan, RowFaithful, IsOffered

(* An operation with less left to do.                                      *)
LEMMA LessIsLeft ==
    ASSUME ScreenAct, NEW todo \in Seq(ScreenStep), ScreenSteps(act.op, todo),
           \A steps : Plans(todo, steps) => Plans(act.todo, steps),
           NEW r, r = IF todo = <<>> THEN Screen!NoOperation
                      ELSE Screen!Going(act.row, act.version, act.from, todo)
    PROVE  /\ r \in ScreenOperation /\ ScreenPlan(r) /\ r.todo = todo
           /\ todo # <<>> => r.op = act.op /\ r.row = act.row /\ r.version = act.version
<1>1. CASE todo = <<>>
  BY <1>1, NothingPlanned, NothingPlannedKeeps
<1>2. CASE todo # <<>>
  <2>1. act \in ScreenOperation /\ act.row \in ReportRow /\ act.version \in Nat /\ act.from \in KnownStatus
    BY DEF ScreenAct, ScreenOperation
  <2>2. /\ r \in ScreenOperation
        /\ r.op = act.op /\ r.to = act.to /\ r.reason = act.reason /\ r.from = act.from
        /\ r.own = act.own /\ r.version = act.version /\ r.row = act.row /\ r.next = act.next
        /\ r.todo = todo
    BY <1>2, <2>1, GoingOperation
  <2>3. ScreenPlan(r)
    BY <2>2 DEF ScreenAct, ScreenPlan, MoveFaithful, IsOffered
  <2> QED BY <2>2, <2>3
<1> QED BY <1>1, <1>2

LEMMA ScreenGoesOn ==
    ASSUME ScreenInvariant, ScreenOnward, ScreenRows', UNCHANGED <<cache, queue, run, excused>>,
           NEW todo \in Seq(ScreenStep), ScreenSteps(act.op, todo), Screen!Goes(todo),
           \A steps : Plans(todo, steps) => Plans(act.todo, steps),
           Plans(act.todo, {"enqueue"}) => Plans(todo, {"enqueue"})
    PROVE  ScreenInvariant'
<1>1. PICK r : r = IF todo = <<>> THEN Screen!NoOperation
                   ELSE Screen!Going(act.row, act.version, act.from, todo)
  OBVIOUS
<1>2. act' = r
  BY <1>1 DEF Screen!Goes
<1>3. /\ r \in ScreenOperation /\ ScreenPlan(r) /\ r.todo = todo
      /\ todo # <<>> => r.op = act.op /\ r.row = act.row
  BY <1>1, LessIsLeft DEF ScreenInvariant
<1>4. ScreenPlan(r)'
  BY <1>3, PlanOnward DEF ScreenInvariant
<1>5. Plans(todo, {"put"}) => todo # <<>>
  BY NoStepsLeft
<1> QED BY <1>2, <1>3, <1>4, <1>5, ScreenActMoves DEF Publishes

LEMMA ScreenStopsHere ==
    ASSUME ScreenInvariant, ScreenOnward, ScreenRows', UNCHANGED <<cache, queue, run, excused>>,
           Screen!Goes(<<>>), ~Plans(act.todo, {"enqueue"})
    PROVE  ScreenInvariant'
<1>1. PICK todo : todo = <<>>
  OBVIOUS
<1>2. /\ todo \in Seq(ScreenStep) /\ ScreenSteps(act.op, todo) /\ Screen!Goes(todo)
      /\ \A steps : ~Plans(todo, steps)
  BY <1>1, NoStepsLeft
<1> QED BY <1>2, ScreenGoesOn

(* The step under way, and those after it.                                 *)
LEMMA StepUnderWay ==
    ASSUME ScreenAct, NEW step, Screen!Now(step)
    PROVE  /\ act.todo \in Seq(ScreenStep) /\ act.todo # <<>> /\ 1 \in DOMAIN act.todo
           /\ act.todo[1] = step /\ Head(act.todo) = step /\ Follows(act.op, act.todo, 1)
           /\ ScreenSteps(act.op, act.todo)
           /\ Screen!Rest \in Seq(ScreenStep) /\ ScreenSteps(act.op, Screen!Rest)
           /\ \A steps : Plans(Screen!Rest, steps) => Plans(act.todo, steps)
           /\ \A steps : Plans(act.todo, steps) => step \in steps \/ Plans(Screen!Rest, steps)
           /\ ~Plans(Screen!Rest, {"store"})
<1>1. act.todo \in Seq(ScreenStep) /\ ScreenSteps(act.op, act.todo)
  BY DEF ScreenAct, ScreenOperation, ScreenPlan
<1>2. act.todo # <<>> /\ Head(act.todo) = step
  BY DEF Screen!Now
<1> QED BY <1>1, <1>2, RestOfSteps DEF Screen!Rest, ScreenSteps

LEMMA RestGoesOn ==
    ASSUME ScreenInvariant, ScreenOnward, ScreenRows', UNCHANGED <<cache, queue, run, excused>>,
           NEW step, step # "enqueue", Screen!Now(step), Screen!Goes(Screen!Rest)
    PROVE  ScreenInvariant'
<1>1. ScreenAct
  BY DEF ScreenInvariant
<1>2. PICK todo : todo = Screen!Rest
  OBVIOUS
<1>3. /\ todo \in Seq(ScreenStep) /\ ScreenSteps(act.op, todo) /\ Screen!Goes(todo)
      /\ \A steps : Plans(todo, steps) => Plans(act.todo, steps)
      /\ Plans(act.todo, {"enqueue"}) => Plans(todo, {"enqueue"})
  BY <1>1, <1>2, StepUnderWay
<1> QED BY <1>3, ScreenGoesOn

(* An operation that begins.                                               *)
LEMMA BegunOperation ==
    ASSUME ScreenServer, ScreenRows, Screen!IsCached,
           NEW op \in ScreenOp \ {"DELETE"},
           op \in {"UPDATE_STATUS", "OPEN", "ATTACH"} => host = "report",
           op = "ATTACH" => connected,
           NEW choice \in ScreenChoice, IsOffered(choice), NEW next \in ScreenChoice, IsOffered(next),
           NEW r, r = Screen!Begun(op, choice, next)
    PROVE  /\ r \in ScreenOperation /\ ScreenPlan(r)
           /\ Plans(r.todo, {"put"}) => Plans(r.todo, {"enqueue"})
<1>1. PICK todo : todo = CASE op = "OPEN" -> <<"see", "write", "getLogs", "putLogs">>
                           [] op # "OPEN" /\ connected -> <<"post">>
                           [] OTHER -> Screen!Locally(op, next)
  OBVIOUS
<1>2. /\ todo \in Seq(ScreenStep) /\ ScreenSteps(op, todo) /\ ~Plans(todo, {"store"})
      /\ Plans(todo, {"put"}) => Plans(todo, {"enqueue"})
  <2>1. CASE op = "OPEN"
    <3>1. todo = <<"see", "write", "getLogs", "putLogs">>
      BY <1>1, <2>1
    <3>2. /\ todo \in Seq(ScreenStep) /\ ScreenSteps(op, todo) /\ ~Plans(todo, {"store"})
          /\ ~Plans(todo, {"post", "enqueue", "put"})
      BY <2>1, <3>1, OpeningSteps
    <3> QED BY <3>2 DEF Plans
  <2>2. CASE op # "OPEN" /\ connected
    <3>1. todo = <<"post">>
      BY <1>1, <2>2
    <3> QED BY <2>2, <3>1, PostingSteps
  <2>3. CASE op # "OPEN" /\ ~connected
    <3>1. todo = Screen!Locally(op, next)
      BY <1>1, <2>3
    <3>2. op \in Queueing /\ host \in {"report", "child"}
      BY <2>3 DEF ScreenOp, ScreenServer
    <3> QED BY <3>1, <3>2, LocallySteps
  <2> QED BY <2>1, <2>2, <2>3
<1>3. PICK own \in BOOLEAN : own <=> (choice.from # cache.status \/ cache.sync # "SYNCED")
  OBVIOUS
<1>4. r = [op |-> op, to |-> choice.to, reason |-> choice.reason, from |-> choice.from,
           own |-> choice.from # cache.status \/ cache.sync # "SYNCED",
           version |-> cache.version, row |-> cache, next |-> next, todo |-> todo]
  BY <1>1, Zenon DEF Screen!Begun
<1>5. r = [op |-> op, to |-> choice.to, reason |-> choice.reason, from |-> choice.from,
           own |-> own, version |-> cache.version, row |-> cache, next |-> next, todo |-> todo]
  BY <1>3, <1>4
<1>6. /\ cache \in ReportRow /\ cache.version \in Nat /\ cache.status # "GONE" /\ RowFaithful(cache)
      /\ cache.status # "NONE"
  BY KnownStatuses DEF ScreenRows, ReportRow, Screen!IsCached
<1>7. /\ r \in ScreenOperation
      /\ r.op = op /\ r.to = choice.to /\ r.reason = choice.reason /\ r.from = choice.from
      /\ r.own = own /\ r.version = cache.version /\ r.row = cache /\ r.next = next /\ r.todo = todo
  BY <1>2, <1>5, <1>6 DEF ScreenOperation, ScreenChoice
<1>8. MoveFaithful(r)
  BY <1>3, <1>6, <1>7 DEF MoveFaithful, RowFaithful
<1>9. IsOffered(r)
  BY <1>7 DEF IsOffered
<1> QED BY <1>2, <1>6, <1>7, <1>8, <1>9 DEF ScreenPlan

LEMMA StartsScreen ==
    ASSUME ScreenInvariant, NEW op \in ScreenOp \ {"DELETE"},
           op \in {"UPDATE_STATUS", "OPEN", "ATTACH"} => host = "report",
           op = "ATTACH" => connected,
           NEW choice \in ScreenChoice, IsOffered(choice), NEW next \in ScreenChoice, IsOffered(next),
           Screen!IsCached, act' = Screen!Begun(op, choice, next), ~Plans(act.todo, {"enqueue"}),
           UNCHANGED <<host, server, cache, shown, holdLog, chosen, queue, run, excused>>
    PROVE  ScreenInvariant'
<1>1. ScreenOnward /\ ScreenRows'
  BY ScreenServerRests, ScreenRowsStay DEF ScreenInvariant
<1>2. PICK r : r = Screen!Begun(op, choice, next)
  OBVIOUS
<1>3. /\ r \in ScreenOperation /\ ScreenPlan(r)
      /\ Plans(r.todo, {"put"}) => Plans(r.todo, {"enqueue"})
  BY <1>2, BegunOperation DEF ScreenInvariant
<1>4. ScreenPlan(r)'
  BY <1>1, <1>3, PlanOnward DEF ScreenInvariant
<1>5. act' = r
  BY <1>2
<1> QED BY <1>1, <1>3, <1>4, <1>5, ScreenActMoves

(* The operations of a screen that begin with its row.                     *)
LEMMA ScreenStartKeeps ==
    ASSUME ScreenInvariant, NEW op \in ScreenOp \ {"DELETE"},
           op \in {"UPDATE_STATUS", "OPEN", "ATTACH"} => host = "report",
           op = "ATTACH" => connected,
           NEW choice \in ScreenChoice, IsOffered(choice), NEW next \in ScreenChoice, IsOffered(next),
           Screen!Start(op, choice, next)
    PROVE  ScreenInvariant'
<1>1. /\ act.todo = <<>> /\ Screen!IsCached /\ act' = Screen!Begun(op, choice, next)
      /\ UNCHANGED <<host, server, cache, shown, holdLog, chosen, queue, run, excused>>
  BY DEF Screen!Start, Screen!fixed
<1>2. ~Plans(act.todo, {"enqueue"})
  BY <1>1, NoStepsLeft
<1> QED BY <1>1, <1>2, StartsScreen

LEMMA ScreenBegunKeeps ==
    ASSUME ScreenInvariant,
           \/ Screen!Open \/ Screen!Confirm \/ Screen!ConfirmChild \/ Screen!SaveHeader
           \/ Screen!SaveNotes \/ Screen!Publish \/ Screen!Attach
    PROVE  ScreenInvariant'
<1>1. PICK none, c : none = Screen!NoChoice /\ c = chosen
  OBVIOUS
<1>2. /\ none \in ScreenChoice /\ IsOffered(none) /\ c \in ScreenChoice /\ IsOffered(c)
  BY <1>1, NoScreenChoice DEF ScreenInvariant, ScreenRows, IsOffered
<1>3. CASE Screen!Open
  <2>1. Screen!Start("OPEN", none, none) /\ host = "report"
    BY <1>1, <1>3 DEF Screen!Open
  <2> QED BY <1>2, <2>1, ScreenStartKeeps DEF ScreenOp
<1>4. CASE Screen!Confirm
  <2>1. Screen!Start("TRANSITION", c, none)
    BY <1>1, <1>4 DEF Screen!Confirm
  <2> QED BY <1>2, <2>1, ScreenStartKeeps DEF ScreenOp, Queueing
<1>5. CASE Screen!ConfirmChild
  <2>1. Screen!Start("TRANSITION", c, none) \/ Screen!Start("UPDATE", none, c)
    BY <1>1, <1>5 DEF Screen!ConfirmChild
  <2> QED BY <1>2, <2>1, ScreenStartKeeps DEF ScreenOp, Queueing
<1>6. CASE Screen!SaveHeader \/ Screen!SaveNotes
  <2>1. Screen!Start("UPDATE", none, none)
    BY <1>1, <1>6 DEF Screen!SaveHeader, Screen!SaveNotes
  <2> QED BY <1>2, <2>1, ScreenStartKeeps DEF ScreenOp, Queueing
<1>7. CASE Screen!Publish
  <2>1. Screen!Start("UPDATE_STATUS", none, none) /\ host = "report"
    BY <1>1, <1>7 DEF Screen!Publish
  <2> QED BY <1>2, <2>1, ScreenStartKeeps DEF ScreenOp, Queueing
<1>8. CASE Screen!Attach
  <2>1. Screen!Start("ATTACH", none, none) /\ host = "report" /\ connected
    BY <1>1, <1>8 DEF Screen!Attach
  <2> QED BY <1>2, <2>1, ScreenStartKeeps DEF ScreenOp, Queueing
<1> QED BY <1>3, <1>4, <1>5, <1>6, <1>7, <1>8

(* A deletion begins with nothing read.                                    *)
LEMMA BeginDeletionKeeps ==
    ASSUME ScreenInvariant, Screen!BeginDeletion
    PROVE  ScreenInvariant'
<1>1. /\ act.todo = <<>> /\ host = "report"
      /\ act' = Screen!Doing("DELETE", Screen!NoCopy, Screen!NoChoice, <<"impact", "post">>)
      /\ UNCHANGED <<host, server, cache, shown, holdLog, chosen, queue, run, excused>>
  BY DEF Screen!BeginDeletion, Screen!fixed
<1>2. ScreenOnward /\ ScreenRows'
  BY <1>1, ScreenServerRests, ScreenRowsStay DEF ScreenInvariant
<1>3. PICK todo, row, next : todo = <<"impact", "post">> /\ row = Screen!NoCopy /\ next = Screen!NoChoice
  OBVIOUS
<1>4. /\ todo \in Seq(ScreenStep) /\ ScreenSteps("DELETE", todo)
      /\ ~Plans(todo, {"store"}) /\ ~Plans(todo, {"enqueue"})
  BY <1>3, DeletingSteps
<1>5. /\ row \in ReportRow /\ row.status = "NONE" /\ next \in ScreenChoice /\ next.to = "NONE"
  BY <1>3, NoReportCopy, NoScreenChoice
<1>6. PICK r : r = Screen!Doing("DELETE", row, next, todo)
  OBVIOUS
<1>7. /\ r \in ScreenOperation
      /\ r.op = "DELETE" /\ r.to = "NONE" /\ r.row = row /\ r.next = next /\ r.todo = todo
  BY <1>4, <1>5, <1>6, KnownStatuses DEF Screen!Doing, ScreenOperation, ScreenOp
<1>8. ScreenPlan(r)
  BY <1>1, <1>4, <1>5, <1>7 DEF ScreenPlan, MoveFaithful, IsOffered, RowFaithful
<1>9. ScreenPlan(r)' /\ act' = r
  <2>1. ScreenPlan(r)'
    BY <1>2, <1>7, <1>8, PlanOnward DEF ScreenInvariant
  <2> QED BY <1>1, <1>3, <1>6, <2>1
<1>10. ~Plans(act.todo, {"enqueue"})
  BY <1>1, NoStepsLeft
<1> QED BY <1>1, <1>2, <1>7, <1>9, <1>10, ScreenActMoves

(* The steps that change the screen, or only what is left to do.           *)
LEMMA ShowKeeps ==
    ASSUME ScreenInvariant, Screen!Show
    PROVE  ScreenInvariant'
<1>1. /\ shown' = Screen!View(cache, IF cache.status = "ON_HOLD" THEN holdLog ELSE Screen!NoStatus)
      /\ UNCHANGED <<host, server, cache, holdLog, chosen, queue, act, run, excused>>
  BY DEF Screen!Show, Screen!fixed
<1>2. ScreenOnward
  BY <1>1, ScreenServerRests DEF ScreenInvariant
<1>3. shown' \in ReportView /\ shown'.row = cache
  BY <1>1, KnownStatuses DEF Screen!View, ReportView, ScreenInvariant, ScreenRows
<1>4. PICK r, c : r = cache /\ c = chosen
  OBVIOUS
<1>5. RowFaithful(r)' /\ IsOffered(c)'
  BY <1>2, <1>4, RowFaithfulOnward, OfferedOnward DEF ScreenInvariant, ScreenRows
<1>6. ScreenRows'
  BY <1>1, <1>3, <1>4, <1>5 DEF ScreenInvariant, ScreenRows
<1>7. ScreenOwed'
  BY <1>1, <1>2, OwedActMoves DEF ScreenInvariant, Publishes
<1> QED BY <1>1, <1>2, <1>6, <1>7, ScreenActStays, ScreenQueueStays, ScreenRunningStays
       DEF ScreenInvariant, ScreenOnward

LEMMA ChosenKeeps ==
    ASSUME ScreenInvariant, NEW c \in ScreenChoice, IsOffered(c), chosen' = c, ScreenOnward,
           UNCHANGED <<cache, shown, holdLog>>
    PROVE  ScreenRows'
<1>1. PICK r : r = cache
  OBVIOUS
<1>2. RowFaithful(r)' /\ IsOffered(c)'
  BY <1>1, RowFaithfulOnward, OfferedOnward DEF ScreenInvariant, ScreenRows
<1> QED BY <1>1, <1>2 DEF ScreenInvariant, ScreenRows

LEMMA SelectKeeps ==
    ASSUME ScreenInvariant, Screen!Select
    PROVE  ScreenInvariant'
<1>1. /\ chosen' \in Screen!Offered
      /\ UNCHANGED <<host, server, cache, shown, holdLog, queue, act, run, excused>>
  BY DEF Screen!Select, Screen!fixed
<1>2. ScreenOnward
  BY <1>1, ScreenServerRests DEF ScreenInvariant
<1>3. PICK c \in Screen!Offered : chosen' = c
  BY <1>1
<1>4. c \in ScreenChoice /\ IsOffered(c)
  BY <1>3, SelectableIs DEF ScreenInvariant
<1>5. ScreenRows'
  BY <1>1, <1>2, <1>3, <1>4, ChosenKeeps
<1>6. ScreenOwed'
  BY <1>1, <1>2, OwedActMoves DEF ScreenInvariant, Publishes
<1> QED BY <1>1, <1>2, <1>5, <1>6, ScreenActStays, ScreenQueueStays, ScreenRunningStays
       DEF ScreenInvariant, ScreenOnward

LEMMA ForgetKeeps ==
    ASSUME ScreenInvariant, Screen!Forget
    PROVE  ScreenInvariant'
<1>1. /\ Screen!Now("forget") /\ Screen!Goes(Screen!Rest) /\ chosen' = Screen!NoChoice
      /\ UNCHANGED <<host, server, cache, shown, holdLog, queue, run, excused>>
  BY DEF Screen!Forget, Screen!fixed
<1>2. ScreenOnward
  BY <1>1, ScreenServerRests DEF ScreenInvariant
<1>3. PICK c : c = Screen!NoChoice
  OBVIOUS
<1>4. ScreenRows'
  <2>1. c \in ScreenChoice /\ IsOffered(c) /\ chosen' = c
    BY <1>1, <1>3, NoScreenChoice DEF IsOffered
  <2> QED BY <1>1, <1>2, <2>1, ChosenKeeps
<1> QED BY <1>1, <1>2, <1>4, RestGoesOn

LEMMA LogsKeep ==
    ASSUME ScreenInvariant, ScreenOnward, holdLog' \in KnownStatus, UNCHANGED <<cache, shown, chosen>>
    PROVE  ScreenRows'
<1>1. PICK r, c : r = cache /\ c = chosen
  OBVIOUS
<1>2. RowFaithful(r)' /\ IsOffered(c)'
  BY <1>1, RowFaithfulOnward, OfferedOnward DEF ScreenInvariant, ScreenRows
<1> QED BY <1>1, <1>2 DEF ScreenInvariant, ScreenRows

LEMMA LogLocallyKeeps ==
    ASSUME ScreenInvariant, Screen!LogLocally
    PROVE  ScreenInvariant'
<1>1. /\ Screen!Now("log") /\ Screen!Goes(Screen!Rest)
      /\ holdLog' = IF act.to = "ON_HOLD" THEN act.row.status ELSE holdLog
      /\ UNCHANGED <<host, server, cache, shown, chosen, queue, run, excused>>
  BY DEF Screen!LogLocally, Screen!fixed
<1>2. ScreenOnward
  BY <1>1, ScreenServerRests DEF ScreenInvariant
<1>3. act.row.status \in KnownStatus \cup {"GONE"}
  BY DEF ScreenInvariant, ScreenAct, ScreenOperation, ReportRow
<1>4. act.row.status # "GONE"
  <2>1. Follows(act.op, act.todo, 1) /\ act.todo[1] = "log"
    BY <1>1, StepUnderWay DEF ScreenInvariant
  <2>2. act.op # "DELETE"
    BY <2>1 DEF Follows
  <2> QED BY <2>2 DEF ScreenInvariant, ScreenAct, ScreenPlan
<1>5. ScreenRows'
  <2>1. holdLog' \in KnownStatus
    BY <1>1, <1>3, <1>4 DEF ScreenInvariant, ScreenRows
  <2> QED BY <1>1, <1>2, <2>1, LogsKeep
<1> QED BY <1>1, <1>2, <1>5, RestGoesOn

LEMMA PutLogsKeeps ==
    ASSUME ScreenInvariant, Screen!PutLogs
    PROVE  ScreenInvariant'
<1>1. /\ Screen!Now("putLogs") /\ Screen!Goes(Screen!Rest) /\ holdLog' = act.from
      /\ UNCHANGED <<host, server, cache, shown, chosen, queue, run, excused>>
  BY DEF Screen!PutLogs, Screen!fixed
<1>2. ScreenOnward
  BY <1>1, ScreenServerRests DEF ScreenInvariant
<1>3. ScreenRows'
  <2>1. holdLog' \in KnownStatus
    BY <1>1 DEF ScreenInvariant, ScreenAct, ScreenOperation
  <2> QED BY <1>1, <1>2, <2>1, LogsKeep
<1> QED BY <1>1, <1>2, <1>3, RestGoesOn

(* A step reads the row, the logs or the server's version of the report.   *)
LEMMA ScreenReadsOn ==
    ASSUME ScreenInvariant, UNCHANGED <<host, server, cache, shown, holdLog, chosen, queue, run, excused>>,
           NEW step \in {"see", "getLogs", "impact"}, Screen!Now(step),
           NEW row \in ReportRow, RowFaithful(row), row.status = "GONE" => act.op = "DELETE",
           NEW version \in Nat, NEW from \in KnownStatus,
           Plans(Screen!Rest, {"post", "enqueue"}) =>
               from = act.from /\ (act.op = "TRANSITION" => version = act.version),
           act' = Screen!Going(row, version, from, Screen!Rest)
    PROVE  ScreenInvariant'
<1>1. ScreenOnward /\ ScreenRows'
  BY ScreenServerRests, ScreenRowsStay DEF ScreenInvariant
<1>2. ScreenAct /\ act \in ScreenOperation /\ ScreenPlan(act)
  BY DEF ScreenInvariant, ScreenAct
<1>3. PICK todo : todo = Screen!Rest
  OBVIOUS
<1>4. /\ todo \in Seq(ScreenStep) /\ ScreenSteps(act.op, todo) /\ ~Plans(todo, {"store"})
      /\ \A steps : Plans(todo, steps) => Plans(act.todo, steps)
      /\ \A steps : Plans(act.todo, steps) => step \in steps \/ Plans(todo, steps)
      /\ Follows(act.op, act.todo, 1) /\ act.todo[1] = step
  BY <1>2, <1>3, StepUnderWay
<1>5. act.op # "UPDATE_STATUS"
  BY <1>4 DEF Follows
<1>6. PICK r : r = Screen!Going(row, version, from, todo)
  OBVIOUS
<1>7. /\ r \in ScreenOperation
      /\ r.op = act.op /\ r.to = act.to /\ r.reason = act.reason /\ r.from = from
      /\ r.own = act.own /\ r.version = version /\ r.row = row /\ r.next = act.next
      /\ r.todo = todo
  BY <1>2, <1>4, <1>6, GoingOperation
<1>8. Plans(r.todo, {"post", "enqueue"}) => MoveFaithful(r) /\ IsOffered(r)
  <2>1. ASSUME Plans(todo, {"post", "enqueue"})
        PROVE  MoveFaithful(r) /\ IsOffered(r)
    <3>1. from = act.from /\ (act.op = "TRANSITION" => version = act.version)
      BY <1>3, <2>1
    <3>2. MoveFaithful(act) /\ IsOffered(act)
      BY <1>2, <1>4, <2>1 DEF ScreenPlan
    <3> QED BY <1>7, <3>1, <3>2 DEF MoveFaithful, IsOffered
  <2> QED BY <1>7, <2>1
<1>9. ScreenPlan(r)
  BY <1>2, <1>4, <1>5, <1>7, <1>8 DEF ScreenPlan
<1>10. ScreenPlan(r)' /\ act' = r
  <2>1. ScreenPlan(r)'
    BY <1>1, <1>7, <1>9, PlanOnward DEF ScreenInvariant
  <2> QED BY <1>3, <1>6, <2>1
<1>11. Plans(act.todo, {"enqueue"}) => Plans(r.todo, {"enqueue"})
  BY <1>4, <1>7
<1> QED BY <1>1, <1>5, <1>7, <1>10, <1>11, ScreenActMoves

(* A step finds nothing to read, and nothing is written.                   *)
LEMMA ScreenSkipsWrite ==
    ASSUME ScreenInvariant, UNCHANGED <<host, server, cache, shown, holdLog, chosen, queue, run, excused>>,
           NEW step \in {"see", "getLogs"}, Screen!Now(step), Screen!Goes(Tail(Screen!Rest))
    PROVE  ScreenInvariant'
<1>1. ScreenOnward /\ ScreenRows' /\ ScreenAct
  BY ScreenServerRests, ScreenRowsStay DEF ScreenInvariant
<1>2. PICK todo : todo = Tail(Screen!Rest)
  OBVIOUS
<1>3. /\ act.todo \in Seq(ScreenStep) /\ act.todo # <<>> /\ ScreenSteps(act.op, act.todo)
      /\ Head(act.todo) = step
  BY <1>1, StepUnderWay
<1>4. /\ todo \in Seq(ScreenStep) /\ ScreenSteps(act.op, todo)
      /\ \A steps : Plans(todo, steps) => Plans(act.todo, steps)
      /\ Plans(act.todo, {"enqueue"}) => Plans(todo, {"enqueue"})
  BY <1>2, <1>3, StepsOfTwo DEF Screen!Rest
<1>5. Screen!Goes(todo)
  BY <1>2
<1> QED BY <1>1, <1>4, <1>5, ScreenGoesOn

LEMMA GetImpactKeeps ==
    ASSUME ScreenInvariant, Screen!GetImpact
    PROVE  ScreenInvariant'
<1>1. /\ Screen!Now("impact")
      /\ UNCHANGED <<host, server, cache, shown, holdLog, chosen, queue, run, excused>>
  BY DEF Screen!GetImpact, Screen!fixed
<1>2. ScreenOnward /\ ScreenRows' /\ ScreenAct /\ act \in ScreenOperation /\ ScreenPlan(act)
  BY <1>1, ScreenServerRests, ScreenRowsStay DEF ScreenInvariant, ScreenAct
<1>3. Follows(act.op, act.todo, 1) /\ act.todo[1] = "impact" /\ 1 \in DOMAIN act.todo
  BY <1>1, <1>2, StepUnderWay
<1>4. act.op = "DELETE" /\ ~Plans(act.todo, {"enqueue"})
  BY <1>3 DEF Follows, Plans
<1>5. CASE act' = Screen!Going(act.row, server.version, act.from, Screen!Rest)
  <2>1. PICK row, version, from : row = act.row /\ version = server.version /\ from = act.from
    OBVIOUS
  <2>2. row \in ReportRow /\ version \in Nat /\ from \in KnownStatus /\ RowFaithful(row)
    BY <1>2, <2>1 DEF ScreenInvariant, ScreenServer, ReportOnServer, ScreenOperation, ScreenPlan
  <2>3. act' = Screen!Going(row, version, from, Screen!Rest)
    BY <1>5, <2>1
  <2> QED BY <1>1, <1>4, <2>1, <2>2, <2>3, ScreenReadsOn
<1>6. CASE Screen!Goes(<<>>)
  BY <1>1, <1>2, <1>4, <1>6, ScreenStopsHere
<1> QED BY <1>5, <1>6 DEF Screen!GetImpact

LEMMA SeeKeeps ==
    ASSUME ScreenInvariant, Screen!See
    PROVE  ScreenInvariant'
<1>1. /\ Screen!Now("see")
      /\ UNCHANGED <<host, server, cache, shown, holdLog, chosen, queue, run, excused>>
  BY DEF Screen!See, Screen!fixed
<1>2. act \in ScreenOperation
  BY DEF ScreenInvariant, ScreenAct
<1>3. CASE act' = Screen!Going(cache, act.version, act.from, Screen!Rest)
  <2>1. PICK row, version, from : row = cache /\ version = act.version /\ from = act.from
    OBVIOUS
  <2>2. /\ row \in ReportRow /\ row.status # "GONE" /\ RowFaithful(row)
        /\ version \in Nat /\ from \in KnownStatus
    BY <1>2, <2>1 DEF ScreenInvariant, ScreenRows, ScreenOperation
  <2>3. act' = Screen!Going(row, version, from, Screen!Rest)
    BY <1>3, <2>1
  <2> QED BY <1>1, <2>1, <2>2, <2>3, ScreenReadsOn
<1>4. CASE Screen!Goes(Tail(Screen!Rest))
  BY <1>1, <1>4, ScreenSkipsWrite
<1> QED BY <1>3, <1>4 DEF Screen!See

LEMMA GetLogsKeeps ==
    ASSUME ScreenInvariant, Screen!GetLogs
    PROVE  ScreenInvariant'
<1>1. /\ Screen!Now("getLogs")
      /\ UNCHANGED <<host, server, cache, shown, holdLog, chosen, queue, run, excused>>
  BY DEF Screen!GetLogs, Screen!fixed
<1>2. ScreenAct /\ act \in ScreenOperation /\ ScreenPlan(act)
  BY DEF ScreenInvariant, ScreenAct
<1>3. CASE act' = Screen!Going(act.row, act.version, server.logFrom, Screen!Rest)
  <2>1. PICK row, version, from : row = act.row /\ version = act.version /\ from = server.logFrom
    OBVIOUS
  <2>2. row \in ReportRow /\ version \in Nat /\ from \in KnownStatus /\ RowFaithful(row)
    BY <1>2, <2>1 DEF ScreenInvariant, ScreenServer, ReportOnServer, ScreenOperation, ScreenPlan
  <2>3. row.status = "GONE" => act.op = "DELETE"
    BY <1>2, <2>1 DEF ScreenPlan
  <2>4. act' = Screen!Going(row, version, from, Screen!Rest)
    BY <1>3, <2>1
  <2>5. ~Plans(Screen!Rest, {"post", "enqueue"})
    <3>1. /\ Follows(act.op, act.todo, 1) /\ act.todo[1] = "getLogs"
          /\ \A steps : Plans(Screen!Rest, steps) => Plans(act.todo, steps)
      BY <1>1, <1>2, StepUnderWay
    <3>2. ~Plans(act.todo, {"post", "enqueue"})
      BY <3>1 DEF Follows, Plans
    <3> QED BY <3>1, <3>2
  <2> QED BY <1>1, <2>2, <2>3, <2>4, <2>5, ScreenReadsOn
<1>4. CASE Screen!Goes(Tail(Screen!Rest))
  BY <1>1, <1>4, ScreenSkipsWrite
<1> QED BY <1>3, <1>4 DEF Screen!GetLogs

LEMMA ProceedKeeps ==
    ASSUME ScreenInvariant, Screen!Proceed
    PROVE  ScreenInvariant'
<1>1. /\ Screen!Now("transition")
      /\ act' = IF Screen!IsCached THEN Screen!Begun("TRANSITION", act.next, Screen!NoChoice)
                ELSE Screen!NoOperation
      /\ UNCHANGED <<host, server, cache, shown, holdLog, chosen, queue, run, excused>>
  BY DEF Screen!Proceed, Screen!fixed
<1>2. ScreenAct /\ act \in ScreenOperation /\ ScreenPlan(act)
  BY DEF ScreenInvariant, ScreenAct
<1>3. /\ Follows(act.op, act.todo, 1) /\ act.todo[1] = "transition" /\ act.todo \in Seq(ScreenStep)
  BY <1>1, <1>2, StepUnderWay
<1>4. ~Plans(act.todo, {"enqueue"})
  BY <1>3 DEF Follows, Plans
<1>5. CASE Screen!IsCached
  <2>1. PICK choice, next : choice = act.next /\ next = Screen!NoChoice
    OBVIOUS
  <2>2. /\ choice \in ScreenChoice /\ IsOffered(choice) /\ next \in ScreenChoice /\ IsOffered(next)
    BY <1>2, <2>1, NoScreenChoice DEF ScreenOperation, ScreenPlan, IsOffered
  <2>3. act' = Screen!Begun("TRANSITION", choice, next)
    BY <1>1, <1>5, <2>1
  <2>4. "TRANSITION" \in ScreenOp \ {"DELETE"}
    BY DEF ScreenOp, Queueing
  <2> QED BY <1>1, <1>4, <1>5, <2>2, <2>3, <2>4, StartsScreen
<1>6. CASE ~Screen!IsCached
  <2>1. Screen!Goes(<<>>)
    BY <1>1, <1>6 DEF Screen!Goes
  <2>2. ScreenOnward /\ ScreenRows'
    BY <1>1, ScreenServerRests, ScreenRowsStay DEF ScreenInvariant
  <2> QED BY <1>1, <1>4, <2>1, <2>2, ScreenStopsHere
<1> QED BY <1>5, <1>6

(* The request of the operation under way.                                 *)
LEMMA PostUnderWay ==
    ASSUME ScreenAct, Screen!Now("post")
    PROVE  /\ act.op \in ScreenOp \ {"OPEN"} /\ MoveFaithful(act) /\ IsOffered(act)
           /\ act.op \notin {"TRANSITION", "UPDATE"} => host = "report"
           /\ act.op = "UPDATE_STATUS" => act.version = act.row.version /\ act.row.status # "NONE"
           /\ act.row.status = "GONE" => act.op = "DELETE"
           /\ ~Plans(act.todo, {"enqueue"}) /\ RowFaithful(act.row) /\ IsOffered(act.next)
<1>1. /\ Follows(act.op, act.todo, 1) /\ act.todo[1] = "post" /\ 1 \in DOMAIN act.todo
  BY StepUnderWay
<1>2. ScreenPlan(act)
  BY DEF ScreenAct
<1>3. act.op \in ScreenOp \ {"OPEN"} /\ ~Plans(act.todo, {"enqueue"})
  BY <1>1 DEF Follows, Plans
<1>4. Plans(act.todo, {"post", "enqueue"}) /\ Plans(act.todo, {"post", "enqueue", "put"})
  BY <1>1 DEF Plans
<1>5. act.op \notin {"TRANSITION", "UPDATE"} => act.op \in {"UPDATE_STATUS", "OPEN", "ATTACH", "DELETE"}
  BY <1>3 DEF ScreenOp, Queueing
<1> QED BY <1>2, <1>3, <1>4, <1>5 DEF ScreenPlan

(* The server's copy is faithful.                                          *)
LEMMA CopiedIsFaithful ==
    ASSUME ScreenServer', NEW row, row = Screen!Copied(server')
    PROVE  /\ row \in ReportRow /\ row.sync = "SYNCED" /\ RowFaithful(row)'
           /\ row.status = server'.status /\ row.version = server'.version
<1>1. PICK s : s = server'
  OBVIOUS
<1>2. s \in ReportOnServer /\ server'.status = s.status /\ server'.version = s.version
  BY <1>1 DEF ScreenServer
<1>3. /\ row \in ReportRow /\ row.sync = "SYNCED"
      /\ row.status = server'.status /\ row.version = server'.version
  BY <1>1, <1>2, CopiedReport
<1>4. server'.version \in Nat
  BY <1>2 DEF ReportOnServer
<1> QED BY <1>3, <1>4 DEF RowFaithful, IsFaithful

LEMMA PostAnswered ==
    ASSUME ScreenInvariant, Screen!Now("post"), Screen!Answered(act) = 200, server' = Screen!After(act),
           act' = Screen!Doing(act.op, Screen!Copied(server'), act.next, Screen!Answering(act.op, act.next)),
           UNCHANGED <<host, cache, shown, holdLog, chosen, queue, run, excused>>
    PROVE  ScreenInvariant'
<1>1. ScreenAct /\ act \in ScreenOperation /\ ScreenServer
  BY DEF ScreenInvariant, ScreenAct
<1>2. PICK a : a = act
  OBVIOUS
<1>3. /\ a.op \in ScreenOp \ {"OPEN"} /\ (a.op \notin {"TRANSITION", "UPDATE"} => host = "report")
      /\ ~Plans(a.todo, {"enqueue"}) /\ IsOffered(a.next) /\ a.next \in ScreenChoice
  BY <1>1, <1>2, PostUnderWay DEF ScreenOperation
<1>4. ScreenOnward /\ (a.op # "DELETE" => server'.status # "GONE")
  BY <1>1, <1>2, <1>3, AcceptedMoves
<1>5. ScreenRows' /\ ScreenServer'
  BY <1>4, ScreenRowsStay DEF ScreenInvariant, ScreenOnward
<1>6. PICK row, next, todo : row = Screen!Copied(server') /\ next = a.next
                             /\ todo = Screen!Answering(a.op, a.next)
  OBVIOUS
<1>7. /\ row \in ReportRow /\ row.sync = "SYNCED" /\ RowFaithful(row)' /\ row.status = server'.status
  BY <1>5, <1>6, CopiedIsFaithful
<1>8. /\ todo \in Seq(ScreenStep) /\ ScreenSteps(a.op, todo)
      /\ ~Plans(todo, {"post", "enqueue", "put"})
      /\ Plans(todo, {"store"}) => a.op # "DELETE"
  BY <1>1, <1>3, <1>6, AnsweredSteps DEF ScreenServer
<1>9. ~Plans(todo, {"post", "enqueue"}) /\ ~Plans(todo, {"put"})
  BY <1>8 DEF Plans
<1>10. PICK op : op = a.op
  OBVIOUS
<1>11. PICK r : r = Screen!Doing(op, row, next, todo)
  OBVIOUS
<1>12. /\ r \in ScreenOperation /\ r.op = op /\ r.row = row /\ r.next = next /\ r.todo = todo
  BY <1>3, <1>6, <1>7, <1>8, <1>10, <1>11, KnownStatuses DEF Screen!Doing, ScreenOperation
<1>13. IsOffered(next)' /\ host' = host
  BY <1>3, <1>4, <1>6, OfferedOnward
<1>14. ScreenPlan(r)'
  BY <1>3, <1>4, <1>7, <1>8, <1>9, <1>10, <1>12, <1>13, NoStepsLeft
     DEF ScreenPlan, ScreenOp, Queueing
<1>15. act' = r
  BY <1>2, <1>6, <1>10, <1>11
<1> QED BY <1>2, <1>3, <1>4, <1>5, <1>9, <1>12, <1>14, <1>15, ScreenActMoves

LEMMA ScreenPostKeeps ==
    ASSUME ScreenInvariant, Screen!Post
    PROVE  ScreenInvariant'
<1>1. /\ Screen!Now("post")
      /\ UNCHANGED <<host, cache, shown, holdLog, chosen, queue, run, excused>>
  BY DEF Screen!Post, Screen!fixed
<1>2. CASE Screen!Answered(act) = 200
  BY <1>1, <1>2, PostAnswered DEF Screen!Post
<1>3. CASE Screen!Answered(act) # 200
  <2>1. UNCHANGED server /\ Screen!Goes(<<>>)
    BY <1>3 DEF Screen!Post
  <2>2. ScreenOnward /\ ScreenRows' /\ ~Plans(act.todo, {"enqueue"})
    BY <1>1, <2>1, ScreenServerRests, ScreenRowsStay, PostUnderWay DEF ScreenInvariant
  <2> QED BY <1>1, <2>1, <2>2, ScreenStopsHere
<1> QED BY <1>2, <1>3

LEMMA LosePostKeeps ==
    ASSUME ScreenInvariant, Screen!LosePost
    PROVE  ScreenInvariant'
<1>1. /\ Screen!Now("post")
      /\ server' = server \/ (Screen!Answered(act) = 200 /\ server' = Screen!After(act))
      /\ Screen!Goes(IF Screen!Fails THEN <<>> ELSE Screen!Locally(act.op, Screen!NoChoice))
      /\ UNCHANGED <<host, cache, shown, holdLog, chosen, queue, run, excused>>
  BY DEF Screen!LosePost, Screen!fixed
<1>2. ScreenAct /\ act \in ScreenOperation /\ ScreenServer /\ ScreenPlan(act)
  BY DEF ScreenInvariant, ScreenAct
<1>3. PICK a : a = act
  OBVIOUS
<1>4. /\ a.op \in ScreenOp \ {"OPEN"} /\ (a.op \notin {"TRANSITION", "UPDATE"} => host = "report")
      /\ ~Plans(a.todo, {"enqueue"}) /\ MoveFaithful(a) /\ IsOffered(a)
      /\ a.row.status = "GONE" => a.op = "DELETE"
      /\ a.op = "UPDATE_STATUS" => a.version = a.row.version /\ a.row.status # "NONE"
      /\ RowFaithful(a.row) /\ IsOffered(a.next)
  BY <1>1, <1>2, <1>3, PostUnderWay
<1>5. ScreenOnward
  <2>1. CASE server' = server
    BY <1>1, <1>2, <2>1, ScreenServerRests
  <2>2. CASE Screen!Answered(act) = 200 /\ server' = Screen!After(act)
    BY <1>1, <1>2, <1>3, <1>4, <2>2, AcceptedMoves
  <2> QED BY <1>1, <2>1, <2>2
<1>6. ScreenRows'
  BY <1>1, <1>5, ScreenRowsStay DEF ScreenInvariant
<1>7. CASE Screen!Fails
  <2>1. Screen!Goes(<<>>)
    BY <1>1, <1>7
  <2> QED BY <1>1, <1>3, <1>4, <1>5, <1>6, <2>1, ScreenStopsHere
<1>8. CASE ~Screen!Fails
  <2>1. host = "report" /\ a.op \in Queueing
    BY <1>2, <1>3, <1>4, <1>8 DEF Screen!Fails, ScreenServer, ScreenOp
  <2>2. PICK op, todo : op = a.op /\ todo = Screen!Locally(op, Screen!NoChoice)
    OBVIOUS
  <2>3. /\ todo \in Seq(ScreenStep) /\ ScreenSteps(op, todo) /\ Plans(todo, {"enqueue"})
        /\ ~Plans(todo, {"store"})
    BY <2>1, <2>2, LocallySteps
  <2>4. Screen!Goes(todo) /\ todo # <<>>
    BY <1>1, <1>3, <1>8, <2>2, <2>3, NoStepsLeft
  <2>5. PICK row, version, from : row = act.row /\ version = act.version /\ from = act.from
    OBVIOUS
  <2>6. row \in ReportRow /\ version \in Nat /\ from \in KnownStatus
    BY <1>2, <2>5 DEF ScreenOperation
  <2>7. PICK r : r = Screen!Going(row, version, from, todo)
    OBVIOUS
  <2>8. /\ r \in ScreenOperation
        /\ r.op = act.op /\ r.to = act.to /\ r.reason = act.reason /\ r.from = from
        /\ r.own = act.own /\ r.version = version /\ r.row = row /\ r.next = act.next
        /\ r.todo = todo
    BY <1>2, <2>3, <2>6, <2>7, GoingOperation
  <2>9. MoveFaithful(r) /\ IsOffered(r)
    BY <1>3, <1>4, <2>5, <2>8 DEF MoveFaithful, IsOffered
  <2>10. ScreenPlan(r)
    BY <1>3, <1>4, <2>1, <2>2, <2>3, <2>5, <2>8, <2>9 DEF ScreenPlan
  <2>11. ScreenPlan(r)'
    BY <1>2, <1>5, <2>8, <2>10, PlanOnward
  <2>12. act' = r
    BY <2>4, <2>5, <2>7 DEF Screen!Goes
  <2> QED BY <1>1, <1>5, <1>6, <2>3, <2>8, <2>11, <2>12, ScreenActMoves
<1> QED BY <1>7, <1>8

----------------------------------------------------------------------------
(* The screen of a report: the steps that write its row.                   *)

LEMMA ScreenCached ==
    ASSUME ScreenInvariant, UNCHANGED <<host, server, shown, holdLog, chosen>>,
           NEW row \in ReportRow, row.status # "GONE", RowFaithful(row), cache' = row
    PROVE  ScreenOnward /\ ScreenRows'
<1>1. ScreenOnward
  BY ScreenServerRests DEF ScreenInvariant
<1>2. PICK c : c = chosen
  OBVIOUS
<1>3. RowFaithful(row)' /\ IsOffered(c)'
  BY <1>1, <1>2, RowFaithfulOnward, OfferedOnward DEF ScreenInvariant, ScreenRows
<1> QED BY <1>1, <1>2, <1>3 DEF ScreenInvariant, ScreenRows

LEMMA ScreenStepTaken ==
    ASSUME ScreenInvariant, ScreenOnward, NEW step, Screen!Now(step), Screen!Goes(Screen!Rest)
    PROVE  /\ ScreenAct' /\ act'.todo = Screen!Rest
           /\ Publishes' =>
                 act.op = "UPDATE_STATUS" /\ Plans(Screen!Rest, {"put"}) /\ act'.row = act.row
<1>1. ScreenAct
  BY DEF ScreenInvariant
<1>2. PICK todo : todo = Screen!Rest
  OBVIOUS
<1>3. /\ todo \in Seq(ScreenStep) /\ ScreenSteps(act.op, todo) /\ Screen!Goes(todo)
      /\ \A steps : Plans(todo, steps) => Plans(act.todo, steps)
  BY <1>1, <1>2, StepUnderWay
<1>4. PICK r : r = IF todo = <<>> THEN Screen!NoOperation
                   ELSE Screen!Going(act.row, act.version, act.from, todo)
  OBVIOUS
<1>5. /\ r \in ScreenOperation /\ ScreenPlan(r) /\ r.todo = todo
      /\ todo # <<>> => r.op = act.op /\ r.row = act.row
  BY <1>1, <1>3, <1>4, LessIsLeft
<1>6. ScreenPlan(r)' /\ act' = r
  BY <1>3, <1>4, <1>5, PlanOnward DEF ScreenInvariant, Screen!Goes
<1>7. Publishes' => Plans(todo, {"put"}) /\ todo # <<>>
  BY <1>5, <1>6, NoStepsLeft DEF Publishes
<1> QED BY <1>2, <1>5, <1>6, <1>7 DEF ScreenAct, Publishes

(* A step of the operation writes a row.                                   *)
LEMMA ScreenWrites ==
    ASSUME ScreenInvariant, UNCHANGED <<host, server, shown, holdLog, chosen, queue, run>>,
           NEW row \in ReportRow, row.status # "GONE", RowFaithful(row), cache' = row,
           NEW step, Screen!Now(step), Screen!Goes(Screen!Rest),
           row.sync = "PENDING" /\ ~excused' =>
               Plans(Screen!Rest, {"enqueue"}) \/ \E k \in DOMAIN queue : Unanswered(k),
           ~(act.op = "UPDATE_STATUS" /\ Plans(Screen!Rest, {"put"}))
    PROVE  ScreenInvariant'
<1>1. ScreenOnward /\ ScreenRows'
  BY ScreenCached
<1>2. /\ ScreenAct' /\ act'.todo = Screen!Rest /\ ~Publishes'
  BY <1>1, ScreenStepTaken
<1>3. RowOwed'
  BY <1>2 DEF RowOwed, Unanswered
<1>4. ScreenOwed'
  BY <1>2, <1>3 DEF ScreenOwed
<1> QED BY <1>1, <1>2, <1>4, ScreenQueueStays, ScreenRunningStays DEF ScreenInvariant, ScreenOnward

LEMMA StoreKeeps ==
    ASSUME ScreenInvariant, Screen!Store
    PROVE  ScreenInvariant'
<1>1. /\ Screen!Now("store") /\ cache' = act.row /\ Screen!Goes(Screen!Rest)
      /\ UNCHANGED <<host, server, shown, holdLog, chosen, queue, run, excused>>
  BY DEF Screen!Store, Screen!fixed
<1>2. ScreenAct /\ act \in ScreenOperation /\ ScreenPlan(act)
  BY DEF ScreenInvariant, ScreenAct
<1>3. /\ Follows(act.op, act.todo, 1) /\ act.todo[1] = "store" /\ 1 \in DOMAIN act.todo
      /\ \A steps : Plans(Screen!Rest, steps) => Plans(act.todo, steps)
  BY <1>1, <1>2, StepUnderWay
<1>4. Plans(act.todo, {"store"}) /\ act.op # "DELETE"
  BY <1>3 DEF Plans, Follows
<1>5. PICK row : row = act.row
  OBVIOUS
<1>6. row \in ReportRow /\ row.status # "GONE" /\ RowFaithful(row) /\ row.sync = "SYNCED"
  BY <1>2, <1>4, <1>5 DEF ScreenPlan, ScreenOperation
<1>7. ~Plans(Screen!Rest, {"put"})
  BY <1>2, <1>3, <1>4 DEF ScreenPlan
<1>8. cache' = row
  BY <1>1, <1>5
<1> QED BY <1>1, <1>6, <1>7, <1>8, ScreenWrites

LEMMA PutKeeps ==
    ASSUME ScreenInvariant, Screen!Put
    PROVE  ScreenInvariant'
<1>1. /\ Screen!Now("put") /\ cache' = Screen!Changed /\ Screen!Goes(Screen!Rest)
      /\ excused' = (excused \/ (act.op = "UPDATE_STATUS" /\ cache # act.row))
      /\ UNCHANGED <<host, server, shown, holdLog, chosen, queue, run>>
  BY DEF Screen!Put, Screen!fixed
<1>2. ScreenAct /\ act \in ScreenOperation /\ ScreenPlan(act)
  BY DEF ScreenInvariant, ScreenAct
<1>3. /\ Follows(act.op, act.todo, 1) /\ act.todo[1] = "put" /\ 1 \in DOMAIN act.todo
      /\ act.todo \in Seq(ScreenStep)
      /\ \A steps : Plans(Screen!Rest, steps) => Plans(act.todo, steps)
      /\ \A steps : Plans(act.todo, steps) => "put" \in steps \/ Plans(Screen!Rest, steps)
  BY <1>1, <1>2, StepUnderWay
<1>4. act.op # "DELETE" /\ act.row.status # "GONE"
  BY <1>2, <1>3 DEF Follows, ScreenPlan
<1>5. PICK row : row = Screen!Changed
  OBVIOUS
<1>6. row \in ReportRow /\ row.status # "GONE" /\ row.sync = "PENDING" /\ cache' = row
  BY <1>1, <1>2, <1>4, <1>5, ChangedReport
<1>7. RowFaithful(row)
  BY <1>6 DEF RowFaithful
<1>8. CASE act.op # "UPDATE_STATUS"
  <2>1. Plans(act.todo, {"enqueue"})
    BY <1>3, <1>8 DEF Follows, Plans
  <2>2. Plans(Screen!Rest, {"enqueue"})
    BY <1>3, <2>1
  <2> QED BY <1>1, <1>6, <1>7, <1>8, <2>2, ScreenWrites
<1>9. CASE act.op = "UPDATE_STATUS"
  <2>1. Len(act.todo) = 1
    BY <1>3, <1>9 DEF Follows
  <2>2. Plans(act.todo, {"put"}) /\ ~Plans(act.todo, {"enqueue"}) /\ Plans(act.todo, {"post", "enqueue", "put"})
    BY <1>3, <2>1 DEF Plans
  <2>3. Published(Len(queue))
    BY <1>9, <2>2 DEF ScreenInvariant, ScreenOwed, Publishes
  <2>4. act.row.status # "NONE" /\ act.row.version \in Nat
    BY <1>2, <1>9, <2>2 DEF ScreenPlan, ScreenOperation, ReportRow
  <2>5. ASSUME ~excused'
        PROVE  \E k \in DOMAIN queue : Unanswered(k)
    <3>1. cache = act.row
      BY <1>1, <1>9, <2>5
    <3>2. ~Overtaken
      BY <2>4, <3>1 DEF Overtaken, IsLater
    <3>3. Len(queue) > 0 /\ Unanswered(Len(queue))
      BY <2>3, <3>2 DEF Published
    <3>4. Len(queue) \in DOMAIN queue
      BY <3>3 DEF ScreenInvariant, ScreenQueue
    <3> QED BY <3>3, <3>4
  <2>6. ~Plans(Screen!Rest, {"put"})
    <3>1. PICK todo \in Seq(ScreenStep) : todo = act.todo
      BY <1>3
    <3>2. Len(todo) = 1 /\ Screen!Rest = Tail(todo)
      BY <2>1, <3>1 DEF Screen!Rest
    <3>3. DOMAIN Screen!Rest = {}
      BY <3>2
    <3> QED BY <3>3 DEF Plans
  <2> QED BY <1>1, <1>6, <1>7, <2>5, <2>6, ScreenWrites
<1> QED BY <1>8, <1>9

LEMMA WriteBackKeeps ==
    ASSUME ScreenInvariant, Screen!WriteBack
    PROVE  ScreenInvariant'
<1>1. /\ Screen!Now("write") /\ cache' = act.row /\ Screen!Goes(Screen!Rest)
      /\ excused' = (excused \/ cache # act.row)
      /\ UNCHANGED <<host, server, shown, holdLog, chosen, queue, run>>
  BY DEF Screen!WriteBack, Screen!fixed
<1>2. ScreenAct /\ act \in ScreenOperation /\ ScreenPlan(act)
  BY DEF ScreenInvariant, ScreenAct
<1>3. /\ Follows(act.op, act.todo, 1) /\ act.todo[1] = "write"
      /\ \A steps : Plans(act.todo, steps) => "write" \in steps \/ Plans(Screen!Rest, steps)
  BY <1>1, <1>2, StepUnderWay
<1>4. act.op \notin {"DELETE", "UPDATE_STATUS"}
  BY <1>3 DEF Follows
<1>5. PICK row : row = act.row
  OBVIOUS
<1>6. row \in ReportRow /\ row.status # "GONE" /\ RowFaithful(row) /\ cache' = row
  BY <1>1, <1>2, <1>4, <1>5 DEF ScreenPlan, ScreenOperation
<1>7. row.sync = "PENDING" /\ ~excused' =>
        Plans(Screen!Rest, {"enqueue"}) \/ \E k \in DOMAIN queue : Unanswered(k)
  BY <1>1, <1>3, <1>5 DEF ScreenInvariant, ScreenOwed, RowOwed
<1> QED BY <1>1, <1>4, <1>6, <1>7, ScreenWrites

(* What a pull leaves in the row.                                          *)
LEMMA PulledReport ==
    ASSUME ScreenInvariant, NEW row, row = Screen!Pulled
    PROVE  /\ row \in ReportRow /\ row.status # "GONE" /\ RowFaithful(row)
           /\ row = cache \/ row.sync = "SYNCED"
           /\ row = cache \/ row.status = "NONE" \/ row.version = server.version
<1>1. ScreenServer /\ ScreenRows
  BY DEF ScreenInvariant
<1>2. CASE host = "report" /\ cache.sync # "SYNCED"
  <2>1. row = cache
    BY <1>2 DEF Screen!Pulled
  <2> QED BY <1>1, <2>1 DEF ScreenRows
<1>3. CASE host = "report" /\ cache.sync = "SYNCED" /\ server.status = "GONE"
  <2>1. row = Screen!NoCopy
    BY <1>3, KnownStatuses DEF Screen!Pulled
  <2> QED BY <2>1, NoReportCopy DEF RowFaithful
<1>4. CASE host = "child" \/ (cache.sync = "SYNCED" /\ server.status # "GONE")
  <2>1. row = Screen!Copied(server)
    BY <1>4, KnownStatuses DEF Screen!Pulled
  <2>2. server.status # "GONE"
    BY <1>1, <1>4, KnownStatuses DEF ScreenServer
  <2>3. /\ row \in ReportRow /\ row.status = server.status /\ row.version = server.version
        /\ row.sync = "SYNCED"
    BY <1>1, <2>1, CopiedReport DEF ScreenServer
  <2>4. RowFaithful(row)
    BY <1>1, <2>3 DEF RowFaithful, IsFaithful, ScreenServer, ReportOnServer
  <2> QED BY <2>2, <2>3, <2>4
<1> QED BY <1>1, <1>2, <1>3, <1>4 DEF ScreenServer

LEMMA PruneKeeps ==
    ASSUME ScreenInvariant, Screen!Prune
    PROVE  ScreenInvariant'
<1>1. /\ Screen!Now("prune") /\ cache' = (IF connected THEN Screen!Pulled ELSE cache)
      /\ Screen!Goes(Screen!Rest)
      /\ UNCHANGED <<host, server, shown, holdLog, chosen, queue, run, excused>>
  BY DEF Screen!Prune, Screen!fixed
<1>2. ScreenAct /\ ScreenRows
  BY DEF ScreenInvariant
<1>3. /\ Follows(act.op, act.todo, 1) /\ act.todo[1] = "prune"
  BY <1>1, <1>2, StepUnderWay
<1>4. ~Plans(act.todo, {"enqueue"}) /\ act.op # "UPDATE_STATUS"
  BY <1>3 DEF Follows, Plans
<1>5. PICK row : row = IF connected THEN Screen!Pulled ELSE cache
  OBVIOUS
<1>6. /\ row \in ReportRow /\ row.status # "GONE" /\ RowFaithful(row) /\ cache' = row
      /\ row = cache \/ row.sync = "SYNCED"
  <2>1. CASE connected
    <3>1. row = Screen!Pulled
      BY <1>5, <2>1
    <3> QED BY <1>1, <1>5, <3>1, PulledReport
  <2>2. CASE ~connected
    BY <1>1, <1>2, <1>5, <2>2 DEF ScreenRows
  <2> QED BY <2>1, <2>2
<1>7. row.sync = "PENDING" /\ ~excused' =>
        Plans(Screen!Rest, {"enqueue"}) \/ \E k \in DOMAIN queue : Unanswered(k)
  BY <1>1, <1>4, <1>6 DEF ScreenInvariant, ScreenOwed, RowOwed
<1> QED BY <1>1, <1>4, <1>6, <1>7, ScreenWrites

(* Only the server changes, and only the row.                              *)
LEMMA ScreenServerMoves ==
    ASSUME ScreenInvariant, ScreenOnward,
           UNCHANGED <<cache, shown, holdLog, chosen, queue, act, run, excused>>
    PROVE  ScreenInvariant'
<1>1. ScreenOwed'
  BY OwedActMoves DEF ScreenInvariant, Publishes
<1> QED BY <1>1, ScreenRowsStay, ScreenActStays, ScreenQueueStays, ScreenRunningStays
       DEF ScreenInvariant, ScreenOnward

LEMMA ScreenOthersKeep ==
    ASSUME ScreenInvariant, Screen!OthersAct
    PROVE  ScreenInvariant'
<1>1. UNCHANGED <<cache, shown, holdLog, chosen, queue, act, run, excused>>
  BY DEF Screen!OthersAct
<1> QED BY <1>1, OthersMoveOn, ScreenServerMoves DEF ScreenInvariant

LEMMA ScreenPullKeeps ==
    ASSUME ScreenInvariant, Screen!Pull
    PROVE  ScreenInvariant'
<1>1. /\ cache' = Screen!Pulled
      /\ UNCHANGED <<host, server, shown, holdLog, chosen, queue, act, run, excused>>
  BY DEF Screen!Pull, Screen!fixed
<1>2. PICK row : row = Screen!Pulled
  OBVIOUS
<1>3. /\ row \in ReportRow /\ row.status # "GONE" /\ RowFaithful(row) /\ cache' = row
      /\ row = cache \/ row.sync = "SYNCED"
      /\ row = cache \/ row.status = "NONE" \/ row.version = server.version
  BY <1>1, <1>2, PulledReport
<1>4. ScreenOnward /\ ScreenRows'
  BY <1>1, <1>3, ScreenCached
<1>5. RowOwed'
  BY <1>1, <1>3 DEF ScreenInvariant, ScreenOwed, RowOwed, Unanswered
<1>6. ASSUME Publishes'
      PROVE  Published(Len(queue))'
  <2>1. Published(Len(queue))
    BY <1>1, <1>6 DEF ScreenInvariant, ScreenOwed, Publishes
  <2>2. Overtaken => Overtaken'
    BY <1>1, <1>3 DEF Overtaken, IsLater
  <2>3. PICK k : k = Len(queue)
    OBVIOUS
  <2>4. Published(k)'
    BY <1>1, <2>1, <2>2, <2>3 DEF Published, Unanswered
  <2> QED BY <1>1, <2>3, <2>4
<1> QED BY <1>1, <1>4, <1>5, <1>6, ScreenActStays, ScreenQueueStays, ScreenRunningStays
       DEF ScreenInvariant, ScreenOnward, ScreenOwed

LEMMA ScreenEnqueueKeeps ==
    ASSUME ScreenInvariant, Screen!Enqueue
    PROVE  ScreenInvariant'
<1>1. /\ Screen!Now("enqueue") /\ queue' = Append(queue, Screen!Request) /\ Screen!Goes(Screen!Rest)
      /\ UNCHANGED <<host, server, cache, shown, holdLog, chosen, run, excused>>
  BY DEF Screen!Enqueue, Screen!fixed
<1>2. ScreenAct /\ act \in ScreenOperation /\ ScreenPlan(act)
  BY DEF ScreenInvariant, ScreenAct
<1>3. /\ Follows(act.op, act.todo, 1) /\ act.todo[1] = "enqueue" /\ 1 \in DOMAIN act.todo
  BY <1>1, <1>2, StepUnderWay
<1>4. act.op \in Queueing
  BY <1>3 DEF Follows
<1>5. PICK r : r = Screen!Request
  OBVIOUS
<1>6. /\ r \in ScreenRequest /\ r.op = act.op /\ r.to = act.to /\ r.reason = act.reason
      /\ r.from = act.from /\ r.own = act.own /\ r.version = act.version /\ r.status = "PENDING"
  BY <1>2, <1>4, <1>5, ScreenRequestOf
<1>7. Plans(act.todo, {"post", "enqueue"}) /\ Plans(act.todo, {"post", "enqueue", "put"})
  BY <1>3 DEF Plans
<1>8. MoveFaithful(r) /\ IsOffered(r)
  BY <1>2, <1>6, <1>7 DEF ScreenPlan, MoveFaithful, IsOffered
<1>9. ScreenOnward /\ ScreenRows'
  BY <1>1, ScreenServerRests, ScreenRowsStay DEF ScreenInvariant
<1>10. /\ queue \in Seq(ScreenRequest) /\ queue' = Append(queue, r) /\ queue' \in Seq(ScreenRequest)
       /\ Len(queue) \in Nat /\ Len(queue') = Len(queue) + 1
       /\ DOMAIN queue = 1 .. Len(queue) /\ DOMAIN queue' = 1 .. Len(queue) + 1
       /\ \A k \in DOMAIN queue : queue'[k] = queue[k]
       /\ queue'[Len(queue) + 1] = r
  BY <1>1, <1>5, <1>6 DEF ScreenInvariant, ScreenQueue
<1>11. ScreenQueue'
  <2>1. ASSUME NEW k \in DOMAIN queue'
        PROVE  /\ queue'[k].status = "PENDING" => queue'[k].op # "none"
               /\ queue'[k].op = "UPDATE_STATUS" => host = "report"
               /\ MoveFaithful(queue[k])' /\ IsOffered(queue[k])'
    <3>1. PICK q : q = queue'[k]
      OBVIOUS
    <3>2. /\ q \in ScreenRequest /\ MoveFaithful(q) /\ IsOffered(q)
          /\ q.status = "PENDING" => q.op # "none"
          /\ q.op = "UPDATE_STATUS" => host = "report"
      <4>1. CASE k \in DOMAIN queue
        BY <1>10, <3>1, <4>1 DEF ScreenInvariant, ScreenQueue
      <4>2. CASE k = Len(queue) + 1
        BY <1>2, <1>4, <1>6, <1>8, <1>10, <3>1, <4>2 DEF ScreenPlan, Queueing
      <4> QED BY <1>10, <4>1, <4>2
    <3>3. MoveFaithful(q)' /\ IsOffered(q)'
      BY <1>9, <3>2, MoveFaithfulOnward, OfferedOnward DEF ScreenInvariant, ScreenRequest
    <3> QED BY <3>1, <3>2, <3>3
  <2> QED BY <1>1, <1>10, <2>1 DEF ScreenQueue
<1>12. ScreenRunning'
  <2>1. PICK row : row = run.row
    OBVIOUS
  <2>2. RowFaithful(row)' /\ run' = run
    BY <1>1, <1>9, <2>1, RowFaithfulOnward DEF ScreenInvariant, ScreenRunning, ScreenRun
  <2> QED BY <1>10, <2>1, <2>2 DEF ScreenInvariant, ScreenRunning
<1>13. /\ ScreenAct'
       /\ Publishes' => act.op = "UPDATE_STATUS" /\ act'.row = act.row
  BY <1>1, <1>9, ScreenStepTaken
<1>14. PICK last : last = Len(queue')
  OBVIOUS
<1>15. /\ last \in DOMAIN queue' /\ last > 0 /\ Unanswered(last)' /\ queue'[last] = r
       /\ ~(run.item = last /\ run.step \in SendingRow)
  BY <1>1, <1>6, <1>10, <1>14 DEF Unanswered, SendingRow, ScreenInvariant, ScreenRunning
<1>16. RowOwed'
  BY <1>15 DEF RowOwed
<1>17. Publishes' => Published(last)'
  <2>1. ASSUME Publishes'
        PROVE  Published(last)'
    <3>1. act.op = "UPDATE_STATUS" /\ act'.row = act.row /\ act.version = act.row.version
      BY <1>2, <1>7, <1>13, <2>1 DEF ScreenPlan
    <3> QED BY <1>1, <1>6, <1>15, <3>1 DEF Published, SendingRow
  <2> QED BY <2>1
<1> QED BY <1>9, <1>11, <1>12, <1>13, <1>14, <1>16, <1>17
       DEF ScreenInvariant, ScreenOwed, ScreenOnward

----------------------------------------------------------------------------
(* The screen of a report: the delivery.                                   *)

LEMMA ScreenPassed ==
    ASSUME NEW todo \in SUBSET Nat,
           run' = Screen!Passed(todo, TRUE) \/ run' = Screen!Passed(todo, FALSE)
    PROVE  /\ run' \in ScreenRun /\ run'.todo = todo /\ run'.item = 0
           /\ run'.step \in {"idle", "judge"} /\ run'.row = Screen!NoCopy
<1>1. CASE todo = {}
  <2>1. run' = Screen!Turn({}, FALSE, "idle")
    BY <1>1 DEF Screen!Passed, Screen!NoRun
  <2> QED BY <1>1, <2>1, NoReportCopy DEF Screen!Turn, ScreenRun
<1>2. CASE todo # {}
  <2>1. run' = Screen!Turn(todo, TRUE, "judge") \/ run' = Screen!Turn(todo, FALSE, "judge")
    BY <1>2 DEF Screen!Passed
  <2>2. CASE run' = Screen!Turn(todo, TRUE, "judge")
    BY <2>2, NoReportCopy DEF Screen!Turn, ScreenRun
  <2>3. CASE run' = Screen!Turn(todo, FALSE, "judge")
    BY <2>3, NoReportCopy DEF Screen!Turn, ScreenRun
  <2> QED BY <2>1, <2>2, <2>3
<1> QED BY <1>1, <1>2

LEMMA ScreenOnwards ==
    ASSUME run \in ScreenRun, NEW row \in ReportRow, NEW step \in SendingRow, Screen!Onward(row, step)
    PROVE  /\ run' \in ScreenRun /\ run'.todo = run.todo /\ run'.item = run.item
           /\ run'.step = step /\ run'.row = row
BY DEF Screen!Onward, ScreenRun

(* A request is over, or is left as it is.                                 *)
LEMMA ScreenEnds ==
    ASSUME ScreenInvariant, ScreenOnward, NEW k \in DOMAIN queue,
           NEW status \in {"SYNCED", "CONFLICT", "FAILED"}, queue' = queue \/ Screen!Ends(k, status)
    PROVE  /\ ScreenQueue' /\ Len(queue') = Len(queue) /\ DOMAIN queue' = DOMAIN queue
           /\ \A j \in DOMAIN queue : j # k => queue'[j] = queue[j]
           /\ queue' = queue \/ queue'[k].status = status
<1>1. queue \in Seq(ScreenRequest)
  BY DEF ScreenInvariant, ScreenQueue
<1>2. CASE queue' = queue
  <2>1. ScreenQueue'
    BY <1>2, ScreenQueueStays DEF ScreenInvariant
  <2> QED BY <1>2, <2>1
<1>3. CASE Screen!Ends(k, status)
  <2>1. PICK r : r = Screen!Ended(status)
    OBVIOUS
  <2>2. r \in ScreenRequest /\ r.op = "none" /\ r.to = "NONE" /\ r.status = status
    BY <2>1, EndedReportRequest
  <2>3. queue' = [queue EXCEPT ![k] = r]
    BY <1>3, <2>1 DEF Screen!Ends
  <2>4. /\ queue' \in Seq(ScreenRequest) /\ Len(queue') = Len(queue) /\ DOMAIN queue' = DOMAIN queue
        /\ \A j \in DOMAIN queue : j # k => queue'[j] = queue[j]
        /\ queue'[k] = r
    BY <1>1, <2>2, <2>3
  <2>5. ASSUME NEW j \in DOMAIN queue
        PROVE  /\ queue'[j].status = "PENDING" => queue'[j].op # "none"
               /\ queue'[j].op = "UPDATE_STATUS" => host = "report"
               /\ MoveFaithful(queue[j])' /\ IsOffered(queue[j])'
    <3>1. PICK q : q = queue'[j]
      OBVIOUS
    <3>2. /\ q \in ScreenRequest /\ MoveFaithful(q) /\ IsOffered(q)
          /\ q.status = "PENDING" => q.op # "none"
          /\ q.op = "UPDATE_STATUS" => host = "report"
      <4>1. CASE j # k
        BY <2>4, <3>1, <4>1 DEF ScreenInvariant, ScreenQueue
      <4>2. CASE j = k
        BY <2>2, <2>4, <3>1, <4>2 DEF MoveFaithful, IsOffered
      <4> QED BY <4>1, <4>2
    <3>3. MoveFaithful(q)' /\ IsOffered(q)'
      BY <3>2, MoveFaithfulOnward, OfferedOnward DEF ScreenInvariant, ScreenRequest
    <3> QED BY <3>1, <3>2, <3>3
  <2>6. ScreenQueue'
    BY <2>4, <2>5 DEF ScreenQueue, ScreenOnward
  <2> QED BY <2>2, <2>4, <2>6
<1> QED BY <1>2, <1>3

LEMMA ScreenItemOver ==
    ASSUME ScreenInvariant, ScreenOnward, ScreenRows', UNCHANGED <<act, excused>>,
           NEW todo, todo \subseteq run.todo,
           run' = Screen!Passed(todo, TRUE) \/ run' = Screen!Passed(todo, FALSE),
           NEW k \in DOMAIN queue, k \notin todo,
           NEW status \in {"SYNCED", "CONFLICT", "FAILED"}, queue' = queue \/ Screen!Ends(k, status),
           status = "SYNCED" => ~Unanswered(k),
           cache' = cache \/ cache'.sync # "PENDING", IsLater(cache) => IsLater(cache)'
    PROVE  ScreenInvariant'
<1>1. /\ ScreenQueue' /\ Len(queue') = Len(queue) /\ DOMAIN queue' = DOMAIN queue
      /\ \A j \in DOMAIN queue : j # k => queue'[j] = queue[j]
      /\ queue' = queue \/ queue'[k].status = status
  BY ScreenEnds
<1>2. todo \in SUBSET Nat /\ queue \in Seq(ScreenRequest)
  BY DEF ScreenInvariant, ScreenRunning, ScreenRun, ScreenQueue
<1>3. /\ run' \in ScreenRun /\ run'.todo = todo /\ run'.item = 0
      /\ run'.step \in {"idle", "judge"} /\ run'.row = Screen!NoCopy
  BY <1>2, ScreenPassed
<1>4. ScreenRunning'
  <2>1. \A j \in todo : j \in DOMAIN queue' /\ queue'[j].status = "PENDING"
    BY <1>1 DEF ScreenInvariant, ScreenRunning
  <2> QED BY <1>3, <2>1, NoReportCopy DEF ScreenRunning, SendingRow, RowFaithful
<1>5. \A j \in DOMAIN queue : Unanswered(j) => Unanswered(j)'
  BY <1>1, <1>3 DEF Unanswered
<1>6. ScreenAct'
  BY ScreenActStays DEF ScreenInvariant
<1>7. RowOwed'
  BY <1>1, <1>5 DEF ScreenInvariant, ScreenOwed, RowOwed
<1>8. ASSUME Publishes'
      PROVE  Published(Len(queue))'
  <2>1. Published(Len(queue))
    BY <1>8 DEF ScreenInvariant, ScreenOwed, Publishes
  <2>2. PICK last : last = Len(queue)
    OBVIOUS
  <2>3. last > 0 /\ last \in DOMAIN queue /\ (Unanswered(last) \/ Overtaken)
    BY <1>2, <2>1, <2>2 DEF Published
  <2>4. act.row.version \in Nat /\ server.version \in Nat /\ server'.version \in Nat
        /\ server'.version >= server.version
    BY DEF ScreenInvariant, ScreenAct, ScreenOperation, ReportRow, ScreenServer, ReportOnServer,
           ScreenOnward
  <2>5. Overtaken => Overtaken'
    BY <1>3, <2>4 DEF Overtaken, IsLater
  <2>6. queue'[last].status = "PENDING" =>
          queue'[last].op = "UPDATE_STATUS" /\ queue'[last].version = act.row.version
    BY <1>1, <2>1, <2>2, <2>3 DEF Published
  <2>7. Published(last)'
    BY <1>3, <1>5, <2>3, <2>5, <2>6 DEF Published
  <2> QED BY <1>1, <2>2, <2>7
<1> QED BY <1>1, <1>4, <1>6, <1>7, <1>8 DEF ScreenInvariant, ScreenOnward, ScreenOwed

(* The request that is being delivered goes on.                            *)
LEMMA ScreenItemOn ==
    ASSUME ScreenInvariant, ScreenOnward, ScreenRows', UNCHANGED <<act, queue>>,
           run' \in ScreenRun, run'.todo \subseteq run.todo, run'.step \in SendingRow,
           run'.item \in DOMAIN queue, run'.item \notin run'.todo,
           queue[run'.item].status = "PENDING",
           run'.step = "answered" => run'.row.sync = "SYNCED",
           run'.row.status # "GONE", RowFaithful(run.row)',
           RowOwed', Publishes => Published(Len(queue))'
    PROVE  ScreenInvariant'
<1>1. ScreenRunning'
  BY DEF ScreenInvariant, ScreenRunning
<1>2. ScreenOwed'
  BY DEF ScreenOwed, Publishes
<1> QED BY <1>1, <1>2, ScreenQueueStays, ScreenActStays DEF ScreenInvariant, ScreenOnward

LEMMA ScreenStartRunKeeps ==
    ASSUME ScreenInvariant, Screen!StartRun
    PROVE  ScreenInvariant'
<1>1. /\ run.step = "idle"
      /\ run' = Screen!Turn({k \in DOMAIN queue : Screen!Waiting(k)},
                            \E k \in DOMAIN queue : queue[k].status = "CONFLICT", "judge")
      /\ UNCHANGED <<host, server, cache, shown, holdLog, chosen, queue, act, excused>>
  BY DEF Screen!StartRun, Screen!fixed
<1>2. PICK todo : todo = {k \in DOMAIN queue : Screen!Waiting(k)}
  OBVIOUS
<1>3. PICK skips \in BOOLEAN : skips <=> \E k \in DOMAIN queue : queue[k].status = "CONFLICT"
  OBVIOUS
<1>4. run' = [todo |-> todo, item |-> 0, step |-> "judge",
              skips |-> \E k \in DOMAIN queue : queue[k].status = "CONFLICT", row |-> Screen!NoCopy]
  BY <1>1, <1>2, Zenon DEF Screen!Turn
<1>5. run' = [todo |-> todo, item |-> 0, step |-> "judge", skips |-> skips, row |-> Screen!NoCopy]
  BY <1>3, <1>4
<1>6. todo \in SUBSET Nat /\ \A k \in todo : k \in DOMAIN queue /\ queue[k].status = "PENDING"
  BY <1>2 DEF ScreenInvariant, ScreenQueue, Screen!Waiting
<1>7. /\ run' \in ScreenRun /\ run'.todo = todo /\ run'.step = "judge" /\ run'.row = Screen!NoCopy
  BY <1>5, <1>6, NoReportCopy DEF ScreenRun
<1>8. ScreenOnward /\ ScreenRows'
  BY <1>1, ScreenServerRests, ScreenRowsStay DEF ScreenInvariant
<1>9. ScreenRunning'
  BY <1>1, <1>6, <1>7, NoReportCopy DEF ScreenRunning, SendingRow, RowFaithful
<1>10. RowOwed'
  BY <1>1, <1>7 DEF ScreenInvariant, ScreenOwed, RowOwed, Unanswered
<1>11. Publishes => Published(Len(queue))'
  BY <1>1, <1>7 DEF ScreenInvariant, ScreenOwed, Published, Unanswered, Overtaken, IsLater
<1> QED BY <1>1, <1>8, <1>9, <1>10, <1>11, ScreenQueueStays, ScreenActStays
       DEF ScreenInvariant, ScreenOnward, ScreenOwed, Publishes

LEMMA ScreenJudgeKeeps ==
    ASSUME ScreenInvariant, Screen!Judge
    PROVE  ScreenInvariant'
<1>1. PICK k \in run.todo :
          /\ IF run.skips THEN Screen!Ends(k, "CONFLICT") /\ run' = Screen!Passed(run.todo \ {k}, TRUE)
             ELSE UNCHANGED queue /\ Screen!Takes(k)
          /\ UNCHANGED <<host, server, cache, shown, holdLog, chosen, act, excused>>
          /\ run.step = "judge"
  BY DEF Screen!Judge, Screen!fixed
<1>2. ScreenOnward /\ ScreenRows'
  BY <1>1, ScreenServerRests, ScreenRowsStay DEF ScreenInvariant
<1>3. /\ run \in ScreenRun /\ k \in DOMAIN queue /\ queue[k].status = "PENDING" /\ k \in Nat
      /\ run.row.status # "GONE" /\ RowFaithful(run.row)
  BY DEF ScreenInvariant, ScreenRunning, ScreenRun
<1>4. CASE run.skips
  <2>1. PICK todo : todo = run.todo \ {k}
    OBVIOUS
  <2>2. Screen!Ends(k, "CONFLICT") /\ run' = Screen!Passed(todo, TRUE)
    BY <1>1, <1>4, <2>1
  <2>3. (IsLater(cache) => IsLater(cache)') /\ cache' = cache /\ UNCHANGED <<act, excused>>
    BY <1>1 DEF IsLater
  <2>4. k \notin todo /\ todo \subseteq run.todo
    BY <2>1
  <2> QED BY <1>2, <1>3, <2>2, <2>3, <2>4, ScreenItemOver
<1>5. CASE ~run.skips
  <2>1. UNCHANGED queue /\ Screen!Takes(k)
    BY <1>1, <1>5
  <2>2. /\ run' \in ScreenRun /\ run'.todo = run.todo \ {k} /\ run'.item = k /\ run'.step = "send"
        /\ run'.row = run.row
    BY <1>3, <2>1 DEF Screen!Takes, ScreenRun, SendingRow
  <2>3. RowFaithful(run.row)'
    <3>1. PICK row : row = run.row
      OBVIOUS
    <3>2. RowFaithful(row)'
      BY <1>2, <1>3, <3>1, RowFaithfulOnward DEF ScreenInvariant, ScreenRun
    <3> QED BY <2>2, <3>1, <3>2
  <2>4. RowOwed'
    BY <1>1, <2>1, <2>2 DEF ScreenInvariant, ScreenOwed, RowOwed, Unanswered
  <2>5. Publishes => Published(Len(queue))'
    BY <1>1, <2>1, <2>2 DEF ScreenInvariant, ScreenOwed, Published, Unanswered, Overtaken, IsLater
  <2> QED BY <1>1, <1>2, <1>3, <2>1, <2>2, <2>3, <2>4, <2>5, ScreenItemOn DEF SendingRow
<1> QED BY <1>4, <1>5

(* The request that is being delivered.                                    *)
LEMMA ItemUnderWay ==
    ASSUME ScreenInvariant, run.step \in SendingRow, NEW item, item = Screen!Item
    PROVE  /\ run \in ScreenRun /\ run.item \in DOMAIN queue /\ run.item \notin run.todo
           /\ item = queue[run.item] /\ item.status = "PENDING" /\ item \in ScreenRequest
           /\ item.op \in Queueing /\ (item.op \notin {"TRANSITION", "UPDATE"} => host = "report")
           /\ MoveFaithful(item) /\ IsOffered(item)
           /\ run.row \in ReportRow /\ run.row.status # "GONE" /\ RowFaithful(run.row)
<1>1. item = queue[run.item]
  BY DEF Screen!Item
<1>2. run \in ScreenRun /\ run.item \in DOMAIN queue /\ run.item \notin run.todo
      /\ queue[run.item].status = "PENDING"
  BY DEF ScreenInvariant, ScreenRunning
<1>3. item \in ScreenRequest /\ item.op # "none" /\ (item.op = "UPDATE_STATUS" => host = "report")
      /\ MoveFaithful(item) /\ IsOffered(item)
  BY <1>1, <1>2 DEF ScreenInvariant, ScreenQueue
<1>4. item.op \in Queueing
  BY <1>3 DEF ScreenRequest
<1>5. item.op \notin {"TRANSITION", "UPDATE"} => item.op = "UPDATE_STATUS"
  BY <1>4 DEF Queueing
<1> QED BY <1>1, <1>2, <1>3, <1>4, <1>5 DEF ScreenInvariant, ScreenRunning, ScreenRun

LEMMA ScreenDeliverKeeps ==
    ASSUME ScreenInvariant, Screen!Deliver
    PROVE  ScreenInvariant'
<1>1. /\ run.step = "send" /\ Screen!Answered(Screen!Item) = 200 /\ server' = Screen!After(Screen!Item)
      /\ Screen!Onward(Screen!Copied(server'), "answered")
      /\ UNCHANGED <<host, cache, shown, holdLog, chosen, queue, act, excused>>
  BY DEF Screen!Deliver, Screen!fixed
<1>2. PICK item : item = Screen!Item
  OBVIOUS
<1>3. /\ run \in ScreenRun /\ run.item \in DOMAIN queue /\ run.item \notin run.todo
      /\ item = queue[run.item] /\ item.status = "PENDING" /\ item \in ScreenRequest
      /\ item.op \in Queueing /\ (item.op \notin {"TRANSITION", "UPDATE"} => host = "report")
  BY <1>1, <1>2, ItemUnderWay DEF SendingRow
<1>4. /\ ScreenOnward /\ server'.status # "GONE"
      /\ item.op = "UPDATE_STATUS" => server.version = item.version /\ server'.version = item.version + 1
  <2>1. item.op \in ScreenOp \ {"OPEN"} /\ item.op # "DELETE"
    BY <1>3 DEF ScreenOp, Queueing
  <2>2. Screen!Answered(item) = 200 /\ server' = Screen!After(item) /\ host' = host
    BY <1>1, <1>2
  <2> QED BY <1>3, <2>1, <2>2, AcceptedMoves DEF ScreenInvariant
<1>5. ScreenRows' /\ ScreenServer'
  BY <1>1, <1>4, ScreenRowsStay DEF ScreenInvariant, ScreenOnward
<1>6. PICK row : row = Screen!Copied(server')
  OBVIOUS
<1>7. /\ row \in ReportRow /\ row.sync = "SYNCED" /\ RowFaithful(row)'
      /\ row.status = server'.status /\ row.version = server'.version
  BY <1>5, <1>6, CopiedIsFaithful
<1>8. /\ run' \in ScreenRun /\ run'.todo = run.todo /\ run'.item = run.item
      /\ run'.step = "answered" /\ run'.row = row
  <2>1. Screen!Onward(row, "answered") /\ "answered" \in SendingRow
    BY <1>1, <1>6 DEF SendingRow
  <2> QED BY <1>3, <1>7, <2>1, ScreenOnwards
<1>9. RowFaithful(run.row)'
  BY <1>7, <1>8
<1>10. RowOwed'
  BY <1>1, <1>8 DEF ScreenInvariant, ScreenOwed, RowOwed, Unanswered
<1>11. ASSUME Publishes
       PROVE  Published(Len(queue))'
  <2>1. PICK last : last = Len(queue)
    OBVIOUS
  <2>2. Published(last)
    BY <1>11, <2>1 DEF ScreenInvariant, ScreenOwed
  <2>3. /\ act.row.version \in Nat /\ server.version \in Nat /\ server'.version \in Nat
        /\ server'.version >= server.version
    BY <1>4 DEF ScreenInvariant, ScreenAct, ScreenOperation, ReportRow, ScreenServer, ReportOnServer,
           ScreenOnward
  <2>4. Unanswered(last) => Unanswered(last)'
    BY <1>1, <1>8 DEF Unanswered
  <2>5. Overtaken => Overtaken'
    BY <1>1, <1>7, <1>8, <2>3 DEF Overtaken, IsLater
  <2>6. run.item = last => run'.row.version > act.row.version /\ server'.version > act.row.version
    BY <1>3, <1>4, <1>7, <1>8, <2>2, <2>3 DEF Published
  <2>7. Published(last)'
    BY <1>1, <1>8, <2>2, <2>4, <2>5, <2>6 DEF Published
  <2> QED BY <1>1, <2>1, <2>7
<1> QED BY <1>1, <1>3, <1>4, <1>5, <1>7, <1>8, <1>9, <1>10, <1>11, ScreenItemOn DEF SendingRow

LEMMA ScreenLoseDeliveryKeeps ==
    ASSUME ScreenInvariant, Screen!LoseDelivery
    PROVE  ScreenInvariant'
<1>1. /\ run.step = "send" /\ run' = Screen!Passed(run.todo, TRUE)
      /\ server' = server
         \/ (Screen!Answered(Screen!Item) = 200 /\ server' = Screen!After(Screen!Item))
      /\ UNCHANGED <<host, cache, shown, holdLog, chosen, queue, act, excused>>
  BY DEF Screen!LoseDelivery, Screen!fixed
<1>2. PICK item : item = Screen!Item
  OBVIOUS
<1>3. /\ run.item \in DOMAIN queue /\ run.item \notin run.todo
      /\ item.op \in Queueing /\ (item.op \notin {"TRANSITION", "UPDATE"} => host = "report")
  BY <1>1, <1>2, ItemUnderWay DEF SendingRow
<1>4. ScreenOnward
  <2>1. item.op \in ScreenOp \ {"OPEN"}
    BY <1>3 DEF ScreenOp, Queueing
  <2>2. CASE server' = server
    BY <1>1, <2>2, ScreenServerRests DEF ScreenInvariant
  <2>3. CASE Screen!Answered(item) = 200 /\ server' = Screen!After(item)
    BY <1>1, <1>3, <2>1, <2>3, AcceptedMoves DEF ScreenInvariant
  <2> QED BY <1>1, <1>2, <2>2, <2>3
<1>5. ScreenRows'
  BY <1>1, <1>4, ScreenRowsStay DEF ScreenInvariant
<1>6. IsLater(cache) => IsLater(cache)'
  BY <1>1 DEF IsLater
<1>7. PICK todo, k : todo = run.todo /\ k = run.item
  OBVIOUS
<1>8. run' = Screen!Passed(todo, TRUE) /\ k \in DOMAIN queue /\ k \notin todo /\ todo \subseteq run.todo
  BY <1>1, <1>3, <1>7
<1> QED BY <1>1, <1>4, <1>5, <1>6, <1>8, ScreenItemOver

LEMMA ScreenRefuseKeeps ==
    ASSUME ScreenInvariant, Screen!Refuse
    PROVE  ScreenInvariant'
<1>1. PICK code : code = Screen!Answered(Screen!Item)
  OBVIOUS
<1>2. /\ run.step = "send" /\ code # 200 /\ run' = Screen!Passed(run.todo, TRUE)
      /\ cache' = CASE ~Screen!IsCached \/ code = 404 -> cache
                    [] Screen!IsCached /\ code = 409 -> Screen!Marked("CONFLICT", cache.pendingTo)
                    [] Screen!IsCached /\ code = 400 -> Screen!Marked("ERROR", Screen!NoStatus)
      /\ Screen!Ends(run.item, IF code = 409 THEN "CONFLICT" ELSE "FAILED")
      /\ UNCHANGED <<host, server, shown, holdLog, chosen, act, excused>>
  BY <1>1 DEF Screen!Refuse, Screen!fixed
<1>3. code \in {200, 400, 404, 409}
  BY <1>1 DEF Screen!Answered
<1>4. run.item \in DOMAIN queue /\ run.item \notin run.todo
  <2>1. PICK item : item = Screen!Item
    OBVIOUS
  <2> QED BY <1>2, <2>1, ItemUnderWay DEF SendingRow
<1>5. cache \in ReportRow /\ cache.status # "GONE" /\ RowFaithful(cache)
  BY DEF ScreenInvariant, ScreenRows
<1>6. PICK row : row = cache'
  OBVIOUS
<1>7. /\ row \in ReportRow /\ row.status = cache.status /\ row.version = cache.version
      /\ row = cache \/ row.sync \in {"CONFLICT", "ERROR"}
  <2>1. CASE ~Screen!IsCached \/ code = 404
    BY <1>2, <1>5, <1>6, <2>1
  <2>2. CASE Screen!IsCached /\ code = 409
    <3>1. PICK to : to = cache.pendingTo
      OBVIOUS
    <3>2. row = Screen!Marked("CONFLICT", to) /\ to \in KnownStatus
      BY <1>2, <1>5, <1>6, <2>2, <3>1 DEF ReportRow
    <3> QED BY <1>5, <3>2, MarkedReport
  <2>3. CASE Screen!IsCached /\ code = 400
    <3>1. PICK to : to = "NONE"
      OBVIOUS
    <3>2. row = Screen!Marked("ERROR", to) /\ to \in KnownStatus
      BY <1>2, <1>6, <2>3, <3>1, KnownStatuses
    <3> QED BY <1>5, <3>2, MarkedReport
  <2> QED BY <1>2, <1>3, <2>1, <2>2, <2>3
<1>8. RowFaithful(row) /\ row.status # "GONE" /\ cache' = row
  BY <1>5, <1>6, <1>7 DEF RowFaithful
<1>9. ScreenOnward /\ ScreenRows'
  BY <1>2, <1>7, <1>8, ScreenCached
<1>10. IsLater(cache) => IsLater(cache)'
  BY <1>2, <1>7, <1>8 DEF IsLater
<1>11. PICK todo, k, status : /\ todo = run.todo /\ k = run.item
                              /\ status = IF code = 409 THEN "CONFLICT" ELSE "FAILED"
  OBVIOUS
<1>12. /\ run' = Screen!Passed(todo, TRUE) /\ Screen!Ends(k, status) /\ k \in DOMAIN queue
       /\ k \notin todo /\ todo \subseteq run.todo /\ status \in {"CONFLICT", "FAILED"}
  BY <1>2, <1>4, <1>11
<1>13. cache' = cache \/ cache'.sync # "PENDING"
  BY <1>7, <1>8
<1> QED BY <1>2, <1>9, <1>10, <1>12, <1>13, ScreenItemOver

LEMMA EndItemKeeps ==
    ASSUME ScreenInvariant, Screen!EndItem
    PROVE  ScreenInvariant'
<1>1. /\ run.step = "end" /\ Screen!Ends(run.item, "SYNCED") /\ run' = Screen!Passed(run.todo, FALSE)
      /\ UNCHANGED <<host, server, cache, shown, holdLog, chosen, act, excused>>
  BY DEF Screen!EndItem, Screen!fixed
<1>2. PICK item, todo, k : item = Screen!Item /\ todo = run.todo /\ k = run.item
  OBVIOUS
<1>3. k \in DOMAIN queue /\ k \notin todo /\ todo \subseteq run.todo
  BY <1>1, <1>2, ItemUnderWay DEF SendingRow
<1>4. ScreenOnward /\ ScreenRows' /\ (IsLater(cache) => IsLater(cache)')
  BY <1>1, ScreenServerRests, ScreenRowsStay DEF ScreenInvariant, IsLater
<1>5. ~Unanswered(k) /\ Screen!Ends(k, "SYNCED") /\ run' = Screen!Passed(todo, FALSE)
  BY <1>1, <1>2 DEF Unanswered
<1> QED BY <1>1, <1>3, <1>4, <1>5, ScreenItemOver

(* What has been answered is cached; the row is read and written again.    *)
LEMMA CacheAnswerKeeps ==
    ASSUME ScreenInvariant, Screen!CacheAnswer
    PROVE  ScreenInvariant'
<1>1. /\ run.step = "answered" /\ cache' = run.row
      /\ \E step \in {"see", "end"} : Screen!Onward(run.row, step)
      /\ UNCHANGED <<host, server, shown, holdLog, chosen, queue, act, excused>>
  BY DEF Screen!CacheAnswer, Screen!fixed
<1>2. PICK step \in {"see", "end"} : Screen!Onward(run.row, step)
  BY <1>1
<1>3. PICK item, row : item = Screen!Item /\ row = run.row
  OBVIOUS
<1>4. /\ run \in ScreenRun /\ run.item \in DOMAIN queue /\ run.item \notin run.todo
      /\ item = queue[run.item] /\ item.status = "PENDING"
      /\ row \in ReportRow /\ row.status # "GONE" /\ RowFaithful(row)
  BY <1>1, <1>3, ItemUnderWay DEF SendingRow
<1>5. row.sync = "SYNCED" /\ cache' = row
  BY <1>1, <1>3 DEF ScreenInvariant, ScreenRunning
<1>6. ScreenOnward /\ ScreenRows'
  BY <1>1, <1>4, <1>5, ScreenCached
<1>7. /\ run' \in ScreenRun /\ run'.todo = run.todo /\ run'.item = run.item
      /\ run'.step = step /\ run'.row = row
  <2>1. Screen!Onward(row, step) /\ step \in SendingRow
    BY <1>2, <1>3 DEF SendingRow
  <2> QED BY <1>4, <2>1, ScreenOnwards
<1>8. RowFaithful(run.row)'
  BY <1>4, <1>6, <1>7, RowFaithfulOnward DEF ScreenInvariant
<1>9. RowOwed'
  BY <1>5 DEF RowOwed
<1>10. ASSUME Publishes
       PROVE  Published(Len(queue))'
  <2>1. PICK last : last = Len(queue)
    OBVIOUS
  <2>2. Published(last)
    BY <1>10, <2>1 DEF ScreenInvariant, ScreenOwed
  <2>3. CASE run.item = last
    <3>1. row.version > act.row.version /\ server.version > act.row.version
      BY <1>1, <1>3, <2>2, <2>3 DEF Published
    <3>2. Overtaken'
      BY <1>1, <1>5, <1>7, <3>1 DEF Overtaken, IsLater
    <3>3. Published(last)'
      BY <1>1, <1>7, <2>2, <3>2 DEF Published
    <3> QED BY <1>1, <2>1, <3>3
  <2>4. CASE run.item # last
    <3>1. Unanswered(last) => Unanswered(last)'
      BY <1>1, <1>7, <2>4 DEF Unanswered
    <3>2. Overtaken => Overtaken'
      BY <1>1, <1>3, <1>5, <1>7 DEF Overtaken, IsLater
    <3>3. Published(last)'
      BY <1>1, <1>7, <2>2, <3>1, <3>2 DEF Published
    <3> QED BY <1>1, <2>1, <3>3
  <2> QED BY <2>3, <2>4
<1> QED BY <1>1, <1>3, <1>4, <1>6, <1>7, <1>8, <1>9, <1>10, ScreenItemOn DEF SendingRow

LEMMA SeeDeliveredKeeps ==
    ASSUME ScreenInvariant, Screen!SeeDelivered
    PROVE  ScreenInvariant'
<1>1. /\ run.step = "see" /\ \E step \in {"write", "end"} : Screen!Onward(cache, step)
      /\ UNCHANGED <<host, server, cache, shown, holdLog, chosen, queue, act, excused>>
  BY DEF Screen!SeeDelivered, Screen!fixed
<1>2. PICK step \in {"write", "end"} : Screen!Onward(cache, step)
  BY <1>1
<1>3. PICK item, row : item = Screen!Item /\ row = cache
  OBVIOUS
<1>4. /\ run \in ScreenRun /\ run.item \in DOMAIN queue /\ run.item \notin run.todo
      /\ item = queue[run.item] /\ item.status = "PENDING"
  BY <1>1, <1>3, ItemUnderWay DEF SendingRow
<1>5. row \in ReportRow /\ row.status # "GONE" /\ RowFaithful(row)
  BY <1>3 DEF ScreenInvariant, ScreenRows
<1>6. ScreenOnward /\ ScreenRows'
  BY <1>1, ScreenServerRests, ScreenRowsStay DEF ScreenInvariant
<1>7. /\ run' \in ScreenRun /\ run'.todo = run.todo /\ run'.item = run.item
      /\ run'.step = step /\ run'.row = row
  <2>1. Screen!Onward(row, step) /\ step \in SendingRow
    BY <1>2, <1>3 DEF SendingRow
  <2> QED BY <1>4, <1>5, <2>1, ScreenOnwards
<1>8. RowFaithful(run.row)'
  BY <1>5, <1>6, <1>7, RowFaithfulOnward DEF ScreenInvariant
<1>9. \A k : Unanswered(k) => Unanswered(k)'
  BY <1>1, <1>7 DEF Unanswered
<1>10. RowOwed'
  BY <1>1, <1>9 DEF ScreenInvariant, ScreenOwed, RowOwed
<1>11. ASSUME Publishes
       PROVE  Published(Len(queue))'
  <2>1. PICK last : last = Len(queue)
    OBVIOUS
  <2>2. Published(last)
    BY <1>11, <2>1 DEF ScreenInvariant, ScreenOwed
  <2>3. Overtaken => Overtaken'
    BY <1>1, <1>3, <1>7 DEF Overtaken, IsLater
  <2>4. Published(last)'
    BY <1>1, <1>7, <1>9, <2>2, <2>3 DEF Published
  <2> QED BY <1>1, <2>1, <2>4
<1> QED BY <1>1, <1>3, <1>4, <1>5, <1>6, <1>7, <1>8, <1>10, <1>11, ScreenItemOn DEF SendingRow

LEMMA WriteDeliveredKeeps ==
    ASSUME ScreenInvariant, Screen!WriteDelivered
    PROVE  ScreenInvariant'
<1>1. /\ run.step = "write" /\ cache' = run.row /\ Screen!Onward(run.row, "end")
      /\ excused' = (excused \/ cache # run.row)
      /\ UNCHANGED <<host, server, shown, holdLog, chosen, queue, act>>
  BY DEF Screen!WriteDelivered, Screen!fixed
<1>2. PICK item, row : item = Screen!Item /\ row = run.row
  OBVIOUS
<1>3. /\ run \in ScreenRun /\ run.item \in DOMAIN queue /\ run.item \notin run.todo
      /\ item = queue[run.item] /\ item.status = "PENDING"
      /\ row \in ReportRow /\ row.status # "GONE" /\ RowFaithful(row)
  BY <1>1, <1>2, ItemUnderWay DEF SendingRow
<1>4. ScreenOnward /\ ScreenRows'
  BY <1>1, <1>2, <1>3, ScreenCached
<1>5. /\ run' \in ScreenRun /\ run'.todo = run.todo /\ run'.item = run.item
      /\ run'.step = "end" /\ run'.row = row
  <2>1. Screen!Onward(row, "end") /\ "end" \in SendingRow
    BY <1>1, <1>2 DEF SendingRow
  <2> QED BY <1>3, <2>1, ScreenOnwards
<1>6. RowFaithful(run.row)'
  BY <1>3, <1>4, <1>5, RowFaithfulOnward DEF ScreenInvariant
<1>7. \A k : Unanswered(k) => Unanswered(k)'
  BY <1>1, <1>5 DEF Unanswered
<1>8. RowOwed'
  BY <1>1, <1>2, <1>7 DEF ScreenInvariant, ScreenOwed, RowOwed
<1>9. ASSUME Publishes
      PROVE  Published(Len(queue))'
  <2>1. PICK last : last = Len(queue)
    OBVIOUS
  <2>2. Published(last)
    BY <1>9, <2>1 DEF ScreenInvariant, ScreenOwed
  <2>3. Overtaken => Overtaken'
    BY <1>1, <1>5 DEF Overtaken, IsLater
  <2>4. Published(last)'
    BY <1>1, <1>5, <1>7, <2>2, <2>3 DEF Published
  <2> QED BY <1>1, <2>1, <2>4
<1> QED BY <1>1, <1>2, <1>3, <1>4, <1>5, <1>6, <1>8, <1>9, ScreenItemOn DEF SendingRow

----------------------------------------------------------------------------
(* The screen of a report: every step keeps the invariant.                 *)

LEMMA ScreenStepKeeps ==
    ASSUME ScreenInvariant, Screen!ReportScreenNext
    PROVE  ScreenInvariant'
<1>1. CASE Screen!ScreenStep
  BY <1>1, ScreenBegunKeeps, BeginDeletionKeeps, ShowKeeps, SelectKeeps, GetImpactKeeps, ScreenPostKeeps,
     LosePostKeeps, StoreKeeps, PutKeeps, SeeKeeps, WriteBackKeeps, LogLocallyKeeps, GetLogsKeeps,
     PutLogsKeeps, ProceedKeeps, ForgetKeeps, PruneKeeps, ScreenEnqueueKeeps DEF Screen!ScreenStep
<1>2. CASE Screen!DeliveryStep
  BY <1>2, ScreenStartRunKeeps, ScreenJudgeKeeps, ScreenDeliverKeeps, ScreenRefuseKeeps, ScreenLoseDeliveryKeeps,
     CacheAnswerKeeps, SeeDeliveredKeeps, WriteDeliveredKeeps, EndItemKeeps DEF Screen!DeliveryStep
<1>3. CASE Screen!Disconnect \/ Screen!Reconnect
  <2>1. UNCHANGED <<host, server, cache, shown, holdLog, chosen, queue, act, run, excused>>
    BY <1>3 DEF Screen!Disconnect, Screen!Reconnect, Screen!fixed
  <2> QED BY <2>1, ScreenRests
<1>4. CASE Screen!OthersAct
  BY <1>4, ScreenOthersKeep
<1>5. CASE Screen!Pull
  BY <1>5, ScreenPullKeeps
<1> QED BY <1>1, <1>2, <1>3, <1>4, <1>5 DEF Screen!ReportScreenNext

(* A screen of a report's, in the status that the device pulled.           *)
LEMMA ScreenBegins ==
    ASSUME Screen!ReportScreenInit
    PROVE  ScreenInvariant /\ others \in Nat
<1>1. PICK start \in ScreenStarts :
          host = start.host /\ server = [status |-> start.status, version |-> 1,
              heldFrom |-> Screen!NoStatus, logFrom |-> Screen!NoStatus]
  BY DEF Screen!ReportScreenInit
<1>2. /\ start.host \in {"report", "child"} /\ start.status \in Screen!ReportStatus
      /\ start.host = "child" => start.status \in Screen!ChildStatus
  BY DEF ScreenStarts, Screens, Statuses, Screening, Screen!ReportStatus, Screen!ChildStatus
<1>3. /\ cache = Screen!Copied(server) /\ holdLog = Screen!NoStatus
      /\ shown = Screen!View(cache, Screen!NoStatus) /\ chosen = Screen!NoChoice /\ queue = <<>>
      /\ act = Screen!NoOperation /\ run = Screen!NoRun /\ excused = FALSE /\ others = 0
  BY DEF Screen!ReportScreenInit
<1>4. ScreenServer
  BY <1>1, <1>2, KnownStatuses DEF ScreenServer, ReportOnServer
<1>5. /\ cache \in ReportRow /\ cache.status = server.status /\ cache.version = server.version
      /\ cache.sync = "SYNCED"
  <2>1. PICK s : s = server
    OBVIOUS
  <2> QED BY <1>3, <1>4, <2>1, CopiedReport DEF ScreenServer
<1>6. shown \in ReportView /\ shown.row = cache
  BY <1>3, <1>5, KnownStatuses DEF Screen!View, ReportView
<1>7. chosen \in ScreenChoice /\ IsOffered(chosen)
  BY <1>3, NoScreenChoice DEF IsOffered
<1>8. RowFaithful(cache) /\ cache.status # "GONE"
  <2>1. server.status = start.status
    BY <1>1
  <2> QED BY <1>2, <1>4, <1>5, <2>1, KnownStatuses DEF RowFaithful, IsFaithful, ScreenServer, ReportOnServer
<1>9. ScreenRows
  BY <1>3, <1>5, <1>6, <1>7, <1>8, KnownStatuses DEF ScreenRows
<1>10. ScreenAct
  <2>1. PICK r : r = Screen!NoOperation
    OBVIOUS
  <2> QED BY <1>3, <2>1, NothingPlanned, NothingPlannedKeeps DEF ScreenAct
<1>11. ScreenQueue
  BY <1>3 DEF ScreenQueue
<1>12. /\ run \in ScreenRun /\ run.todo = {} /\ run.step = "idle" /\ run.row = Screen!NoCopy
  BY <1>3, NoReportCopy DEF Screen!NoRun, Screen!Turn, ScreenRun
<1>13. ScreenRunning
  BY <1>12, NoReportCopy DEF ScreenRunning, SendingRow, RowFaithful
<1>14. ScreenOwed
  BY <1>3, <1>5, NothingPlanned DEF ScreenOwed, RowOwed, Publishes
<1> QED BY <1>3, <1>4, <1>9, <1>10, <1>11, <1>13, <1>14 DEF ScreenInvariant

(* A row that is owed to the server, and a transition's status.            *)
LEMMA ScreenRowIsOwed ==
    ASSUME ScreenInvariant
    PROVE  Screen!ReportRowOwed
<1>1. Plans(act.todo, {"enqueue"}) => act.todo # <<>>
  BY NoStepsLeft
<1> QED BY <1>1 DEF ScreenInvariant, ScreenOwed, RowOwed, Unanswered, Screen!ReportRowOwed

(* Who changes the server.                                                 *)
LEMMA ScreenChangesServer ==
    ASSUME Screen!ReportScreenNext, others \in Nat
    PROVE  /\ others' \in Nat
           /\ server' # server /\ others' = others =>
                 Screen!Post \/ Screen!LosePost \/ Screen!Deliver \/ Screen!LoseDelivery
<1>1. CASE Screen!Post \/ Screen!LosePost \/ Screen!Deliver \/ Screen!LoseDelivery
  BY <1>1 DEF Screen!Post, Screen!LosePost, Screen!Deliver, Screen!LoseDelivery, Screen!counted
<1>2. CASE Screen!OthersAct
  BY <1>2 DEF Screen!OthersAct
<1>3. CASE \/ Screen!Show \/ Screen!Select \/ Screen!Open \/ Screen!Confirm \/ Screen!ConfirmChild
           \/ Screen!SaveHeader \/ Screen!SaveNotes \/ Screen!Publish \/ Screen!Attach
           \/ Screen!BeginDeletion
  BY <1>3 DEF Screen!Show, Screen!Select, Screen!Open, Screen!Confirm, Screen!ConfirmChild,
     Screen!SaveHeader, Screen!SaveNotes, Screen!Publish, Screen!Attach, Screen!BeginDeletion,
     Screen!Start, Screen!counted
<1>4. CASE \/ Screen!GetImpact \/ Screen!Store \/ Screen!Put \/ Screen!See \/ Screen!WriteBack
           \/ Screen!LogLocally \/ Screen!GetLogs \/ Screen!PutLogs \/ Screen!Proceed
           \/ Screen!Forget \/ Screen!Prune \/ Screen!Enqueue
  BY <1>4 DEF Screen!GetImpact, Screen!Store, Screen!Put, Screen!See, Screen!WriteBack,
     Screen!LogLocally, Screen!GetLogs, Screen!PutLogs, Screen!Proceed, Screen!Forget, Screen!Prune,
     Screen!Enqueue, Screen!counted
<1>5. CASE \/ Screen!StartRun \/ Screen!Judge \/ Screen!Refuse \/ Screen!CacheAnswer
           \/ Screen!SeeDelivered \/ Screen!WriteDelivered \/ Screen!EndItem \/ Screen!Pull
           \/ Screen!Disconnect \/ Screen!Reconnect
  BY <1>5 DEF Screen!StartRun, Screen!Judge, Screen!Refuse, Screen!CacheAnswer,
     Screen!SeeDelivered, Screen!WriteDelivered, Screen!EndItem, Screen!Pull, Screen!Disconnect,
     Screen!Reconnect, Screen!counted
<1> QED BY <1>1, <1>2, <1>3, <1>4, <1>5
       DEF Screen!ReportScreenNext, Screen!ScreenStep, Screen!DeliveryStep

(* What is left to do after a request was sent is not to send it.          *)
LEMMA PostIsOver ==
    ASSUME ScreenInvariant, Screen!Post \/ Screen!LosePost, server' # server
    PROVE  Screen!Now("post") /\ Screen!Answered(act) = 200 /\ act' # act
<1>1. Screen!Now("post") /\ Screen!Answered(act) = 200
  BY DEF Screen!Post, Screen!LosePost
<1>2. ScreenAct /\ act \in ScreenOperation /\ ScreenServer
  BY DEF ScreenInvariant, ScreenAct
<1>3. PICK op, next : op = act.op /\ next = act.next
  OBVIOUS
<1>4. op \in ScreenOp \ {"OPEN"} /\ (op \notin {"TRANSITION", "UPDATE"} => host = "report")
  BY <1>1, <1>2, <1>3, PostUnderWay
<1>5. Plans(act.todo, {"post"}) /\ act.todo # <<>>
  BY <1>1, <1>2, StepUnderWay DEF Plans
<1>6. CASE Screen!Post
  <2>1. act'.todo = Screen!Answering(op, next)
    BY <1>1, <1>3, <1>6 DEF Screen!Post, Screen!Doing
  <2>2. ~Plans(Screen!Answering(op, next), {"post", "enqueue", "put"})
    BY <1>2, <1>4, AnsweredSteps DEF ScreenServer
  <2>3. ~Plans(act'.todo, {"post"})
    BY <2>1, <2>2 DEF Plans
  <2> QED BY <1>1, <1>5, <2>3
<1>7. CASE Screen!LosePost
  <2>1. Screen!Goes(IF Screen!Fails THEN <<>> ELSE Screen!Locally(op, Screen!NoChoice))
    BY <1>3, <1>7 DEF Screen!LosePost
  <2>2. CASE Screen!Fails
    <3>1. act'.todo = <<>>
      BY <2>1, <2>2, NothingPlanned DEF Screen!Goes
    <3> QED BY <1>1, <1>5, <3>1
  <2>3. CASE ~Screen!Fails
    <3>1. PICK todo : todo = Screen!Locally(op, Screen!NoChoice)
      OBVIOUS
    <3>2. op \in Queueing
      BY <1>3, <1>4, <2>3 DEF Screen!Fails, ScreenOp
    <3>3. Plans(todo, {"enqueue"}) /\ todo # <<>>
      BY <1>2, <1>4, <3>1, <3>2, LocallySteps, NoStepsLeft DEF ScreenServer
    <3>4. act'.todo = todo
      BY <2>1, <2>3, <3>1, <3>3 DEF Screen!Goes, Screen!Going
    <3>5. ~Plans(act.todo, {"enqueue"})
      BY <1>1, <1>2, PostUnderWay
    <3> QED BY <1>1, <3>3, <3>4, <3>5
  <2> QED BY <2>2, <2>3
<1> QED BY <1>6, <1>7

LEMMA ScreenMovesAsOffered ==
    ASSUME ScreenInvariant, Screen!ReportScreenNext, others \in Nat
    PROVE  Screen!OnOfferedStatus
<1> SUFFICES ASSUME server'.status # server.status, others' = others, Screen!Sent.op = "TRANSITION"
             PROVE  \/ server.status = Screen!Sent.from
                    \/ Screen!Sent.own /\ (host = "report" \/ server.status = "DRAFT")
  BY DEF Screen!OnOfferedStatus
<1>1. ScreenAct /\ ScreenServer
  BY DEF ScreenInvariant
<1>2. PICK sent : sent = Screen!Sent
  OBVIOUS
<1>3. server' # server
  OBVIOUS
<1>4. Screen!Answered(sent) = 200 /\ MoveFaithful(sent) /\ IsOffered(sent)
  <2>1. CASE Screen!Post \/ Screen!LosePost
    <3>1. Screen!Now("post") /\ Screen!Answered(act) = 200 /\ act' # act
      BY <1>3, <2>1, PostIsOver
    <3>2. sent = act
      BY <1>2, <3>1 DEF Screen!Sent
    <3> QED BY <1>1, <3>1, <3>2, PostUnderWay
  <2>2. CASE Screen!Deliver \/ Screen!LoseDelivery
    <3>1. run.step = "send" /\ Screen!Answered(Screen!Item) = 200 /\ act' = act
      BY <1>3, <2>2 DEF Screen!Deliver, Screen!LoseDelivery
    <3>2. sent = Screen!Item
      BY <1>2, <3>1 DEF Screen!Sent
    <3> QED BY <3>1, <3>2, ItemUnderWay DEF SendingRow
  <2> QED BY <1>3, <2>1, <2>2, ScreenChangesServer
<1> QED BY <1>1, <1>2, <1>4, TransitionsAreOffered

----------------------------------------------------------------------------
(* The administration: types.                                              *)

AdminOp == {"CREATE", "UPDATE", "SET_ACTIVE", "BRAND", "DELETE"}
AdminId == {"local", "real"}
Kept == {"user", "customer"}
AdminRow == [sync : {"none", "SYNCED", "PENDING", "CONFLICT"}, version : Nat, stamp : Nat]
ServerThing == [is : {"unborn", "live", "gone"}, version : Nat, stamp : Nat]
AdminRequest == [op : AdminOp, thing : Kept, id : AdminId, ref : {"none"} \cup AdminId,
                 row : AdminRow, status : {"PENDING", "SYNCED", "CONFLICT", "FAILED"}]
AdminOperation == [op : AdminOp \cup {"none"}, thing : Kept \cup {""}, id : AdminId,
                   row : AdminRow, ref : {"none"} \cup AdminId, found : AdminRow,
                   step : {"done", "form", "post", "store", "reread", "put", "enqueue", "drop"}]
Delivered == {"look", "cache", "clear", "remap", "end"}
AdminRun == [todo : SUBSET Nat, item : Nat, skip : SUBSET (Kept \X AdminId),
             step : {"idle", "next", "send"} \cup Delivered, answer : AdminRow]
AdminPull == [thing : Kept \cup {""}, step : {"idle", "see", "put", "drop"}, answer : AdminRow,
              seen : [AdminId -> AdminRow]]

(* A row of t is as old as its version: with the server's version it has   *)
(* the server's stamp.                                                     *)
VersionSeen(S, t, row) ==
    /\ row.version <= S[t].version
    /\ row.version = S[t].version => row.stamp = S[t].stamp

AdminServer ==
    /\ kept \subseteq Kept
    /\ server \in [Kept -> ServerThing]
    /\ \A t \in Kept : server[t].stamp < server[t].version

AdminCache ==
    /\ cache \in [Kept -> [AdminId -> AdminRow]]
    /\ \A t \in Kept, i \in AdminId : VersionSeen(server, t, cache[t][i])

(* A creation that was given a real id is of something that was made.      *)
AdminQueue ==
    /\ queue \in Seq(AdminRequest)
    /\ \A k \in DOMAIN queue :
          /\ VersionSeen(server, queue[k].thing, queue[k].row)
          /\ queue[k].op = "CREATE" /\ queue[k].id = "real" => server[queue[k].thing].is # "unborn"

AdminAct ==
    /\ act \in AdminOperation
    /\ act.step # "done" =>
          /\ act.thing \in Kept
          /\ VersionSeen(server, act.thing, act.row) /\ VersionSeen(server, act.thing, act.found)
    /\ act.op = "none" <=> act.step = "done"
    /\ act.op = "CREATE" => act.id = "local"
    /\ act.step = "store" =>
          /\ act.row.sync = "SYNCED"
          /\ act.op = "DELETE" => server[act.thing].is = "gone"

(* What the server has done of the request that is being delivered.        *)
AdminRunning ==
    /\ run \in AdminRun /\ run.todo \subseteq DOMAIN queue
    /\ run.step \in {"send"} \cup Delivered => run.item \in DOMAIN queue
    /\ run.step \in Delivered =>
          /\ IF queue[run.item].op = "CREATE"
             THEN queue[run.item].id = "local" /\ server[queue[run.item].thing].is # "unborn"
             ELSE queue[run.item].id = "real" /\ run.step \in {"cache", "end"}
          /\ queue[run.item].op = "DELETE" => server[queue[run.item].thing].is = "gone"
          /\ run.answer.sync = "SYNCED"
          /\ VersionSeen(server, queue[run.item].thing, run.answer)
    /\ run.step = "clear" => queue[run.item].thing = "user"

AdminPulling ==
    /\ pull \in AdminPull
    /\ pull.step # "idle" =>
          /\ pull.thing \in Kept /\ pull.answer.sync \in {"none", "SYNCED"}
          /\ VersionSeen(server, pull.thing, pull.answer)

(* A deletion is not forgotten once its row is to go.                      *)
Decided(t) ==
    \/ server[t].is = "gone"
    \/ \E k \in DOMAIN queue : queue[k].thing = t /\ queue[k].op = "DELETE" /\ queue[k].status # "SYNCED"
AdminDecided ==
    /\ dropped \subseteq Kept /\ \A t \in dropped : Decided(t)
    /\ act.step = "drop" => Decided(act.thing)

(* A row that is not yet synced has a request of its own, which is not     *)
(* through.                                                                *)
IsOver(k, i) == k = run.item /\ (run.step = "end" \/ (run.step = "remap" /\ i = "local"))
Owes(k, t, i) ==
    queue[k].thing = t /\ queue[k].id = i /\ queue[k].status # "SYNCED" /\ ~IsOver(k, i)
AdminOwed ==
    /\ \A t \in Kept \ excused, i \in AdminId :
          cache[t][i].sync = "PENDING" =>
              \/ act.step = "enqueue" /\ act.thing = t /\ act.id = i
              \/ \E k \in DOMAIN queue : Owes(k, t, i)
    /\ run.step = "remap" =>
          \/ queue[run.item].thing \in excused
          \/ cache[queue[run.item].thing]["local"].sync # "PENDING"

AdminInvariant ==
    AdminServer /\ AdminCache /\ AdminQueue /\ AdminAct /\ AdminRunning /\ AdminPulling
        /\ AdminDecided /\ AdminOwed

(* What the server may do between a step and the next.                     *)
KeptOnward ==
    /\ AdminServer'
    /\ \A t \in Kept :
          /\ server[t].is # "unborn" => server'[t].is # "unborn"
          /\ server[t].is = "gone" => server'[t].is = "gone"
          /\ server[t].version <= server'[t].version
          /\ server'[t].version = server[t].version => server'[t].stamp = server[t].stamp

LEMMA AdminServerRests == AdminServer /\ UNCHANGED <<kept, server>> => KeptOnward
BY DEF AdminServer, KeptOnward, ServerThing

LEMMA VersionStaysSeen ==
    ASSUME AdminServer, KeptOnward, NEW t \in Kept, NEW row, row.version \in Nat,
           VersionSeen(server, t, row)
    PROVE  VersionSeen(server', t, row)
<1>1. server \in [Kept -> ServerThing] /\ server' \in [Kept -> ServerThing]
  BY DEF AdminServer, KeptOnward
<1>2. server[t].version \in Nat /\ server'[t].version \in Nat
  BY <1>1 DEF ServerThing
<1>3. /\ server[t].version <= server'[t].version
      /\ server'[t].version = server[t].version => server'[t].stamp = server[t].stamp
  BY DEF KeptOnward
<1> QED BY <1>2, <1>3 DEF VersionSeen

LEMMA AdminRequests == AdminQueue => \A k \in DOMAIN queue : queue[k] \in AdminRequest
BY DEF AdminQueue

LEMMA AdminCacheStays == AdminServer /\ AdminCache /\ KeptOnward /\ UNCHANGED cache => AdminCache'
BY VersionStaysSeen DEF AdminCache, AdminRow

LEMMA AdminQueueStays == AdminServer /\ AdminQueue /\ KeptOnward /\ UNCHANGED queue => AdminQueue'
<1> SUFFICES ASSUME AdminServer, AdminQueue, KeptOnward, UNCHANGED queue
             PROVE  AdminQueue'
  OBVIOUS
<1>1. ASSUME NEW k \in DOMAIN queue
      PROVE  /\ VersionSeen(server', queue[k].thing, queue[k].row)
             /\ queue[k].op = "CREATE" /\ queue[k].id = "real" =>
                   server'[queue[k].thing].is # "unborn"
  <2>1. queue[k] \in AdminRequest
    BY DEF AdminQueue
  <2>2. queue[k].thing \in Kept /\ queue[k].row.version \in Nat
    BY <2>1 DEF AdminRequest, AdminRow
  <2> QED BY <2>2, VersionStaysSeen DEF AdminQueue, KeptOnward
<1> QED BY <1>1 DEF AdminQueue

LEMMA AdminActStays == AdminServer /\ AdminAct /\ KeptOnward /\ UNCHANGED act => AdminAct'
<1> SUFFICES ASSUME AdminServer, AdminAct, KeptOnward, UNCHANGED act
             PROVE  AdminAct'
  OBVIOUS
<1>1. act.row.version \in Nat /\ act.found.version \in Nat
  BY DEF AdminAct, AdminOperation, AdminRow
<1> QED BY <1>1, VersionStaysSeen DEF AdminAct, KeptOnward

LEMMA AdminPullingStays ==
    AdminServer /\ AdminPulling /\ KeptOnward /\ UNCHANGED pull => AdminPulling'
<1> SUFFICES ASSUME AdminServer, AdminPulling, KeptOnward, UNCHANGED pull
             PROVE  AdminPulling'
  OBVIOUS
<1>1. pull.answer.version \in Nat
  BY DEF AdminPulling, AdminPull, AdminRow
<1> QED BY <1>1, VersionStaysSeen DEF AdminPulling

(* The run goes on while its request keeps what it is about.               *)
LEMMA AdminRunningStays ==
    ASSUME AdminServer, AdminQueue, AdminRunning, KeptOnward, UNCHANGED run,
           DOMAIN queue \subseteq DOMAIN queue',
           run.item \in DOMAIN queue =>
               /\ queue'[run.item].op = queue[run.item].op
               /\ queue'[run.item].thing = queue[run.item].thing
               /\ queue'[run.item].id = queue[run.item].id
    PROVE  AdminRunning'
<1>1. run.answer.version \in Nat
  BY DEF AdminRunning, AdminRun, AdminRow
<1>2. run.item \in DOMAIN queue => queue[run.item].thing \in Kept
  BY AdminRequests DEF AdminRequest
<1>3. run.step \in Delivered => run.item \in DOMAIN queue
  BY DEF AdminRunning
<1>4. run.step \in Delivered => VersionSeen(server', queue[run.item].thing, run.answer)
  BY <1>1, <1>2, <1>3, VersionStaysSeen DEF AdminRunning
<1>5. run.step \in Delivered =>
          /\ IF queue[run.item].op = "CREATE"
             THEN queue[run.item].id = "local" /\ server'[queue[run.item].thing].is # "unborn"
             ELSE queue[run.item].id = "real" /\ run.step \in {"cache", "end"}
          /\ queue[run.item].op = "DELETE" => server'[queue[run.item].thing].is = "gone"
  BY <1>2, <1>3 DEF AdminRunning, KeptOnward
<1>6. run.step = "clear" => run.step \in Delivered
  BY DEF Delivered
<1> QED BY <1>3, <1>4, <1>5, <1>6 DEF AdminRunning

(* A deletion stays decided while its request stays as it is.              *)
LEMMA StaysDecided ==
    ASSUME KeptOnward, NEW t \in Kept, Decided(t), DOMAIN queue \subseteq DOMAIN queue',
           \A k \in DOMAIN queue :
               /\ queue'[k].thing = queue[k].thing /\ queue'[k].op = queue[k].op
               /\ queue'[k].status = "SYNCED" /\ queue[k].status # "SYNCED" /\ queue[k].op = "DELETE" =>
                     server[queue[k].thing].is = "gone"
    PROVE  Decided(t)'
BY DEF Decided, KeptOnward

LEMMA AdminDecidedStays ==
    ASSUME AdminAct, AdminDecided, KeptOnward, UNCHANGED <<queue, dropped>>,
           act'.step = "drop" => act' = act
    PROVE  AdminDecided'
<1>1. \A t \in Kept : Decided(t) => Decided(t)'
  BY DEF Decided, KeptOnward
<1>2. act.step = "drop" => act.thing \in Kept
  BY DEF AdminAct
<1> QED BY <1>1, <1>2 DEF AdminDecided

LEMMA AdminOwedStays ==
    ASSUME AdminOwed, UNCHANGED <<queue, run, excused>>,
           act.step = "enqueue" => act' = act,
           \A t \in Kept, i \in AdminId : cache'[t][i].sync = "PENDING" => cache[t][i].sync = "PENDING",
           run.step = "remap" => queue[run.item].thing \in Kept
    PROVE  AdminOwed'
BY DEF AdminOwed, Owes, IsOver, AdminId

(* What the server makes of a request that it answers.                     *)
LEMMA MadeThing ==
    ASSUME NEW s \in ServerThing, s.stamp < s.version
    PROVE  /\ Admin!Made(s) \in ServerThing /\ Admin!Made(s).is = "live"
           /\ Admin!Made(s).version = s.version /\ Admin!Made(s).stamp = s.stamp
BY DEF Admin!Made, ServerThing
LEMMA AlteredThing ==
    ASSUME NEW s \in ServerThing, s.stamp < s.version
    PROVE  /\ Admin!Altered(s) \in ServerThing /\ Admin!Altered(s).is = s.is
           /\ Admin!Altered(s).version = s.version + 1 /\ Admin!Altered(s).stamp = s.stamp
BY DEF Admin!Altered, ServerThing
LEMMA RemovedThing ==
    ASSUME NEW s \in ServerThing, s.stamp < s.version
    PROVE  /\ Admin!Removed(s) \in ServerThing /\ Admin!Removed(s).is = "gone"
           /\ Admin!Removed(s).version = s.version /\ Admin!Removed(s).stamp = s.stamp
BY DEF Admin!Removed, ServerThing
LEMMA ChangedThing ==
    ASSUME NEW s \in ServerThing, s.stamp < s.version
    PROVE  /\ Admin!Changed(s) \in ServerThing /\ Admin!Changed(s).is = s.is
           /\ Admin!Changed(s).version = s.version + 1 /\ Admin!Changed(s).stamp = s.stamp + 1
BY DEF Admin!Changed, ServerThing

LEMMA ThingReplaced ==
    ASSUME AdminServer, UNCHANGED kept, NEW t \in Kept,
           server' \in [Kept -> ServerThing], \A u \in Kept : u # t => server'[u] = server[u],
           server'[t].stamp < server'[t].version,
           server[t].is # "unborn" => server'[t].is # "unborn",
           server[t].is = "gone" => server'[t].is = "gone",
           server[t].version <= server'[t].version,
           server'[t].version = server[t].version => server'[t].stamp = server[t].stamp
    PROVE  KeptOnward
<1>1. server \in [Kept -> ServerThing]
  BY DEF AdminServer
<1>2. \A u \in Kept : server[u].version \in Nat
  BY <1>1 DEF ServerThing
<1>3. AdminServer'
  BY DEF AdminServer
<1> QED BY <1>2, <1>3 DEF KeptOnward

LEMMA RowIsSeen ==
    ASSUME NEW S \in [Kept -> ServerThing], NEW t \in Kept
    PROVE  /\ Admin!RowOf(S[t]) \in AdminRow /\ Admin!RowOf(S[t]).sync = "SYNCED"
           /\ VersionSeen(S, t, Admin!RowOf(S[t]))
<1>1. S[t].version \in Nat /\ S[t].stamp \in Nat
  BY DEF ServerThing
<1> QED BY <1>1 DEF Admin!RowOf, AdminRow, VersionSeen

LEMMA NoRowIsSeen ==
    ASSUME AdminServer, NEW t \in Kept
    PROVE  /\ Admin!NoRow \in AdminRow /\ Admin!NoRow.sync = "none"
           /\ VersionSeen(server, t, Admin!NoRow)
<1>1. server[t].version \in Nat /\ server[t].stamp \in Nat /\ server[t].stamp < server[t].version
  BY DEF AdminServer, ServerThing
<1> QED BY <1>1 DEF Admin!NoRow, AdminRow, VersionSeen

LEMMA ServedOnward ==
    ASSUME AdminServer, UNCHANGED kept, NEW r, r.op \in AdminOp, r.thing \in Kept,
           Admin!MadeOnce(r), Admin!Answered(r) = 200, server' = Admin!After(r)
    PROVE  /\ KeptOnward
           /\ r.op = "CREATE" => server[r.thing].is = "unborn" /\ server'[r.thing].is # "unborn"
           /\ r.op # "CREATE" => r.id = "real"
           /\ r.op = "DELETE" => server'[r.thing].is = "gone"
           /\ Admin!RowOf(server'[r.thing]) \in AdminRow
           /\ Admin!RowOf(server'[r.thing]).sync = "SYNCED"
           /\ VersionSeen(server', r.thing, Admin!RowOf(server'[r.thing]))
<1>1. server \in [Kept -> ServerThing] /\ \A t \in Kept : server[t].stamp < server[t].version
  BY DEF AdminServer
<1>2. PICK t, s : t = r.thing /\ s = server[t]
  OBVIOUS
<1>3. s \in ServerThing /\ s.stamp < s.version /\ s.version \in Nat /\ s.stamp \in Nat
  BY <1>1, <1>2 DEF ServerThing
<1>4. /\ r.op = "CREATE" => s.is = "unborn"
      /\ r.op # "CREATE" => r.id = "real" /\ s.is = "live"
  BY <1>2, <1>3 DEF Admin!Answered, Admin!MadeOnce, Admin!Taken, Admin!Known, ServerThing
<1>5. PICK x : x = (CASE r.op = "CREATE" -> Admin!Made(s)
                      [] r.op = "DELETE" -> Admin!Removed(s)
                      [] OTHER -> Admin!Altered(s))
  OBVIOUS
<1>6. server' = [server EXCEPT ![t] = x]
  BY <1>2, <1>5, Zenon DEF Admin!After
<1>7. /\ x \in ServerThing /\ x.stamp < x.version
      /\ s.version <= x.version /\ (x.version = s.version => x.stamp = s.stamp)
      /\ x.is # "unborn" /\ (s.is = "gone" => x.is = "gone") /\ (r.op = "DELETE" => x.is = "gone")
  <2>1. CASE r.op = "CREATE"
    BY <1>3, <1>4, <1>5, <2>1, MadeThing
  <2>2. CASE r.op = "DELETE"
    <3>1. x = Admin!Removed(s)
      BY <1>5, <2>2
    <3> QED BY <1>3, <2>2, <3>1, RemovedThing
  <2>3. CASE r.op \notin {"CREATE", "DELETE"}
    <3>1. x = Admin!Altered(s)
      BY <1>5, <2>3
    <3> QED BY <1>3, <1>4, <2>3, <3>1, AlteredThing
  <2> QED BY <2>1, <2>2, <2>3
<1>8. KeptOnward /\ server'[t] = x
  <2>1. /\ server[t].is # "unborn" => x.is # "unborn"
        /\ server[t].is = "gone" => x.is = "gone"
        /\ server[t].version <= x.version
        /\ x.version = server[t].version => x.stamp = server[t].stamp
    BY <1>2, <1>7
  <2>2. t \in Kept
    BY <1>2
  <2>3. server' \in [Kept -> ServerThing] /\ server'[t] = x
        /\ \A u \in Kept : u # t => server'[u] = server[u]
    BY <1>1, <1>6, <1>7, <2>2
  <2> QED BY <1>7, <2>1, <2>2, <2>3, ThingReplaced
<1>9. server' \in [Kept -> ServerThing]
  BY <1>8 DEF KeptOnward, AdminServer
<1> QED BY <1>2, <1>4, <1>7, <1>8, <1>9, RowIsSeen

(* A request that may have been served, its answer lost.                   *)
LEMMA PerhapsServedOnward ==
    ASSUME AdminServer, UNCHANGED kept, NEW r, r.op \in AdminOp, r.thing \in Kept,
           Admin!MadeOnce(r),
           server' \in {server} \cup (IF Admin!Answered(r) = 200 THEN {Admin!After(r)} ELSE {})
    PROVE  KeptOnward
<1>1. CASE server' = server
  BY <1>1, AdminServerRests
<1>2. CASE Admin!Answered(r) = 200 /\ server' = Admin!After(r)
  BY <1>2, ServedOnward
<1> QED BY <1>1, <1>2

(* ------------------------------ the screen ----------------------------- *)

(* A step that only moves the operation of the screen on.                  *)
LEMMA AdminActMoves ==
    ASSUME AdminInvariant, UNCHANGED <<cache, queue, run, pull, dropped, excused>>,
           KeptOnward, AdminAct', act.step # "enqueue", act'.step # "drop"
    PROVE  AdminInvariant'
<1>1. AdminServer'
  BY DEF KeptOnward
<1>2. AdminCache' /\ AdminQueue' /\ AdminPulling'
  BY AdminCacheStays, AdminQueueStays, AdminPullingStays DEF AdminInvariant
<1>3. AdminRunning'
  BY AdminRunningStays DEF AdminInvariant
<1>4. AdminDecided'
  BY AdminDecidedStays DEF AdminInvariant
<1>5. AdminOwed'
  BY DEF AdminInvariant, AdminOwed, Owes, IsOver
<1> QED BY <1>1, <1>2, <1>3, <1>4, <1>5 DEF AdminInvariant

LEMMA NoAdminOperation ==
    /\ Admin!NoOperation \in AdminOperation
    /\ Admin!NoOperation.step = "done" /\ Admin!NoOperation.op = "none"
BY DEF Admin!NoOperation, AdminOperation, Admin!NoRow, AdminRow, AdminId

LEMMA AdminIdles == act' = Admin!NoOperation => AdminAct'
BY NoAdminOperation DEF AdminAct

LEMMA PickedKeeps ==
    ASSUME AdminInvariant, NEW op \in AdminOp, NEW t \in Kept, NEW i \in AdminId,
           NEW ref \in {"none"} \cup AdminId, op = "CREATE" => i = "local",
           Admin!Picked(op, t, i, ref)
    PROVE  AdminInvariant'
<1>1. /\ UNCHANGED <<kept, server, cache, queue, run, pull, dropped, excused>>
      /\ act.op = "none" /\ act.step = "done"
  BY DEF Admin!Picked, Admin!ghosts, AdminInvariant, AdminAct
<1>2. KeptOnward
  BY <1>1, AdminServerRests DEF AdminInvariant
<1>3. PICK row, none : row = cache[t][i] /\ none = Admin!NoRow
  OBVIOUS
<1>4. act' = [op |-> op, thing |-> t, id |-> i, row |-> row, ref |-> ref, found |-> none,
              step |-> "form"]
  BY <1>3, Zenon DEF Admin!Picked, Admin!Row
<1>5. /\ row \in AdminRow /\ VersionSeen(server, t, row)
      /\ none \in AdminRow /\ VersionSeen(server, t, none)
  BY <1>3, NoRowIsSeen DEF AdminInvariant, AdminCache
<1>6. act' \in AdminOperation
  BY <1>4, <1>5 DEF AdminOperation
<1>7. AdminAct'
  BY <1>1, <1>4, <1>5, <1>6 DEF AdminAct, AdminOp
<1> QED BY <1>1, <1>2, <1>4, <1>7, AdminActMoves

LEMMA PickingKeeps ==
    ASSUME AdminInvariant, Admin!PickUser \/ Admin!PickCustomer \/ Admin!PickBranding
    PROVE  AdminInvariant'
<1>1. CASE Admin!PickUser
  <2>1. CASE \E ref \in {"none"} \cup {i \in Admin!Id : Admin!Has("customer", i)} :
                Admin!Picked("CREATE", "user", "local", ref)
    BY <2>1, PickedKeeps DEF Admin!Id, AdminId, AdminOp, Kept
  <2>2. CASE \E op \in Admin!Edits \cup {"DELETE"}, i \in Admin!Id : Admin!Picked(op, "user", i, "none")
    BY <2>2, PickedKeeps DEF Admin!Id, Admin!Edits, AdminId, AdminOp, Kept
  <2> QED BY <1>1, <2>1, <2>2, Zenon DEF Admin!PickUser
<1>2. CASE Admin!PickCustomer
  <2>1. CASE Admin!Picked("CREATE", "customer", "local", "none")
    BY <2>1, PickedKeeps DEF AdminId, AdminOp, Kept
  <2>2. CASE \E op \in Admin!Edits \cup {"DELETE"}, i \in Admin!Id : Admin!Picked(op, "customer", i, "none")
    BY <2>2, PickedKeeps DEF Admin!Id, Admin!Edits, AdminId, AdminOp, Kept
  <2> QED BY <1>2, <2>1, <2>2, Zenon DEF Admin!PickCustomer
<1>3. CASE Admin!PickBranding
  BY <1>3, PickedKeeps DEF Admin!PickBranding, AdminId, AdminOp, Kept
<1> QED BY <1>1, <1>2, <1>3

(* A marked row is the row with another mark.                              *)
LEMMA MarkedRow ==
    ASSUME NEW row \in AdminRow, NEW sync \in {"none", "SYNCED", "PENDING", "CONFLICT"}
    PROVE  /\ Admin!Marked(row, sync) \in AdminRow /\ Admin!Marked(row, sync).sync = sync
           /\ Admin!Marked(row, sync).version = row.version
           /\ Admin!Marked(row, sync).stamp = row.stamp
BY DEF Admin!Marked, AdminRow

LEMMA LocallyIs ==
    ASSUME act.op \in AdminOp, act.op # "BRAND"
    PROVE  Admin!Locally \in {"enqueue", "reread", "put"}
BY DEF Admin!Locally, Admin!QueueThenDrop, AdminOp

LEMMA SendFormKeeps ==
    ASSUME AdminInvariant, Admin!SendForm
    PROVE  AdminInvariant'
<1>1. /\ UNCHANGED <<kept, server, cache, queue, run, pull, dropped, excused>> /\ act.step = "form"
  BY DEF Admin!SendForm, Admin!ghosts
<1>2. KeptOnward
  BY <1>1, AdminServerRests DEF AdminInvariant
<1>3. PICK seen, here : seen = Admin!Seen /\ here = Admin!Locally
  OBVIOUS
<1>4. \/ act' = Admin!NoOperation
      \/ act' = [act EXCEPT !.row = seen, !.step = "post"]
      \/ act.op # "BRAND" /\ act' = [act EXCEPT !.row = seen, !.step = here]
  BY <1>3 DEF Admin!SendForm
<1>5. act \in AdminOperation /\ act.thing \in Kept /\ act.op \in AdminOp
      /\ VersionSeen(server, act.thing, act.row) /\ VersionSeen(server, act.thing, act.found)
  BY <1>1 DEF AdminInvariant, AdminAct, AdminOperation
<1>6. seen \in AdminRow /\ VersionSeen(server, act.thing, seen)
  <2>1. act.id \in AdminId /\ act.row \in AdminRow
    BY <1>5 DEF AdminOperation
  <2>2. cache[act.thing][act.id] \in AdminRow
        /\ VersionSeen(server, act.thing, cache[act.thing][act.id])
    BY <1>5, <2>1 DEF AdminInvariant, AdminCache
  <2>3. seen = act.row \/ seen = cache[act.thing][act.id]
    BY <1>3 DEF Admin!Seen, Admin!Row
  <2> QED BY <1>5, <2>1, <2>2, <2>3
<1>7. CASE act' = Admin!NoOperation
  BY <1>1, <1>2, <1>7, AdminIdles, NoAdminOperation, AdminActMoves
<1>8. ASSUME NEW step \in {"post", "enqueue", "reread", "put"},
             act' = [act EXCEPT !.row = seen, !.step = step]
      PROVE  AdminInvariant'
  <2>1. /\ act' \in AdminOperation /\ act'.row = seen /\ act'.step = step /\ act'.op = act.op
        /\ act'.thing = act.thing /\ act'.found = act.found /\ act'.id = act.id
    BY <1>5, <1>6, <1>8 DEF AdminOperation
  <2>2. AdminAct'
    BY <1>1, <1>5, <1>6, <2>1 DEF AdminAct, AdminInvariant, AdminOp
  <2> QED BY <1>1, <1>2, <2>1, <2>2, AdminActMoves
<1>9. act.op # "BRAND" => here \in {"enqueue", "reread", "put"}
  BY <1>3, <1>5, LocallyIs
<1> QED BY <1>4, <1>7, <1>8, <1>9

LEMMA CancelKeeps ==
    ASSUME AdminInvariant, Admin!CancelForm
    PROVE  AdminInvariant'
<1>1. /\ UNCHANGED <<kept, server, cache, queue, run, pull, dropped, excused>>
      /\ act.step = "form" /\ act' = Admin!NoOperation
  BY DEF Admin!CancelForm, Admin!ghosts
<1>2. KeptOnward
  BY <1>1, AdminServerRests DEF AdminInvariant
<1> QED BY <1>1, <1>2, AdminIdles, NoAdminOperation, AdminActMoves

LEMMA RereadKeeps ==
    ASSUME AdminInvariant, Admin!RereadRow
    PROVE  AdminInvariant'
<1>1. UNCHANGED <<kept, server, cache, queue, run, pull, dropped, excused>> /\ act.step = "reread"
  BY DEF Admin!RereadRow, Admin!ghosts
<1>2. KeptOnward
  BY <1>1, AdminServerRests DEF AdminInvariant
<1>3. PICK row, step : /\ row = cache[act.thing][act.id]
                       /\ step = IF Admin!Has(act.thing, act.id) THEN "put" ELSE "enqueue"
  OBVIOUS
<1>4. act' = [act EXCEPT !.found = row, !.step = step] /\ step \in {"put", "enqueue"}
  BY <1>3, Zenon DEF Admin!RereadRow, Admin!Row
<1>5. act \in AdminOperation /\ act.thing \in Kept /\ act.id \in AdminId
      /\ VersionSeen(server, act.thing, act.row)
  BY <1>1 DEF AdminInvariant, AdminAct, AdminOperation
<1>6. row \in AdminRow /\ VersionSeen(server, act.thing, row)
  BY <1>3, <1>5 DEF AdminInvariant, AdminCache
<1>7. /\ act' \in AdminOperation /\ act'.row = act.row /\ act'.step = step /\ act'.op = act.op
      /\ act'.thing = act.thing /\ act'.found = row /\ act'.id = act.id
  BY <1>4, <1>5, <1>6 DEF AdminOperation
<1>8. AdminAct'
  BY <1>1, <1>4, <1>5, <1>6, <1>7 DEF AdminAct, AdminInvariant
<1> QED BY <1>1, <1>2, <1>4, <1>7, <1>8, AdminActMoves

LEMMA PostFormKeeps ==
    ASSUME AdminInvariant, Admin!PostForm
    PROVE  AdminInvariant'
<1>1. /\ UNCHANGED <<kept, cache, queue, run, pull, dropped, excused>>
      /\ act.step = "post" /\ Admin!MadeOnce(act)
  BY DEF Admin!PostForm, Admin!ghosts
<1>2. /\ act \in AdminOperation /\ act.thing \in Kept /\ act.op \in AdminOp
      /\ VersionSeen(server, act.thing, act.found) /\ (act.op = "CREATE" => act.id = "local")
  BY <1>1 DEF AdminInvariant, AdminAct, AdminOperation
<1>3. CASE Admin!Answered(act) = 200
  <2>1. PICK r : r = act
    OBVIOUS
  <2>2. PICK row : row = Admin!RowOf(Admin!After(r)[r.thing])
    OBVIOUS
  <2>3. server' = Admin!After(r) /\ act' = [act EXCEPT !.row = row, !.step = "store"]
    BY <1>3, <2>1, <2>2, Zenon DEF Admin!PostForm
  <2>4. row = Admin!RowOf(server'[r.thing])
    BY <2>2, <2>3
  <2>5. /\ KeptOnward /\ row \in AdminRow /\ row.sync = "SYNCED" /\ VersionSeen(server', act.thing, row)
        /\ act.op = "DELETE" => server'[act.thing].is = "gone"
    BY <1>1, <1>2, <1>3, <2>1, <2>3, <2>4, ServedOnward DEF AdminInvariant
  <2>6. /\ act' \in AdminOperation /\ act'.row = row /\ act'.step = "store" /\ act'.op = act.op
        /\ act'.thing = act.thing /\ act'.found = act.found /\ act'.id = act.id
    BY <1>2, <2>3, <2>5 DEF AdminOperation
  <2>7. VersionSeen(server', act.thing, act.found)
    BY <1>2, <2>5, VersionStaysSeen DEF AdminInvariant, AdminOperation, AdminRow
  <2>8. AdminAct'
    BY <1>2, <2>5, <2>6, <2>7 DEF AdminAct, AdminOp
  <2> QED BY <1>1, <2>5, <2>6, <2>8, AdminActMoves
<1>4. CASE Admin!Answered(act) # 200
  <2>1. UNCHANGED server /\ act' = Admin!NoOperation
    BY <1>4 DEF Admin!PostForm
  <2>2. KeptOnward
    BY <1>1, <2>1, AdminServerRests DEF AdminInvariant
  <2> QED BY <1>1, <2>1, <2>2, AdminIdles, NoAdminOperation, AdminActMoves
<1> QED BY <1>3, <1>4

LEMMA LoseFormKeeps ==
    ASSUME AdminInvariant, Admin!LoseForm
    PROVE  AdminInvariant'
<1>1. /\ UNCHANGED <<kept, cache, queue, run, pull, dropped, excused>>
      /\ act.step = "post" /\ Admin!MadeOnce(act)
  BY DEF Admin!LoseForm, Admin!ghosts
<1>2. /\ act \in AdminOperation /\ act.thing \in Kept /\ act.op \in AdminOp
      /\ VersionSeen(server, act.thing, act.row) /\ VersionSeen(server, act.thing, act.found)
  BY <1>1 DEF AdminInvariant, AdminAct, AdminOperation
<1>3. PICK r, step : r = act /\ step = Admin!Locally
  OBVIOUS
<1>4. server' \in {server} \cup (IF Admin!Answered(r) = 200 THEN {Admin!After(r)} ELSE {})
  BY <1>3, Zenon DEF Admin!LoseForm
<1>5. KeptOnward
  BY <1>1, <1>2, <1>3, <1>4, PerhapsServedOnward DEF AdminInvariant
<1>6. CASE act.op = "BRAND"
  <2>1. act' = Admin!NoOperation
    BY <1>6 DEF Admin!LoseForm
  <2> QED BY <1>1, <1>5, <2>1, AdminIdles, NoAdminOperation, AdminActMoves
<1>7. CASE act.op # "BRAND"
  <2>1. act' = [act EXCEPT !.step = step] /\ step \in {"enqueue", "reread", "put"}
    BY <1>2, <1>3, <1>7, LocallyIs DEF Admin!LoseForm
  <2>2. /\ act' \in AdminOperation /\ act'.row = act.row /\ act'.step = step /\ act'.op = act.op
        /\ act'.thing = act.thing /\ act'.found = act.found /\ act'.id = act.id
    BY <1>2, <2>1 DEF AdminOperation
  <2>3. VersionSeen(server', act.thing, act.row) /\ VersionSeen(server', act.thing, act.found)
    BY <1>2, <1>5, VersionStaysSeen DEF AdminInvariant, AdminOperation, AdminRow
  <2>4. AdminAct'
    BY <1>1, <1>2, <2>1, <2>2, <2>3 DEF AdminAct, AdminInvariant
  <2> QED BY <1>1, <1>5, <2>1, <2>2, <2>4, AdminActMoves
<1> QED BY <1>6, <1>7

(* A row put in the cache.                                                 *)
LEMMA RowPut ==
    ASSUME AdminInvariant, UNCHANGED <<kept, server>>, NEW t \in Kept, NEW i \in AdminId,
           NEW row \in AdminRow, VersionSeen(server, t, row), cache' = Admin!With(t, i, row)
    PROVE  /\ KeptOnward /\ AdminServer' /\ AdminCache'
           /\ cache'[t][i] = row
           /\ \A u \in Kept, j \in AdminId : u # t \/ j # i => cache'[u][j] = cache[u][j]
<1>1. KeptOnward
  BY AdminServerRests DEF AdminInvariant
<1>2. cache \in [Kept -> [AdminId -> AdminRow]]
  BY DEF AdminInvariant, AdminCache
<1>3. cache' = [cache EXCEPT ![t][i] = row]
  BY DEF Admin!With
<1>4. PICK c : c = cache[t]
  OBVIOUS
<1>5. PICK d : d = [c EXCEPT ![i] = row]
  OBVIOUS
<1>6. cache' = [cache EXCEPT ![t] = d]
  BY <1>3, <1>4, <1>5
<1>7. c \in [AdminId -> AdminRow]
  BY <1>2, <1>4
<1>8. d \in [AdminId -> AdminRow] /\ d[i] = row /\ \A j \in AdminId : j # i => d[j] = c[j]
  BY <1>5, <1>7
<1>9. /\ cache' \in [Kept -> [AdminId -> AdminRow]] /\ cache'[t] = d
      /\ \A u \in Kept : u # t => cache'[u] = cache[u]
  BY <1>2, <1>6, <1>8
<1>10. cache'[t][i] = row
       /\ \A u \in Kept, j \in AdminId : u # t \/ j # i => cache'[u][j] = cache[u][j]
  BY <1>4, <1>8, <1>9
<1>11. AdminCache'
  <2>1. \A u \in Kept, j \in AdminId : VersionSeen(server, u, cache'[u][j])
    BY <1>10 DEF AdminInvariant, AdminCache
  <2> QED BY <1>9, <2>1 DEF AdminCache
<1> QED BY <1>1, <1>10, <1>11 DEF KeptOnward

(* What is left of the invariant when only rows change.                    *)
LEMMA RowsChangeKeeps ==
    ASSUME AdminInvariant, UNCHANGED <<kept, server, queue>>, KeptOnward, AdminCache', AdminAct',
           AdminRunning', AdminPulling', AdminDecided', AdminOwed'
    PROVE  AdminInvariant'
BY AdminQueueStays DEF AdminInvariant, KeptOnward

LEMMA StoreAnswerKeeps ==
    ASSUME AdminInvariant, Admin!StoreAnswer
    PROVE  AdminInvariant'
<1>1. /\ UNCHANGED <<kept, server, queue, run, pull, excused>>
      /\ act.step = "store" /\ act' = Admin!NoOperation
      /\ dropped' = dropped \cup (IF act.op = "DELETE" THEN {act.thing} ELSE {})
  BY DEF Admin!StoreAnswer
<1>2. PICK t, row : t = act.thing /\ row = IF act.op = "DELETE" THEN Admin!NoRow ELSE act.row
  OBVIOUS
<1>3. cache' = Admin!With(t, "real", row)
  BY <1>2, Zenon DEF Admin!StoreAnswer
<1>4. t \in Kept /\ row \in AdminRow /\ VersionSeen(server, t, row) /\ row.sync # "PENDING"
  BY <1>1, <1>2, NoRowIsSeen DEF AdminInvariant, AdminAct, AdminOperation
<1>5. /\ KeptOnward /\ AdminCache' /\ cache'[t]["real"] = row
      /\ \A u \in Kept, j \in AdminId : u # t \/ j # "real" => cache'[u][j] = cache[u][j]
  BY <1>1, <1>3, <1>4, RowPut DEF AdminId
<1>6. AdminAct' /\ act'.step = "done"
  BY <1>1, AdminIdles, NoAdminOperation
<1>7. AdminRunning' /\ AdminPulling'
  BY <1>1, <1>5, AdminRunningStays, AdminPullingStays DEF AdminInvariant
<1>8. AdminDecided'
  <2>1. \A u \in Kept : Decided(u) => Decided(u)'
    BY <1>1 DEF Decided
  <2>2. act.op = "DELETE" => Decided(t)'
    BY <1>1, <1>2 DEF AdminInvariant, AdminAct, Decided
  <2> QED BY <1>1, <1>2, <1>4, <1>6, <2>1, <2>2 DEF AdminInvariant, AdminDecided
<1>9. AdminOwed'
  <2>1. \A u \in Kept, j \in AdminId : cache'[u][j].sync = "PENDING" => cache[u][j].sync = "PENDING"
    BY <1>4, <1>5
  <2>2. act.step # "enqueue"
    BY <1>1
  <2>3. run.step = "remap" => queue[run.item].thing \in Kept
    BY AdminRequests DEF AdminInvariant, AdminRunning, Delivered, AdminRequest
  <2> QED BY <1>1, <2>1, <2>2, <2>3, AdminOwedStays DEF AdminInvariant
<1> QED BY <1>1, <1>5, <1>6, <1>7, <1>8, <1>9, RowsChangeKeeps

LEMMA PutRowKeeps ==
    ASSUME AdminInvariant, Admin!PutRow
    PROVE  AdminInvariant'
<1>1. /\ UNCHANGED <<kept, server, queue, run, pull, dropped>>
      /\ act.step = "put"
      /\ excused' = excused \cup (IF run.step = "remap" THEN {act.thing} ELSE {})
  BY DEF Admin!PutRow
<1>2. PICK t, i, row : t = act.thing /\ i = act.id /\ row = Admin!Unsent
  OBVIOUS
<1>3. cache' = Admin!With(t, i, row) /\ act' = [act EXCEPT !.step = "enqueue"]
  BY <1>2, Zenon DEF Admin!PutRow
<1>4. /\ act \in AdminOperation /\ t \in Kept /\ i \in AdminId
      /\ VersionSeen(server, t, act.row) /\ VersionSeen(server, t, act.found)
  BY <1>1, <1>2 DEF AdminInvariant, AdminAct, AdminOperation
<1>5. row \in AdminRow /\ VersionSeen(server, t, row)
  <2>1. act.row \in AdminRow /\ act.found \in AdminRow
    BY <1>4 DEF AdminOperation
  <2>2. CASE row = Admin!NewRow
    <3>1. server[t].version \in Nat /\ server[t].stamp \in Nat /\ server[t].stamp < server[t].version
      BY <1>4 DEF AdminInvariant, AdminServer, ServerThing
    <3> QED BY <2>2, <3>1 DEF Admin!NewRow, AdminRow, VersionSeen
  <2>3. CASE row = Admin!Marked(act.found, "PENDING")
    BY <1>4, <2>1, <2>3, MarkedRow DEF VersionSeen
  <2>4. CASE row = Admin!Marked(act.row, "PENDING")
    BY <1>4, <2>1, <2>4, MarkedRow DEF VersionSeen
  <2> QED BY <1>2, <2>2, <2>3, <2>4 DEF Admin!Unsent
<1>6. /\ KeptOnward /\ AdminCache'
      /\ \A u \in Kept, j \in AdminId : u # t \/ j # i => cache'[u][j] = cache[u][j]
  BY <1>1, <1>3, <1>4, <1>5, RowPut
<1>7. /\ act' \in AdminOperation /\ act'.row = act.row /\ act'.step = "enqueue" /\ act'.op = act.op
      /\ act'.thing = act.thing /\ act'.found = act.found /\ act'.id = act.id
  BY <1>3, <1>4 DEF AdminOperation
<1>8. AdminAct'
  BY <1>1, <1>2, <1>4, <1>7 DEF AdminAct, AdminInvariant
<1>9. AdminRunning' /\ AdminPulling'
  BY <1>1, <1>6, AdminRunningStays, AdminPullingStays DEF AdminInvariant
<1>10. AdminDecided'
  BY <1>1, <1>6, <1>7, AdminDecidedStays DEF AdminInvariant
<1>11. AdminOwed'
  <2>1. ASSUME NEW u \in Kept \ excused', NEW j \in AdminId, cache'[u][j].sync = "PENDING"
        PROVE  \/ act'.step = "enqueue" /\ act'.thing = u /\ act'.id = j
               \/ \E k \in DOMAIN queue' : Owes(k, u, j)'
    <3>1. CASE u = t /\ j = i
      BY <1>2, <1>7, <3>1
    <3>2. CASE u # t \/ j # i
      <4>1. cache[u][j].sync = "PENDING"
        BY <1>6, <2>1, <3>2
      <4>2. \E k \in DOMAIN queue : Owes(k, u, j)
        BY <1>1, <2>1, <4>1 DEF AdminInvariant, AdminOwed
      <4> QED BY <1>1, <4>2 DEF Owes, IsOver
    <3> QED BY <3>1, <3>2
  <2>2. run.step = "remap" =>
          \/ queue[run.item].thing \in excused'
          \/ cache'[queue[run.item].thing]["local"].sync # "PENDING"
    <3>1. run.step = "remap" => queue[run.item].thing \in Kept
      BY AdminRequests DEF AdminInvariant, AdminRunning, Delivered, AdminRequest
    <3> QED BY <1>1, <1>2, <1>6, <3>1 DEF AdminInvariant, AdminOwed, AdminId
  <2> QED BY <1>1, <2>1, <2>2 DEF AdminOwed
<1> QED BY <1>1, <1>6, <1>8, <1>9, <1>10, <1>11, RowsChangeKeeps

LEMMA DropRowKeeps ==
    ASSUME AdminInvariant, Admin!DropRow
    PROVE  AdminInvariant'
<1>1. /\ UNCHANGED <<kept, server, queue, run, pull, excused>>
      /\ act.step = "drop" /\ act' = Admin!NoOperation
      /\ dropped' = dropped \cup {act.thing}
  BY DEF Admin!DropRow, Admin!Deleting, Admin!QueueThenDrop
<1>2. PICK t, i, row : t = act.thing /\ i = act.id /\ row = Admin!NoRow
  OBVIOUS
<1>3. cache' = Admin!With(t, i, row)
  BY <1>2, Zenon DEF Admin!DropRow
<1>4. t \in Kept /\ i \in AdminId /\ row \in AdminRow /\ VersionSeen(server, t, row)
      /\ row.sync # "PENDING"
  BY <1>1, <1>2, NoRowIsSeen DEF AdminInvariant, AdminAct, AdminOperation
<1>5. /\ KeptOnward /\ AdminCache' /\ cache'[t][i] = row
      /\ \A u \in Kept, j \in AdminId : u # t \/ j # i => cache'[u][j] = cache[u][j]
  BY <1>1, <1>3, <1>4, RowPut
<1>6. AdminAct' /\ act'.step = "done"
  BY <1>1, AdminIdles, NoAdminOperation
<1>7. AdminRunning' /\ AdminPulling'
  BY <1>1, <1>5, AdminRunningStays, AdminPullingStays DEF AdminInvariant
<1>8. AdminDecided'
  <2>1. \A u \in Kept : Decided(u) => Decided(u)'
    BY <1>1 DEF Decided
  <2> QED BY <1>1, <1>2, <1>4, <1>6, <2>1 DEF AdminInvariant, AdminDecided
<1>9. AdminOwed'
  <2>1. \A u \in Kept, j \in AdminId : cache'[u][j].sync = "PENDING" => cache[u][j].sync = "PENDING"
    BY <1>4, <1>5
  <2>2. act.step # "enqueue"
    BY <1>1
  <2>3. run.step = "remap" => queue[run.item].thing \in Kept
    BY AdminRequests DEF AdminInvariant, AdminRunning, Delivered, AdminRequest
  <2> QED BY <1>1, <2>1, <2>2, <2>3, AdminOwedStays DEF AdminInvariant
<1> QED BY <1>1, <1>5, <1>6, <1>7, <1>8, <1>9, RowsChangeKeeps

(* ----------------------------- the delivery ---------------------------- *)

LEMMA EndedRequest ==
    ASSUME NEW r \in AdminRequest, NEW status \in {"PENDING", "SYNCED", "CONFLICT", "FAILED"}
    PROVE  /\ Admin!Ended(r, status) \in AdminRequest
           /\ Admin!Ended(r, status).op = r.op /\ Admin!Ended(r, status).thing = r.thing
           /\ Admin!Ended(r, status).id = r.id /\ Admin!Ended(r, status).row = r.row
           /\ Admin!Ended(r, status).status = status
BY DEF Admin!Ended, AdminRequest

LEMMA RequestEnded ==
    ASSUME AdminQueue, UNCHANGED server, NEW k \in DOMAIN queue,
           NEW status \in {"PENDING", "SYNCED", "CONFLICT", "FAILED"}, Admin!Ends(k, status)
    PROVE  /\ AdminQueue' /\ DOMAIN queue' = DOMAIN queue
           /\ \A j \in DOMAIN queue :
                 /\ queue'[j].op = queue[j].op /\ queue'[j].thing = queue[j].thing
                 /\ queue'[j].id = queue[j].id /\ queue'[j].row = queue[j].row
                 /\ queue'[j].status = IF j = k THEN status ELSE queue[j].status
<1>1. queue \in Seq(AdminRequest) /\ queue[k] \in AdminRequest
  BY DEF AdminQueue
<1>2. PICK r : r = Admin!Ended(queue[k], status)
  OBVIOUS
<1>3. queue' = [queue EXCEPT ![k] = r]
  BY <1>2, Zenon DEF Admin!Ends
<1>4. /\ r \in AdminRequest /\ r.op = queue[k].op /\ r.thing = queue[k].thing
      /\ r.id = queue[k].id /\ r.row = queue[k].row /\ r.status = status
  BY <1>1, <1>2, EndedRequest
<1>5. /\ queue' \in Seq(AdminRequest) /\ DOMAIN queue' = DOMAIN queue
      /\ queue'[k] = r /\ \A j \in DOMAIN queue : j # k => queue'[j] = queue[j]
  BY <1>1, <1>3, <1>4
<1>6. \A j \in DOMAIN queue :
         /\ queue'[j].op = queue[j].op /\ queue'[j].thing = queue[j].thing
         /\ queue'[j].id = queue[j].id /\ queue'[j].row = queue[j].row
         /\ queue'[j].status = IF j = k THEN status ELSE queue[j].status
  BY <1>4, <1>5
<1> QED BY <1>5, <1>6 DEF AdminQueue

LEMMA OnwardRun ==
    ASSUME NEW todo \in SUBSET Nat, NEW skip \in SUBSET (Kept \X AdminId)
    PROVE  /\ Admin!Onward(todo, skip) \in AdminRun
           /\ Admin!Onward(todo, skip).todo = todo
           /\ Admin!Onward(todo, skip).step = "next"
BY DEF Admin!Onward, AdminRun, Admin!NoRow, AdminRow

LEMMA NoAdminRun ==
    Admin!NoRun \in AdminRun /\ Admin!NoRun.todo = {} /\ Admin!NoRun.step = "idle"
BY DEF Admin!NoRun, AdminRun, Admin!NoRow, AdminRow

LEMMA PassedOn ==
    ASSUME NEW todo \in SUBSET Nat, NEW skip \in SUBSET (Kept \X AdminId)
    PROVE  /\ Admin!Passed(todo, skip) \in AdminRun
           /\ Admin!Passed(todo, skip).todo = todo
           /\ Admin!Passed(todo, skip).step \in {"idle", "next"}
BY OnwardRun, NoAdminRun DEF Admin!Passed

LEMMA NamedThing == \A r \in AdminRequest : Admin!Named(r) \in Kept \X AdminId
BY DEF Admin!Named, AdminRequest

(* What is left of the invariant when a request ends and the run goes on   *)
(* to the next.                                                            *)
LEMMA RunPassesOn ==
    ASSUME AdminInvariant, UNCHANGED <<kept, server, act, pull, dropped, excused>>,
           AdminCache',
           \A t \in Kept, i \in AdminId : cache'[t][i].sync = "PENDING" => cache[t][i].sync = "PENDING",
           NEW k \in DOMAIN queue, NEW status \in {"PENDING", "SYNCED", "CONFLICT", "FAILED"},
           Admin!Ends(k, status), status = "SYNCED" => k = run.item /\ run.step = "end",
           NEW todo \in SUBSET run.todo, NEW skip \in SUBSET (Kept \X AdminId),
           run' = Admin!Passed(todo, skip)
    PROVE  AdminInvariant'
<1>1. KeptOnward
  BY AdminServerRests DEF AdminInvariant
<1>2. /\ AdminQueue' /\ DOMAIN queue' = DOMAIN queue
      /\ \A j \in DOMAIN queue :
            /\ queue'[j].op = queue[j].op /\ queue'[j].thing = queue[j].thing
            /\ queue'[j].id = queue[j].id
            /\ queue'[j].status = IF j = k THEN status ELSE queue[j].status
  BY RequestEnded DEF AdminInvariant
<1>3. run.todo \in SUBSET Nat /\ run.todo \subseteq DOMAIN queue
  BY DEF AdminInvariant, AdminRunning, AdminRun
<1>4. run' \in AdminRun /\ run'.todo = todo /\ run'.step \in {"idle", "next"}
  BY <1>3, PassedOn
<1>5. AdminRunning'
  BY <1>2, <1>3, <1>4 DEF AdminRunning, Delivered
<1>6. AdminAct' /\ AdminPulling'
  BY <1>1, AdminActStays, AdminPullingStays DEF AdminInvariant
<1>7. AdminDecided'
  <2>1. status = "SYNCED" /\ queue[k].op = "DELETE" => server[queue[k].thing].is = "gone"
    BY DEF AdminInvariant, AdminRunning, Delivered
  <2>2. \A t \in Kept : Decided(t) => Decided(t)'
    <3> SUFFICES ASSUME NEW t \in Kept, Decided(t)
                 PROVE  Decided(t)'
      OBVIOUS
    <3> QED BY <1>1, <1>2, <2>1, StaysDecided
  <2>3. act.step = "drop" => act.thing \in Kept
    BY DEF AdminInvariant, AdminAct
  <2> QED BY <2>2, <2>3 DEF AdminInvariant, AdminDecided
<1>8. AdminOwed'
  <2>1. ASSUME NEW t \in Kept \ excused, NEW i \in AdminId, cache'[t][i].sync = "PENDING"
        PROVE  \/ act.step = "enqueue" /\ act.thing = t /\ act.id = i
               \/ \E j \in DOMAIN queue' : Owes(j, t, i)'
    <3>1. CASE act.step = "enqueue" /\ act.thing = t /\ act.id = i
      BY <3>1
    <3>2. CASE \E j \in DOMAIN queue : Owes(j, t, i)
      <4>1. PICK j \in DOMAIN queue : Owes(j, t, i)
        BY <3>2
      <4>2. j = k => status # "SYNCED"
        BY <4>1 DEF Owes, IsOver
      <4> QED BY <1>2, <1>4, <4>1, <4>2 DEF Owes, IsOver
    <3> QED BY <2>1, <3>1, <3>2 DEF AdminInvariant, AdminOwed
  <2> QED BY <1>4, <2>1 DEF AdminOwed
<1> QED BY <1>1, <1>2, <1>5, <1>6, <1>7, <1>8 DEF AdminInvariant, KeptOnward

LEMMA AdminItem ==
    ASSUME AdminInvariant, run.step \in {"send"} \cup Delivered
    PROVE  /\ run.item \in DOMAIN queue /\ queue[run.item] \in AdminRequest
           /\ Admin!Item = queue[run.item]
           /\ run.skip \in SUBSET (Kept \X AdminId)
           /\ Admin!Named(Admin!Item) \in Kept \X AdminId
BY AdminRequests, NamedThing DEF AdminInvariant, AdminRunning, AdminRun, Admin!Item

LEMMA AdminRunBegins ==
    ASSUME AdminInvariant, Admin!StartRun
    PROVE  AdminInvariant'
<1>1. UNCHANGED <<kept, server, cache, queue, act, pull, dropped, excused>> /\ run.step = "idle"
  BY DEF Admin!StartRun, Admin!ghosts
<1>2. PICK todo, skip :
         /\ todo = {k \in DOMAIN queue : Admin!Waiting(k)}
         /\ skip = {Admin!Named(queue[k]) : k \in {j \in DOMAIN queue : queue[j].status = "CONFLICT"}}
  OBVIOUS
<1>3. run' = Admin!Onward(todo, skip)
  BY <1>2, Zenon DEF Admin!StartRun
<1>4. queue \in Seq(AdminRequest) /\ \A k \in DOMAIN queue : queue[k] \in AdminRequest
  BY AdminRequests DEF AdminInvariant, AdminQueue
<1>5. todo \in SUBSET Nat /\ todo \subseteq DOMAIN queue /\ skip \in SUBSET (Kept \X AdminId)
  BY <1>2, <1>4, NamedThing
<1>6. run' \in AdminRun /\ run'.todo = todo /\ run'.step = "next"
  BY <1>3, <1>5, OnwardRun
<1>7. AdminRunning'
  BY <1>1, <1>5, <1>6 DEF AdminRunning, Delivered
<1>8. KeptOnward
  BY <1>1, AdminServerRests DEF AdminInvariant
<1>9. AdminCache' /\ AdminQueue' /\ AdminAct' /\ AdminPulling'
  BY <1>1, <1>8, AdminCacheStays, AdminQueueStays, AdminActStays, AdminPullingStays DEF AdminInvariant
<1>10. AdminDecided'
  BY <1>1, <1>8, AdminDecidedStays DEF AdminInvariant
<1>11. AdminOwed'
  BY <1>1, <1>6 DEF AdminInvariant, AdminOwed, Owes, IsOver
<1> QED BY <1>7, <1>8, <1>9, <1>10, <1>11 DEF AdminInvariant, KeptOnward

(* A step of a run that only changes the run, its request being the same,  *)
(* or one that nothing was asked of yet.                                   *)
LEMMA RunMovesOn ==
    ASSUME AdminInvariant, UNCHANGED <<queue, act, pull, dropped, excused>>, KeptOnward,
           AdminCache', AdminRunning', run'.item = run.item \/ run'.step \notin {"remap", "end"},
           AdminOwed'
    PROVE  AdminInvariant'
<1>1. AdminQueue' /\ AdminAct' /\ AdminPulling'
  BY AdminQueueStays, AdminActStays, AdminPullingStays DEF AdminInvariant
<1>2. AdminDecided'
  BY AdminDecidedStays DEF AdminInvariant
<1> QED BY <1>1, <1>2 DEF AdminInvariant, KeptOnward

LEMMA JudgedKeeps ==
    ASSUME AdminInvariant, Admin!Judge
    PROVE  AdminInvariant'
<1>1. PICK k \in run.todo :
         /\ run.step = "next"
         /\ IF Admin!Named(queue[k]) \in run.skip
            THEN Admin!Ends(k, "CONFLICT") /\ run' = Admin!Passed(run.todo \ {k}, run.skip)
            ELSE /\ UNCHANGED queue
                 /\ run' = [run EXCEPT !.todo = run.todo \ {k}, !.item = k, !.step = "send"]
         /\ UNCHANGED <<kept, server, cache, act, pull, dropped, excused>>
  BY Zenon DEF Admin!Judge, Admin!ghosts
<1>2. run \in AdminRun /\ run.todo \subseteq DOMAIN queue /\ k \in DOMAIN queue /\ k \in Nat
      /\ run.skip \in SUBSET (Kept \X AdminId)
  BY DEF AdminInvariant, AdminRunning, AdminRun
<1>3. KeptOnward
  BY <1>1, AdminServerRests DEF AdminInvariant
<1>4. AdminCache'
  BY <1>1, <1>3, AdminCacheStays DEF AdminInvariant
<1>5. CASE Admin!Named(queue[k]) \in run.skip
  <2>1. PICK todo : todo = run.todo \ {k}
    OBVIOUS
  <2>2. Admin!Ends(k, "CONFLICT") /\ run' = Admin!Passed(todo, run.skip) /\ todo \in SUBSET run.todo
    BY <1>1, <1>5, <2>1
  <2> QED BY <1>1, <1>2, <1>4, <2>2, RunPassesOn
<1>6. CASE Admin!Named(queue[k]) \notin run.skip
  <2>1. UNCHANGED queue /\ run' = [run EXCEPT !.todo = run.todo \ {k}, !.item = k, !.step = "send"]
    BY <1>1, <1>6
  <2>2. run' \in AdminRun /\ run'.todo = run.todo \ {k} /\ run'.item = k /\ run'.step = "send"
    BY <1>2, <2>1 DEF AdminRun
  <2>3. AdminRunning'
    BY <1>2, <2>1, <2>2 DEF AdminRunning, Delivered
  <2>4. AdminOwed'
    BY <1>1, <2>1, <2>2 DEF AdminInvariant, AdminOwed, Owes, IsOver
  <2> QED BY <1>1, <1>3, <1>4, <2>1, <2>2, <2>3, <2>4, RunMovesOn
<1> QED BY <1>5, <1>6

LEMMA ServedKeeps ==
    ASSUME AdminInvariant, Admin!Deliver
    PROVE  AdminInvariant'
<1>1. /\ UNCHANGED <<kept, cache, queue, act, pull, dropped, excused>>
      /\ run.step = "send" /\ Admin!MadeOnce(Admin!Item) /\ Admin!Answered(Admin!Item) = 200
  BY DEF Admin!Deliver, Admin!ghosts
<1>2. PICK r, step : /\ r = Admin!Item
                     /\ step = IF r.op = "CREATE" THEN "look" ELSE "cache"
  OBVIOUS
<1>3. PICK row : row = Admin!RowOf(Admin!After(r)[r.thing])
  OBVIOUS
<1>4. server' = Admin!After(r) /\ run' = [run EXCEPT !.answer = row, !.step = step]
  BY <1>2, <1>3, Zenon DEF Admin!Deliver
<1>5. run.item \in DOMAIN queue /\ r = queue[run.item] /\ r \in AdminRequest
  BY <1>1, <1>2, AdminItem
<1>6. r.op \in AdminOp /\ r.thing \in Kept /\ r.id \in AdminId
  BY <1>5 DEF AdminRequest
<1>7. /\ KeptOnward
      /\ r.op = "CREATE" => server[r.thing].is = "unborn" /\ server'[r.thing].is # "unborn"
      /\ r.op # "CREATE" => r.id = "real"
      /\ r.op = "DELETE" => server'[r.thing].is = "gone"
      /\ row \in AdminRow /\ row.sync = "SYNCED" /\ VersionSeen(server', r.thing, row)
  BY <1>1, <1>2, <1>3, <1>4, <1>6, ServedOnward DEF AdminInvariant
<1>8. r.op = "CREATE" => r.id = "local"
  BY <1>5, <1>6, <1>7 DEF AdminInvariant, AdminQueue, AdminId
<1>9. run' \in AdminRun /\ run'.answer = row /\ run'.step = step /\ run'.item = run.item
      /\ run'.todo = run.todo
  <2>1. run \in AdminRun
    BY DEF AdminInvariant, AdminRunning
  <2>2. step \in {"look", "cache"}
    BY <1>2
  <2>3. step \in {"idle", "next", "send"} \cup Delivered /\ row \in AdminRow
    BY <1>7, <2>2 DEF Delivered
  <2> QED BY <1>4, <2>1, <2>3 DEF AdminRun
<1>10. AdminRunning'
  <2>1. run.todo \subseteq DOMAIN queue
    BY DEF AdminInvariant, AdminRunning
  <2>2. step \in {"look", "cache"} /\ (r.op = "CREATE" <=> step = "look")
    BY <1>2
  <2>3. queue'[run'.item] = r /\ run'.item \in DOMAIN queue'
    BY <1>1, <1>5, <1>9
  <2>4. run'.step \notin {"remap", "clear"} /\ run'.todo \subseteq DOMAIN queue'
    BY <1>1, <1>9, <2>1, <2>2
  <2> QED BY <1>7, <1>8, <1>9, <2>2, <2>3, <2>4 DEF AdminRunning
<1>11. AdminCache'
  BY <1>1, <1>7, AdminCacheStays DEF AdminInvariant
<1>12. AdminOwed'
  BY <1>1, <1>2, <1>9 DEF AdminInvariant, AdminOwed, Owes, IsOver
<1> QED BY <1>1, <1>7, <1>9, <1>10, <1>11, <1>12, RunMovesOn

LEMMA RefusedKeeps ==
    ASSUME AdminInvariant, Admin!Refuse
    PROVE  AdminInvariant'
<1>1. /\ UNCHANGED <<kept, server, act, pull, dropped, excused>> /\ run.step = "send"
  BY DEF Admin!Refuse, Admin!ghosts
<1>2. PICK i, status, row :
         /\ i = Admin!Item.id
         /\ status = (CASE Admin!Answered(Admin!Item) = 409 -> "CONFLICT"
                        [] Admin!Answered(Admin!Item) = 404 -> "FAILED" [] OTHER -> "PENDING")
         /\ row = Admin!Marked(Admin!Row("customer", Admin!Item.id), "CONFLICT")
  OBVIOUS
<1>3. /\ cache' = Admin!With("customer", i, row) \/ cache' = cache
      /\ Admin!Ends(run.item, status) /\ run' = Admin!Skipping
  BY <1>2, Zenon DEF Admin!Refuse
<1>4. status \in {"CONFLICT", "FAILED", "PENDING"}
  BY <1>2
<1>5. /\ run.item \in DOMAIN queue /\ queue[run.item] \in AdminRequest /\ Admin!Item = queue[run.item]
      /\ run.skip \in SUBSET (Kept \X AdminId) /\ Admin!Named(Admin!Item) \in Kept \X AdminId
  BY <1>1, AdminItem
<1>6. PICK todo, skip : todo = run.todo /\ skip = run.skip \cup {Admin!Named(Admin!Item)}
  OBVIOUS
<1>7. run' = Admin!Passed(todo, skip) /\ todo \in SUBSET run.todo /\ skip \in SUBSET (Kept \X AdminId)
  BY <1>3, <1>5, <1>6 DEF Admin!Skipping
<1>8. i \in AdminId
  BY <1>2, <1>5 DEF AdminRequest
<1>9. AdminCache' /\ \A t \in Kept, j \in AdminId :
                        cache'[t][j].sync = "PENDING" => cache[t][j].sync = "PENDING"
  <2>1. CASE cache' = Admin!With("customer", i, row)
    <3>1. PICK old : old = cache["customer"][i]
      OBVIOUS
    <3>2. row = Admin!Marked(old, "CONFLICT")
      BY <1>2, <3>1 DEF Admin!Row
    <3>3. old \in AdminRow /\ VersionSeen(server, "customer", old)
      BY <1>8, <3>1 DEF AdminInvariant, AdminCache, Kept
    <3>4. row \in AdminRow /\ row.sync = "CONFLICT" /\ VersionSeen(server, "customer", row)
      BY <3>2, <3>3, MarkedRow DEF VersionSeen
    <3> QED BY <1>1, <1>8, <2>1, <3>4, RowPut DEF Kept
  <2>2. CASE cache' = cache
    <3> QED BY <1>1, <2>2, AdminServerRests, AdminCacheStays DEF AdminInvariant
  <2> QED BY <1>3, <2>1, <2>2
<1> QED BY <1>1, <1>3, <1>4, <1>5, <1>7, <1>9, RunPassesOn

(* An answer that is lost leaves the request waiting, and the run goes on. *)
LEMMA DeliveryLostKeeps ==
    ASSUME AdminInvariant, Admin!LoseDelivery
    PROVE  AdminInvariant'
<1>1. /\ UNCHANGED <<kept, cache, queue, act, pull, dropped, excused>>
      /\ run.step = "send" /\ Admin!MadeOnce(Admin!Item)
  BY DEF Admin!LoseDelivery, Admin!ghosts
<1>2. PICK r : r = Admin!Item
  OBVIOUS
<1>3. /\ server' \in {server} \cup (IF Admin!Answered(r) = 200 THEN {Admin!After(r)} ELSE {})
      /\ run' = Admin!Skipping
  BY <1>2, Zenon DEF Admin!LoseDelivery
<1>4. /\ run.item \in DOMAIN queue /\ r = queue[run.item] /\ r \in AdminRequest
      /\ run.skip \in SUBSET (Kept \X AdminId) /\ Admin!Named(r) \in Kept \X AdminId
  BY <1>1, <1>2, AdminItem
<1>5. r.op \in AdminOp /\ r.thing \in Kept
  BY <1>4 DEF AdminRequest
<1>6. KeptOnward
  BY <1>1, <1>2, <1>3, <1>5, PerhapsServedOnward DEF AdminInvariant
<1>7. PICK todo, skip : todo = run.todo /\ skip = run.skip \cup {Admin!Named(r)}
  OBVIOUS
<1>8. run' = Admin!Passed(todo, skip) /\ todo \subseteq DOMAIN queue /\ todo \in SUBSET Nat
      /\ skip \in SUBSET (Kept \X AdminId)
  BY <1>2, <1>3, <1>4, <1>7 DEF Admin!Skipping, AdminInvariant, AdminRunning, AdminRun
<1>9. run' \in AdminRun /\ run'.todo = todo /\ run'.step \in {"idle", "next"}
  BY <1>8, PassedOn
<1>10. AdminRunning'
  BY <1>1, <1>8, <1>9 DEF AdminRunning, Delivered
<1>11. AdminCache'
  BY <1>1, <1>6, AdminCacheStays DEF AdminInvariant
<1>12. AdminOwed'
  BY <1>1, <1>9 DEF AdminInvariant, AdminOwed, Owes, IsOver
<1> QED BY <1>1, <1>6, <1>9, <1>10, <1>11, <1>12, RunMovesOn

LEMMA LookedKeeps ==
    ASSUME AdminInvariant, Admin!LookForTemporary
    PROVE  AdminInvariant'
<1>1. UNCHANGED <<kept, server, cache, queue, act, pull, dropped, excused>> /\ run.step = "look"
  BY DEF Admin!LookForTemporary, Admin!ghosts
<1>2. PICK step : step = IF Admin!Has(Admin!Item.thing, "local") THEN "cache" ELSE "remap"
  OBVIOUS
<1>3. run' = [run EXCEPT !.step = step]
  BY <1>2, Zenon DEF Admin!LookForTemporary
<1>4. run \in AdminRun /\ step \in {"idle", "next", "send"} \cup Delivered
  BY <1>2 DEF AdminInvariant, AdminRunning, Delivered
<1>5. /\ run' \in AdminRun /\ run'.step = step /\ run'.item = run.item /\ run'.todo = run.todo
      /\ run'.answer = run.answer
  BY <1>3, <1>4 DEF AdminRun
<1>6. run.item \in DOMAIN queue /\ queue[run.item] \in AdminRequest /\ Admin!Item = queue[run.item]
  BY <1>1, AdminItem DEF Delivered
<1>7. KeptOnward
  BY <1>1, AdminServerRests DEF AdminInvariant
<1>8. AdminRunning'
  <2>1. step \in {"cache", "remap"}
    BY <1>2
  <2> QED BY <1>1, <1>5, <2>1 DEF AdminInvariant, AdminRunning, Delivered
<1>9. AdminCache'
  BY <1>1, <1>7, AdminCacheStays DEF AdminInvariant
<1>10. AdminOwed'
  <2>1. step = "remap" => cache[queue[run.item].thing]["local"].sync = "none"
    BY <1>2, <1>6 DEF Admin!Has, Admin!Row
  <2>2. step = "remap" => queue[run.item].id = "local"
    BY <1>1, <1>2 DEF AdminInvariant, AdminRunning, Delivered
  <2>3. ASSUME NEW t \in Kept \ excused, NEW i \in AdminId, cache[t][i].sync = "PENDING"
        PROVE  \/ act.step = "enqueue" /\ act.thing = t /\ act.id = i
               \/ \E k \in DOMAIN queue : Owes(k, t, i)'
    <3>1. CASE \E k \in DOMAIN queue : Owes(k, t, i)
      <4>1. PICK k \in DOMAIN queue : Owes(k, t, i)
        BY <3>1
      <4>2. step = "remap" /\ k = run.item => FALSE
        BY <2>1, <2>2, <2>3, <4>1 DEF Owes
      <4>3. step # "end"
        BY <1>2
      <4> QED BY <1>1, <1>5, <4>1, <4>2, <4>3 DEF Owes, IsOver
    <3> QED BY <2>3, <3>1 DEF AdminInvariant, AdminOwed
  <2> QED BY <1>1, <1>5, <2>1, <2>3 DEF AdminOwed
<1> QED BY <1>1, <1>5, <1>7, <1>8, <1>9, <1>10, RunMovesOn

LEMMA AnswerCachedKeeps ==
    ASSUME AdminInvariant, Admin!CacheAnswer
    PROVE  AdminInvariant'
<1>1. UNCHANGED <<kept, server, queue, act, pull, dropped, excused>> /\ run.step = "cache"
  BY DEF Admin!CacheAnswer, Admin!ghosts
<1>2. PICK t, op, row, step :
         /\ t = Admin!Item.thing /\ op = Admin!Item.op
         /\ row = IF op = "DELETE" THEN Admin!NoRow ELSE run.answer
         /\ step = (CASE op = "CREATE" /\ t = "user" -> "clear"
                      [] op = "CREATE" /\ t = "customer" -> "remap"
                      [] OTHER -> "end")
  OBVIOUS
<1>3. /\ cache' = IF op = "CREATE" /\ t = "customer" THEN Admin!InPlaceOfTemporary(row)
                  ELSE Admin!With(t, "real", row)
      /\ run' = [run EXCEPT !.step = step]
  BY <1>2, Zenon DEF Admin!CacheAnswer
<1>4. /\ run.item \in DOMAIN queue /\ queue[run.item] \in AdminRequest
      /\ t = queue[run.item].thing /\ op = queue[run.item].op
  BY <1>1, <1>2, AdminItem DEF Delivered
<1>5. t \in Kept /\ op \in AdminOp
  BY <1>4 DEF AdminRequest
<1>6. /\ step \in {"clear", "remap", "end"}
      /\ step = "clear" => op = "CREATE" /\ t = "user"
      /\ step = "remap" => op = "CREATE" /\ t = "customer"
      /\ step = "end" => op # "CREATE"
  BY <1>2, <1>5 DEF Kept
<1>7. /\ IF op = "CREATE" THEN queue[run.item].id = "local" /\ server[t].is # "unborn"
                          ELSE queue[run.item].id = "real"
      /\ op = "DELETE" => server[t].is = "gone"
      /\ run \in AdminRun /\ run.answer \in AdminRow /\ run.answer.sync = "SYNCED"
      /\ run.todo \subseteq DOMAIN queue /\ VersionSeen(server, t, run.answer)
  BY <1>1, <1>4 DEF AdminInvariant, AdminRunning, Delivered, AdminRun
<1>8. row \in AdminRow /\ row.sync # "PENDING" /\ VersionSeen(server, t, row)
  BY <1>2, <1>5, <1>7, NoRowIsSeen DEF AdminInvariant
<1>9. /\ run' \in AdminRun /\ run'.step = step /\ run'.item = run.item /\ run'.todo = run.todo
      /\ run'.answer = run.answer
  <2>1. step \in {"idle", "next", "send"} \cup Delivered
    BY <1>6 DEF Delivered
  <2> QED BY <1>3, <1>7, <2>1 DEF AdminRun
<1>10. KeptOnward
  BY <1>1, AdminServerRests DEF AdminInvariant
<1>11. AdminRunning'
  BY <1>1, <1>4, <1>6, <1>7, <1>9 DEF AdminRunning, Delivered
<1>12. /\ AdminCache' /\ cache'[t]["real"].sync # "PENDING"
       /\ step = "remap" => cache'[t]["local"].sync # "PENDING"
       /\ \A u \in Kept, j \in AdminId :
             cache'[u][j].sync = "PENDING" => cache[u][j].sync = "PENDING"
  <2>1. CASE step = "remap"
    <3>1. PICK c : c = [i \in AdminId |-> IF i = "real" THEN row ELSE Admin!NoRow]
      OBVIOUS
    <3>2. cache' = [cache EXCEPT !["customer"] = c]
      BY <1>3, <1>6, <2>1, <3>1 DEF Admin!InPlaceOfTemporary, Admin!Id, AdminId
    <3>3. Admin!NoRow \in AdminRow /\ Admin!NoRow.sync # "PENDING" /\ VersionSeen(server, t, Admin!NoRow)
      BY <1>5, NoRowIsSeen DEF AdminInvariant
    <3>4. c \in [AdminId -> AdminRow] /\ c["real"] = row /\ c["local"] = Admin!NoRow
      BY <1>8, <3>1, <3>3 DEF AdminId
    <3>5. \A i \in AdminId : VersionSeen(server, t, c[i]) /\ c[i].sync # "PENDING"
      BY <1>8, <3>3, <3>4 DEF AdminId
    <3>6. cache \in [Kept -> [AdminId -> AdminRow]]
      BY DEF AdminInvariant, AdminCache
    <3>7. t = "customer"
      BY <1>6, <2>1
    <3>8. /\ cache' \in [Kept -> [AdminId -> AdminRow]] /\ cache'[t] = c
          /\ \A u \in Kept : u # t => cache'[u] = cache[u]
      BY <1>5, <3>2, <3>4, <3>6, <3>7
    <3>9. \A u \in Kept, i \in AdminId : VersionSeen(server, u, cache'[u][i])
      BY <3>5, <3>8 DEF AdminInvariant, AdminCache
    <3> QED BY <1>1, <3>5, <3>8, <3>9 DEF AdminCache, AdminId
  <2>2. CASE step # "remap"
    <3>1. cache' = Admin!With(t, "real", row)
      BY <1>2, <1>3, <2>2
    <3>2. /\ AdminCache' /\ cache'[t]["real"] = row
          /\ \A u \in Kept, j \in AdminId : u # t \/ j # "real" => cache'[u][j] = cache[u][j]
      BY <1>1, <1>5, <1>8, <3>1, RowPut DEF AdminId
    <3> QED BY <1>8, <2>2, <3>2
  <2> QED BY <2>1, <2>2
<1>13. AdminOwed'
  <2>1. ASSUME NEW u \in Kept \ excused, NEW j \in AdminId, cache'[u][j].sync = "PENDING"
        PROVE  \/ act.step = "enqueue" /\ act.thing = u /\ act.id = j
               \/ \E k \in DOMAIN queue : Owes(k, u, j)'
    <3>1. cache[u][j].sync = "PENDING"
      BY <1>12, <2>1
    <3>2. CASE \E k \in DOMAIN queue : Owes(k, u, j)
      <4>1. PICK k \in DOMAIN queue : Owes(k, u, j)
        BY <3>2
      <4>2. k = run.item => u = t /\ (op = "CREATE" => j = "local") /\ (op # "CREATE" => j = "real")
        BY <1>4, <1>7, <4>1 DEF Owes
      <4>3. k = run.item => step = "clear"
        BY <1>6, <1>12, <2>1, <4>2
      <4> QED BY <1>1, <1>9, <4>1, <4>3 DEF Owes, IsOver
    <3> QED BY <3>1, <3>2 DEF AdminInvariant, AdminOwed
  <2>2. run'.step = "remap" => cache'[queue'[run'.item].thing]["local"].sync # "PENDING"
    BY <1>1, <1>4, <1>9, <1>12
  <2> QED BY <1>1, <2>1, <2>2 DEF AdminOwed
<1> QED BY <1>1, <1>9, <1>10, <1>11, <1>12, <1>13, RunMovesOn

LEMMA TemporaryClearedKeeps ==
    ASSUME AdminInvariant, Admin!ClearTemporary
    PROVE  AdminInvariant'
<1>1. UNCHANGED <<kept, server, queue, act, pull, dropped, excused>> /\ run.step = "clear"
  BY DEF Admin!ClearTemporary, Admin!ghosts
<1>2. PICK row : row = Admin!NoRow
  OBVIOUS
<1>3. cache' = Admin!With("user", "local", row) /\ run' = [run EXCEPT !.step = "remap"]
  BY <1>2, Zenon DEF Admin!ClearTemporary
<1>4. row \in AdminRow /\ row.sync # "PENDING" /\ VersionSeen(server, "user", row)
  BY <1>2, NoRowIsSeen DEF AdminInvariant, Kept
<1>5. /\ KeptOnward /\ AdminCache' /\ cache'["user"]["local"] = row
      /\ \A u \in Kept, j \in AdminId : u # "user" \/ j # "local" => cache'[u][j] = cache[u][j]
  BY <1>1, <1>3, <1>4, RowPut DEF Kept, AdminId
<1>6. /\ run' \in AdminRun /\ run'.step = "remap" /\ run'.item = run.item /\ run'.todo = run.todo
      /\ run'.answer = run.answer
  BY <1>3 DEF AdminInvariant, AdminRunning, AdminRun, Delivered
<1>7. /\ run.item \in DOMAIN queue /\ queue[run.item].thing = "user" /\ queue[run.item].id = "local"
  BY <1>1, AdminItem DEF AdminInvariant, AdminRunning, Delivered
<1>8. AdminRunning'
  BY <1>1, <1>6 DEF AdminInvariant, AdminRunning, Delivered
<1>9. AdminOwed'
  <2>1. ASSUME NEW u \in Kept \ excused, NEW j \in AdminId, cache'[u][j].sync = "PENDING"
        PROVE  \/ act.step = "enqueue" /\ act.thing = u /\ act.id = j
               \/ \E k \in DOMAIN queue : Owes(k, u, j)'
    <3>1. cache[u][j].sync = "PENDING" /\ (u # "user" \/ j # "local")
      BY <1>4, <1>5, <2>1
    <3>2. CASE \E k \in DOMAIN queue : Owes(k, u, j)
      <4>1. PICK k \in DOMAIN queue : Owes(k, u, j)
        BY <3>2
      <4>2. k # run.item
        BY <1>7, <3>1, <4>1 DEF Owes
      <4> QED BY <1>1, <1>6, <4>1, <4>2 DEF Owes, IsOver
    <3> QED BY <3>1, <3>2 DEF AdminInvariant, AdminOwed
  <2> QED BY <1>1, <1>4, <1>5, <1>6, <1>7, <2>1 DEF AdminOwed
<1> QED BY <1>1, <1>5, <1>6, <1>8, <1>9, RunMovesOn

LEMMA RedirectedRequest ==
    ASSUME NEW r \in AdminRequest
    PROVE  /\ Admin!Redirected(r) \in AdminRequest /\ Admin!Redirected(r).id = "real"
           /\ Admin!Redirected(r).op = r.op /\ Admin!Redirected(r).thing = r.thing
           /\ Admin!Redirected(r).row = r.row /\ Admin!Redirected(r).status = r.status
BY DEF Admin!Redirected, AdminRequest, AdminId

(* The requests that wait under the temporary id are sent on to the real   *)
(* one; their row has left the temporary id already.                       *)
LEMMA RemappedKeeps ==
    ASSUME AdminInvariant, Admin!Remap
    PROVE  AdminInvariant'
<1>1. UNCHANGED <<kept, server, cache, act, pull, dropped, excused>> /\ run.step = "remap"
  BY DEF Admin!Remap, Admin!ghosts
<1>2. /\ run.item \in DOMAIN queue /\ queue[run.item] \in AdminRequest /\ Admin!Item = queue[run.item]
      /\ queue[run.item].op = "CREATE" /\ queue[run.item].id = "local"
      /\ server[queue[run.item].thing].is # "unborn"
  BY <1>1, AdminItem DEF AdminInvariant, AdminRunning, Delivered
<1>3. PICK redirects : redirects = {k \in DOMAIN queue : Admin!Remapped(k)}
  OBVIOUS
<1>4. \A k \in redirects :
         k \in DOMAIN queue /\ k # run.item /\ queue[k].id = "local"
            /\ queue[k].thing = queue[run.item].thing
  BY <1>2, <1>3 DEF Admin!Remapped, Admin!Named
<1>5. /\ queue' = [k \in DOMAIN queue |-> IF k \in redirects THEN Admin!Redirected(queue[k]) ELSE queue[k]]
      /\ run' = [run EXCEPT !.step = "end"]
  BY <1>3 DEF Admin!Remap
<1>6. \A k \in DOMAIN queue : queue[k] \in AdminRequest
  BY AdminRequests DEF AdminInvariant
<1>7. \A k \in DOMAIN queue :
         /\ queue'[k] \in AdminRequest
         /\ queue'[k].op = queue[k].op /\ queue'[k].thing = queue[k].thing
         /\ queue'[k].row = queue[k].row /\ queue'[k].status = queue[k].status
         /\ queue'[k].id = IF k \in redirects THEN "real" ELSE queue[k].id
  BY <1>5, <1>6, RedirectedRequest
<1>8. DOMAIN queue' = DOMAIN queue
  BY <1>5
<1>9. queue' \in Seq(AdminRequest)
  <2>1. PICK n \in Nat : DOMAIN queue = 1..n
    BY DEF AdminInvariant, AdminQueue
  <2>2. queue' = [k \in 1..n |-> queue'[k]]
    BY <1>5, <2>1
  <2> QED BY <1>7, <2>1, <2>2
<1>10. AdminQueue'
  <2>1. ASSUME NEW k \in DOMAIN queue
        PROVE  /\ VersionSeen(server, queue'[k].thing, queue'[k].row)
               /\ queue'[k].op = "CREATE" /\ queue'[k].id = "real" =>
                     server[queue'[k].thing].is # "unborn"
    <3>1. VersionSeen(server, queue[k].thing, queue[k].row)
          /\ (queue[k].op = "CREATE" /\ queue[k].id = "real" => server[queue[k].thing].is # "unborn")
      BY DEF AdminInvariant, AdminQueue
    <3> QED BY <1>2, <1>4, <1>7, <3>1
  <2> QED BY <1>1, <1>8, <1>9, <2>1 DEF AdminQueue
<1>11. KeptOnward
  BY <1>1, AdminServerRests DEF AdminInvariant
<1>12. /\ run' \in AdminRun /\ run'.step = "end" /\ run'.item = run.item /\ run'.todo = run.todo
       /\ run'.answer = run.answer
  BY <1>5 DEF AdminInvariant, AdminRunning, AdminRun, Delivered
<1>13. /\ queue'[run.item].thing = queue[run.item].thing /\ queue'[run.item].op = queue[run.item].op
       /\ queue'[run.item].id = queue[run.item].id
  BY <1>2, <1>4, <1>7
<1>14. AdminRunning'
  BY <1>1, <1>2, <1>8, <1>12, <1>13 DEF AdminInvariant, AdminRunning, Delivered
<1>15. AdminCache' /\ AdminAct' /\ AdminPulling'
  BY <1>1, <1>11, AdminCacheStays, AdminActStays, AdminPullingStays DEF AdminInvariant
<1>16. AdminDecided'
  <2>1. \A t \in Kept : Decided(t) => Decided(t)'
    <3> SUFFICES ASSUME NEW t \in Kept, Decided(t)
                 PROVE  Decided(t)'
      OBVIOUS
    <3> QED BY <1>7, <1>8, <1>11, StaysDecided
  <2>2. act.step = "drop" => act.thing \in Kept
    BY DEF AdminInvariant, AdminAct
  <2> QED BY <1>1, <2>1, <2>2 DEF AdminInvariant, AdminDecided
<1>17. AdminOwed'
  <2>1. ASSUME NEW u \in Kept \ excused, NEW j \in AdminId, cache[u][j].sync = "PENDING"
        PROVE  \/ act.step = "enqueue" /\ act.thing = u /\ act.id = j
               \/ \E k \in DOMAIN queue : Owes(k, u, j)'
    <3>1. u = queue[run.item].thing => j # "local"
      BY <1>1, <2>1 DEF AdminInvariant, AdminOwed
    <3>2. CASE \E k \in DOMAIN queue : Owes(k, u, j)
      <4>1. PICK k \in DOMAIN queue : Owes(k, u, j)
        BY <3>2
      <4>2. k \notin redirects /\ k # run.item
        BY <1>2, <1>4, <3>1, <4>1 DEF Owes
      <4> QED BY <1>1, <1>7, <1>12, <4>1, <4>2 DEF Owes, IsOver
    <3> QED BY <2>1, <3>2 DEF AdminInvariant, AdminOwed
  <2> QED BY <1>1, <1>8, <1>12, <2>1 DEF AdminOwed
<1> QED BY <1>10, <1>11, <1>14, <1>15, <1>16, <1>17 DEF AdminInvariant, KeptOnward

LEMMA ItemEndedKeeps ==
    ASSUME AdminInvariant, Admin!EndItem
    PROVE  AdminInvariant'
<1>1. UNCHANGED <<kept, server, cache, act, pull, dropped, excused>> /\ run.step = "end"
  BY DEF Admin!EndItem, Admin!ghosts
<1>2. PICK todo, skip : todo = run.todo /\ skip = run.skip
  OBVIOUS
<1>3. Admin!Ends(run.item, "SYNCED") /\ run' = Admin!Passed(todo, skip)
  BY <1>2, Zenon DEF Admin!EndItem
<1>4. run.item \in DOMAIN queue /\ skip \in SUBSET (Kept \X AdminId) /\ todo \in SUBSET run.todo
  BY <1>1, <1>2, AdminItem DEF Delivered
<1>5. AdminCache'
  BY <1>1, AdminServerRests, AdminCacheStays DEF AdminInvariant
<1> QED BY <1>1, <1>3, <1>4, <1>5, RunPassesOn

(* ------------------------------- the queue ----------------------------- *)

LEMMA RequestOfAct ==
    ASSUME AdminInvariant, act.step = "enqueue"
    PROVE  /\ Admin!Request \in AdminRequest
           /\ Admin!Request.op = act.op /\ Admin!Request.thing = act.thing
           /\ Admin!Request.id = act.id /\ Admin!Request.status = "PENDING"
           /\ VersionSeen(server, act.thing, Admin!Request.row)
<1>1. /\ act \in AdminOperation /\ act.thing \in Kept /\ act.op \in AdminOp
      /\ VersionSeen(server, act.thing, act.row)
  BY DEF AdminInvariant, AdminAct, AdminOperation
<1>2. act.row \in AdminRow /\ act.id \in AdminId /\ act.ref \in {"none"} \cup AdminId
  BY <1>1 DEF AdminOperation
<1>3. PICK row : row = Admin!Carrying(act.row, Admin!FormVersion)
  OBVIOUS
<1>4. row \in AdminRow /\ row.version = act.row.version /\ row.stamp = act.row.stamp
  BY <1>2, <1>3 DEF Admin!Carrying, Admin!FormVersion, AdminRow
<1>5. Admin!Request = [op |-> act.op, thing |-> act.thing, id |-> act.id, ref |-> act.ref,
                       row |-> row, status |-> "PENDING"]
  BY <1>3, Zenon DEF Admin!Request
<1> QED BY <1>1, <1>2, <1>4, <1>5 DEF AdminRequest, VersionSeen

LEMMA RequestQueuedKeeps ==
    ASSUME AdminInvariant, Admin!QueueRequest
    PROVE  AdminInvariant'
<1>1. UNCHANGED <<kept, server, cache, run, pull, dropped, excused>> /\ act.step = "enqueue"
  BY DEF Admin!QueueRequest, Admin!ghosts
<1>2. PICK r : r = Admin!Request
  OBVIOUS
<1>3. queue' = Append(queue, r)
  BY <1>2, Zenon DEF Admin!QueueRequest
<1>4. /\ act'.step # "enqueue" /\ AdminAct'
      /\ act'.step = "drop" => act.op = "DELETE" /\ act'.thing = act.thing
  <2>1. CASE act.op = "DELETE"
    <3>1. act' = [act EXCEPT !.step = "drop"]
      BY <2>1 DEF Admin!QueueRequest, Admin!Deleting, Admin!QueueThenDrop
    <3>2. /\ act' \in AdminOperation /\ act'.row = act.row /\ act'.step = "drop" /\ act'.op = act.op
          /\ act'.thing = act.thing /\ act'.found = act.found /\ act'.id = act.id
      BY <3>1 DEF AdminInvariant, AdminAct, AdminOperation
    <3> QED BY <1>1, <2>1, <3>2 DEF AdminInvariant, AdminAct
  <2>2. CASE act.op # "DELETE"
    <3>1. act' = Admin!NoOperation
      BY <2>2 DEF Admin!QueueRequest
    <3> QED BY <3>1, AdminIdles, NoAdminOperation
  <2> QED BY <2>1, <2>2
<1>5. /\ r \in AdminRequest /\ r.op = act.op /\ r.thing = act.thing /\ r.id = act.id
      /\ r.status = "PENDING" /\ VersionSeen(server, act.thing, r.row)
      /\ act.thing \in Kept /\ (act.op = "CREATE" => act.id = "local")
  BY <1>1, <1>2, RequestOfAct DEF AdminInvariant, AdminAct
<1>6. PICK n, h, d : n = Len(queue) + 1 /\ h = act.thing /\ d = act.id
  OBVIOUS
<1>7. /\ queue' \in Seq(AdminRequest) /\ queue'[n] = r /\ n \in DOMAIN queue'
      /\ DOMAIN queue' = DOMAIN queue \cup {n} /\ n \notin DOMAIN queue
      /\ \A k \in DOMAIN queue : queue'[k] = queue[k]
  BY <1>3, <1>5, <1>6 DEF AdminInvariant, AdminQueue
<1>8. AdminQueue'
  <2>1. ASSUME NEW k \in DOMAIN queue'
        PROVE  /\ VersionSeen(server, queue'[k].thing, queue'[k].row)
               /\ queue'[k].op = "CREATE" /\ queue'[k].id = "real" =>
                     server[queue'[k].thing].is # "unborn"
    <3>1. CASE k \in DOMAIN queue
      BY <1>7, <3>1 DEF AdminInvariant, AdminQueue
    <3>2. CASE k = n
      BY <1>5, <1>7, <3>2
    <3> QED BY <1>7, <3>1, <3>2
  <2> QED BY <1>1, <1>7, <2>1 DEF AdminQueue
<1>9. KeptOnward
  BY <1>1, AdminServerRests DEF AdminInvariant
<1>10. AdminRunning'
  BY <1>1, <1>7, <1>9, AdminRunningStays DEF AdminInvariant
<1>11. AdminCache' /\ AdminPulling'
  BY <1>1, <1>9, AdminCacheStays, AdminPullingStays DEF AdminInvariant
<1>12. AdminDecided'
  <2>1. \A t \in Kept : Decided(t) => Decided(t)'
    <3> SUFFICES ASSUME NEW t \in Kept, Decided(t)
                 PROVE  Decided(t)'
      OBVIOUS
    <3> QED BY <1>7, <1>9, StaysDecided
  <2>2. act'.step = "drop" => Decided(h)' /\ act'.thing = h
    BY <1>4, <1>5, <1>6, <1>7 DEF Decided
  <2> QED BY <1>1, <2>1, <2>2 DEF AdminInvariant, AdminDecided
<1>13. AdminOwed'
  <2>1. ~IsOver(n, d)'
    <3>1. run.step \in {"end", "remap"} => run.item \in DOMAIN queue
      BY DEF AdminInvariant, AdminRunning, Delivered
    <3> QED BY <1>1, <1>7, <3>1 DEF IsOver
  <2>2. \A k \in DOMAIN queue, t \in Kept, i \in AdminId : Owes(k, t, i) => Owes(k, t, i)'
    BY <1>1, <1>7 DEF Owes, IsOver
  <2>3. Owes(n, h, d)'
    BY <1>5, <1>6, <1>7, <2>1 DEF Owes
  <2>4. run.step = "remap" => queue'[run.item] = queue[run.item]
    BY <1>7 DEF AdminInvariant, AdminRunning, Delivered
  <2>5. \A t \in Kept \ excused, i \in AdminId :
           cache[t][i].sync = "PENDING" => \E k \in DOMAIN queue' : Owes(k, t, i)'
    <3> SUFFICES ASSUME NEW t \in Kept \ excused, NEW i \in AdminId, cache[t][i].sync = "PENDING"
                 PROVE  \E k \in DOMAIN queue' : Owes(k, t, i)'
      OBVIOUS
    <3>1. CASE act.step = "enqueue" /\ act.thing = t /\ act.id = i
      BY <1>6, <1>7, <2>3, <3>1
    <3>2. CASE \E k \in DOMAIN queue : Owes(k, t, i)
      BY <1>7, <2>2, <3>2
    <3> QED BY <3>1, <3>2 DEF AdminInvariant, AdminOwed
  <2> QED BY <1>1, <2>4, <2>5 DEF AdminInvariant, AdminOwed
<1> QED BY <1>1, <1>4, <1>8, <1>9, <1>10, <1>11, <1>12, <1>13 DEF AdminInvariant, KeptOnward

(* ------------------- pulls, others and the device ---------------------- *)

(* A step that only the lists, the rows or the server are changed by.      *)
LEMMA ListsMove ==
    ASSUME AdminInvariant, UNCHANGED <<queue, act, run, dropped, excused>>, KeptOnward,
           AdminCache', AdminPulling',
           \A t \in Kept, i \in AdminId : cache'[t][i].sync = "PENDING" => cache[t][i].sync = "PENDING"
    PROVE  AdminInvariant'
<1>1. AdminQueue' /\ AdminAct' /\ AdminRunning'
  BY AdminQueueStays, AdminActStays, AdminRunningStays DEF AdminInvariant
<1>2. AdminDecided'
  BY AdminDecidedStays DEF AdminInvariant
<1>3. AdminOwed'
  <2>1. run.step = "remap" => queue[run.item].thing \in Kept
    BY AdminRequests DEF AdminInvariant, AdminRunning, Delivered, AdminRequest
  <2> QED BY <2>1, AdminOwedStays DEF AdminInvariant
<1> QED BY <1>1, <1>2, <1>3 DEF AdminInvariant, KeptOnward

LEMMA NoAdminPull == Admin!NoPull \in AdminPull /\ Admin!NoPull.step = "idle"
BY DEF Admin!NoPull, AdminPull, Admin!NoRow, AdminRow, Admin!Id, AdminId

LEMMA PullingKeeps ==
    ASSUME AdminInvariant,
           (\E t \in kept : Admin!GetList(t)) \/ Admin!SeeRows \/ Admin!PutRows \/ Admin!DropStale
    PROVE  AdminInvariant'
<1>1. UNCHANGED <<kept, server, queue, act, run, dropped, excused>>
  BY DEF Admin!GetList, Admin!SeeRows, Admin!PutRows, Admin!DropStale, Admin!ghosts
<1>2. KeptOnward
  BY <1>1, AdminServerRests DEF AdminInvariant
<1>3. pull \in AdminPull
  BY DEF AdminInvariant, AdminPulling
<1>4. ASSUME NEW t \in kept, Admin!GetList(t)
      PROVE  AdminInvariant'
  <2>1. PICK row : row = IF server[t].is = "live" THEN Admin!RowOf(server[t]) ELSE Admin!NoRow
    OBVIOUS
  <2>2. UNCHANGED cache /\ pull' = [pull EXCEPT !.thing = t, !.step = "see", !.answer = row]
    BY <1>4, <2>1, Zenon DEF Admin!GetList
  <2>3. t \in Kept /\ server \in [Kept -> ServerThing]
    BY DEF AdminInvariant, AdminServer
  <2>4. row \in AdminRow /\ row.sync \in {"none", "SYNCED"} /\ VersionSeen(server, t, row)
    BY <2>1, <2>3, NoRowIsSeen, RowIsSeen DEF AdminInvariant
  <2>5. pull' \in AdminPull /\ pull'.thing = t /\ pull'.answer = row
    BY <1>3, <2>2, <2>3, <2>4 DEF AdminPull
  <2>6. AdminPulling'
    BY <1>1, <2>3, <2>4, <2>5 DEF AdminPulling
  <2> QED BY <1>1, <1>2, <2>2, <2>6, ListsMove, AdminCacheStays DEF AdminInvariant
<1>5. CASE Admin!SeeRows
  <2>1. PICK rows : rows = cache[pull.thing]
    OBVIOUS
  <2>2. UNCHANGED cache /\ pull' = [pull EXCEPT !.step = "put", !.seen = rows] /\ pull.step = "see"
    BY <1>5, <2>1, Zenon DEF Admin!SeeRows
  <2>3. rows \in [AdminId -> AdminRow]
    BY <2>1, <2>2 DEF AdminInvariant, AdminCache, AdminPulling
  <2>4. pull' \in AdminPull /\ pull'.thing = pull.thing /\ pull'.answer = pull.answer
    BY <1>3, <2>2, <2>3 DEF AdminPull
  <2>5. AdminPulling'
    BY <1>1, <2>2, <2>4 DEF AdminInvariant, AdminPulling
  <2> QED BY <1>1, <1>2, <2>2, <2>5, ListsMove, AdminCacheStays DEF AdminInvariant
<1>6. ASSUME NEW row \in AdminRow, row.sync # "PENDING", VersionSeen(server, pull.thing, row),
             pull.step \in {"put", "drop"}, AdminPulling',
             cache' = Admin!With(pull.thing, "real", row) \/ cache' = cache
      PROVE  AdminInvariant'
  <2>1. CASE cache' = Admin!With(pull.thing, "real", row)
    <3>1. PICK t : t = pull.thing
      OBVIOUS
    <3>2. t \in Kept /\ cache' = Admin!With(t, "real", row)
      BY <1>6, <2>1, <3>1 DEF AdminInvariant, AdminPulling
    <3>3. AdminCache' /\ \A u \in Kept, j \in AdminId :
                            cache'[u][j].sync = "PENDING" => cache[u][j].sync = "PENDING"
      BY <1>1, <1>6, <3>1, <3>2, RowPut DEF AdminId
    <3> QED BY <1>1, <1>2, <1>6, <3>3, ListsMove
  <2>2. CASE cache' = cache
    BY <1>1, <1>2, <1>6, <2>2, ListsMove, AdminCacheStays DEF AdminInvariant
  <2> QED BY <1>6, <2>1, <2>2
<1>7. CASE Admin!PutRows
  <2>1. /\ pull.step = "put" /\ pull' = [pull EXCEPT !.step = "drop"]
        /\ cache' = Admin!With(pull.thing, "real", pull.answer) \/ cache' = cache
    BY <1>7 DEF Admin!PutRows
  <2>2. pull' \in AdminPull /\ pull'.thing = pull.thing /\ pull'.answer = pull.answer
    BY <1>3, <2>1 DEF AdminPull
  <2>3. AdminPulling'
    BY <1>1, <2>1, <2>2 DEF AdminInvariant, AdminPulling
  <2>4. pull.answer \in AdminRow /\ pull.answer.sync # "PENDING" /\ VersionSeen(server, pull.thing, pull.answer)
    BY <1>3, <2>1 DEF AdminInvariant, AdminPulling, AdminPull
  <2> QED BY <1>6, <2>1, <2>3, <2>4
<1>8. CASE Admin!DropStale
  <2>1. /\ pull.step = "drop" /\ pull' = Admin!NoPull
        /\ cache' = Admin!With(pull.thing, "real", Admin!NoRow) \/ cache' = cache
    BY <1>8 DEF Admin!DropStale
  <2>2. AdminPulling'
    BY <2>1, NoAdminPull DEF AdminPulling
  <2>3. pull.thing \in Kept
    BY <2>1 DEF AdminInvariant, AdminPulling
  <2>4. /\ Admin!NoRow \in AdminRow /\ Admin!NoRow.sync # "PENDING"
        /\ VersionSeen(server, pull.thing, Admin!NoRow)
    BY <2>3, NoRowIsSeen DEF AdminInvariant
  <2> QED BY <1>6, <2>1, <2>2, <2>4
<1> QED BY <1>4, <1>5, <1>7, <1>8

LEMMA AdminOthersKeep ==
    ASSUME AdminInvariant, NEW t \in Kept, Admin!OthersChange(t)
    PROVE  AdminInvariant'
<1>1. UNCHANGED <<kept, cache, queue, act, run, pull, dropped, excused>> /\ server[t].is = "live"
  BY DEF Admin!OthersChange, Admin!ghosts
<1>2. PICK s, x, y : s = server[t] /\ x = Admin!Removed(s) /\ y = Admin!Changed(s)
  OBVIOUS
<1>3. server' = [server EXCEPT ![t] = x] \/ server' = [server EXCEPT ![t] = y]
  <2>1. server' \in {[server EXCEPT ![t] = x], [server EXCEPT ![t] = y]}
    BY <1>2, Zenon DEF Admin!OthersChange
  <2> QED BY <2>1
<1>4. server \in [Kept -> ServerThing] /\ s \in ServerThing /\ s.stamp < s.version
      /\ s.version \in Nat /\ s.stamp \in Nat
  BY <1>2 DEF AdminInvariant, AdminServer, ServerThing
<1>5. /\ x \in ServerThing /\ x.is = "gone" /\ x.version = s.version /\ x.stamp = s.stamp
      /\ y \in ServerThing /\ y.is = s.is /\ y.version = s.version + 1 /\ y.stamp = s.stamp + 1
  BY <1>2, <1>4, RemovedThing, ChangedThing
<1>6. server' \in [Kept -> ServerThing] /\ \A u \in Kept : u # t => server'[u] = server[u]
  BY <1>3, <1>4, <1>5
<1>7. server'[t] = x \/ server'[t] = y
  BY <1>3, <1>4
<1>8. KeptOnward
  <2>1. /\ server'[t].stamp < server'[t].version
        /\ server'[t].is # "unborn"
        /\ server[t].version <= server'[t].version
        /\ server'[t].version = server[t].version => server'[t].stamp = server[t].stamp
    BY <1>1, <1>2, <1>4, <1>5, <1>7
  <2> QED BY <1>1, <1>6, <2>1, ThingReplaced DEF AdminInvariant
<1> QED BY <1>1, <1>8, ListsMove, AdminCacheStays, AdminPullingStays DEF AdminInvariant

LEMMA ReloadKeeps ==
    ASSUME AdminInvariant, Admin!Reload
    PROVE  AdminInvariant'
<1>1. /\ UNCHANGED <<kept, server, cache, queue, dropped>>
      /\ excused' = excused \cup (IF act.step = "enqueue" THEN {act.thing} ELSE {})
      /\ act' = Admin!NoOperation /\ run' = Admin!NoRun /\ pull' = Admin!NoPull
  BY DEF Admin!Reload
<1>2. KeptOnward
  BY <1>1, AdminServerRests DEF AdminInvariant
<1>3. AdminCache' /\ AdminQueue'
  BY <1>1, <1>2, AdminCacheStays, AdminQueueStays DEF AdminInvariant
<1>4. AdminAct' /\ act'.step = "done"
  BY <1>1, AdminIdles, NoAdminOperation
<1>5. AdminRunning' /\ run'.step = "idle"
  BY <1>1, NoAdminRun DEF AdminRunning, Delivered
<1>6. AdminPulling'
  BY <1>1, NoAdminPull DEF AdminPulling
<1>7. AdminDecided'
  BY <1>1, <1>2, <1>4, AdminDecidedStays DEF AdminInvariant
<1>8. AdminOwed'
  BY <1>1, <1>4, <1>5 DEF AdminInvariant, AdminOwed, Owes, IsOver
<1> QED BY <1>2, <1>3, <1>4, <1>5, <1>6, <1>7, <1>8 DEF AdminInvariant, KeptOnward

LEMMA AdminRests ==
    ASSUME AdminInvariant, UNCHANGED <<kept, server, cache, queue, act, run, pull, dropped, excused>>
    PROVE  AdminInvariant'
<1>1. KeptOnward
  BY AdminServerRests DEF AdminInvariant
<1> QED BY <1>1, ListsMove, AdminCacheStays, AdminPullingStays DEF AdminInvariant

LEMMA AdminStepKeeps ==
    ASSUME AdminInvariant, Admin!AdminSyncNext
    PROVE  AdminInvariant'
<1>1. CASE Admin!ScreenStep
  BY <1>1, PickingKeeps, SendFormKeeps, CancelKeeps, PostFormKeeps, LoseFormKeeps, StoreAnswerKeeps,
     RereadKeeps, PutRowKeeps, RequestQueuedKeeps, DropRowKeeps DEF Admin!ScreenStep
<1>2. CASE Admin!DeliveryStep
  BY <1>2, AdminRunBegins, JudgedKeeps, ServedKeeps, RefusedKeeps, DeliveryLostKeeps, LookedKeeps,
     AnswerCachedKeeps, TemporaryClearedKeeps, RemappedKeeps, ItemEndedKeeps DEF Admin!DeliveryStep
<1>3. CASE Admin!PullStep
  BY <1>3, PullingKeeps DEF Admin!PullStep
<1>4. CASE \E t \in Admin!Thing : Admin!OthersChange(t)
  BY <1>4, AdminOthersKeep DEF Admin!Thing, Kept
<1>5. CASE Admin!Reload
  BY <1>5, ReloadKeeps
<1>6. CASE Admin!Disconnect \/ Admin!Reconnect
  BY <1>6, AdminRests DEF Admin!Disconnect, Admin!Reconnect, Admin!ghosts
<1> QED BY <1>1, <1>2, <1>3, <1>4, <1>5, <1>6 DEF Admin!AdminSyncNext

LEMMA AdminStarts ==
    ASSUME Admin!AdminSyncInit, kept \subseteq Kept
    PROVE  AdminInvariant
<1>1. /\ queue = <<>> /\ act = Admin!NoOperation /\ run = Admin!NoRun /\ pull = Admin!NoPull
      /\ dropped = {} /\ excused = {}
      /\ server \in [Admin!Thing ->
                       {[is |-> s, version |-> 1, stamp |-> 0] : s \in {"unborn", "live"}}]
      /\ cache = [t \in Admin!Thing |-> [i \in Admin!Id |->
                     IF i = "real" /\ server[t].is = "live" THEN Admin!RowOf(server[t]) ELSE Admin!NoRow]]
  BY DEF Admin!AdminSyncInit
<1>2. server \in [Kept -> ServerThing] /\ \A t \in Kept : server[t].stamp < server[t].version
  BY <1>1 DEF Admin!Thing, Kept, ServerThing
<1>3. AdminServer
  BY <1>2 DEF AdminServer
<1>4. ASSUME NEW t \in Kept, NEW i \in AdminId
      PROVE  /\ cache[t][i] \in AdminRow /\ VersionSeen(server, t, cache[t][i])
             /\ cache[t][i].sync # "PENDING"
  <2>1. cache[t][i] = IF i = "real" /\ server[t].is = "live" THEN Admin!RowOf(server[t]) ELSE Admin!NoRow
    BY <1>1 DEF Admin!Thing, Kept, Admin!Id, AdminId
  <2>2. /\ Admin!NoRow \in AdminRow /\ Admin!NoRow.sync = "none" /\ VersionSeen(server, t, Admin!NoRow)
        /\ Admin!RowOf(server[t]) \in AdminRow /\ Admin!RowOf(server[t]).sync = "SYNCED"
        /\ VersionSeen(server, t, Admin!RowOf(server[t]))
    BY <1>2, <1>3, NoRowIsSeen, RowIsSeen
  <2> QED BY <2>1, <2>2
<1>5. cache \in [Kept -> [AdminId -> AdminRow]]
  <2>1. cache = [t \in Kept |-> cache[t]]
    BY <1>1 DEF Admin!Thing, Kept
  <2>2. \A t \in Kept : cache[t] = [i \in AdminId |-> cache[t][i]]
    BY <1>1 DEF Admin!Thing, Kept, Admin!Id, AdminId
  <2> QED BY <1>4, <2>1, <2>2
<1>6. AdminCache
  BY <1>4, <1>5 DEF AdminCache
<1>7. AdminQueue
  BY <1>1 DEF AdminQueue
<1>8. AdminAct /\ act.step = "done"
  BY <1>1, NoAdminOperation DEF AdminAct
<1>9. AdminRunning /\ run.step = "idle"
  BY <1>1, NoAdminRun DEF AdminRunning, Delivered
<1>10. AdminPulling
  BY <1>1, NoAdminPull DEF AdminPulling
<1>11. AdminDecided
  BY <1>1, <1>8 DEF AdminDecided
<1>12. AdminOwed
  BY <1>4, <1>9 DEF AdminOwed
<1> QED BY <1>3, <1>6, <1>7, <1>8, <1>9, <1>10, <1>11, <1>12 DEF AdminInvariant

LEMMA DeletionsAreDecided == AdminInvariant => Admin!DeletionIsDecided
BY DEF AdminInvariant, AdminDecided, Decided, Admin!DeletionIsDecided

LEMMA AdminRowsAreOwed == AdminInvariant => Admin!AdminRowOwed
BY DEF AdminInvariant, AdminOwed, Owes, Admin!AdminRowOwed, Admin!Thing, Kept, Admin!Id, AdminId,
       Admin!Row

(* What the server accepts of a customer's edit is of the version it has,  *)
(* and of the stamp that version had since.                                *)
LEMMA ServedOverSeen ==
    ASSUME AdminServer, NEW r, r.op \in AdminOp, r.thing \in Kept,
           VersionSeen(server, r.thing, r.row),
           Admin!MadeOnce(r), Admin!Answered(r) = 200, server' = Admin!After(r),
           server["customer"].version # server'["customer"].version
    PROVE  r.row.stamp = server["customer"].stamp
<1>1. server \in [Kept -> ServerThing] /\ \A t \in Kept : server[t].stamp < server[t].version
  BY DEF AdminServer
<1>2. PICK t, s : t = r.thing /\ s = server[t]
  OBVIOUS
<1>3. s \in ServerThing /\ s.stamp < s.version
  BY <1>1, <1>2
<1>4. PICK x : x = (CASE r.op = "CREATE" -> Admin!Made(s)
                      [] r.op = "DELETE" -> Admin!Removed(s)
                      [] OTHER -> Admin!Altered(s))
  OBVIOUS
<1>5. server' = [server EXCEPT ![t] = x]
  BY <1>2, <1>4, Zenon DEF Admin!After
<1>6. t = "customer"
  BY <1>1, <1>2, <1>5 DEF Kept
<1>7. x.version # s.version
  BY <1>1, <1>2, <1>5, <1>6 DEF Kept
<1>8. r.op \notin {"CREATE", "DELETE"}
  <2>1. r.op = "CREATE" => x.version = s.version
    BY <1>3, <1>4, MadeThing
  <2>2. r.op = "DELETE" => x = Admin!Removed(s)
    BY <1>4
  <2>3. r.op = "DELETE" => x.version = s.version
    BY <1>3, <2>2, RemovedThing
  <2> QED BY <1>7, <2>1, <2>3
<1>9. r.op \in Admin!Edits \cup {"BRAND"}
  BY <1>8 DEF AdminOp, Admin!Edits
<1>10. Admin!Known(r)
  BY <1>8 DEF Admin!Answered
<1>11. server["customer"].version = r.row.version
  BY <1>2, <1>6, <1>8, <1>9, <1>10 DEF Admin!Answered
<1> QED BY <1>2, <1>6, <1>11 DEF VersionSeen

LEMMA StrangersCount ==
    strangers \in Nat /\ Admin!AdminSyncNext => strangers' \in Nat
<1> SUFFICES ASSUME strangers \in Nat, Admin!AdminSyncNext
             PROVE  strangers' \in Nat
  OBVIOUS
<1>1. CASE Admin!ScreenStep
  BY <1>1 DEF Admin!ScreenStep, Admin!PickUser, Admin!PickCustomer, Admin!PickBranding, Admin!Picked,
        Admin!SendForm, Admin!CancelForm, Admin!PostForm, Admin!LoseForm, Admin!StoreAnswer,
        Admin!RereadRow, Admin!PutRow, Admin!QueueRequest, Admin!DropRow, Admin!counters
<1>2. CASE Admin!DeliveryStep
  BY <1>2 DEF Admin!DeliveryStep, Admin!StartRun, Admin!Judge, Admin!Deliver, Admin!Refuse,
        Admin!LoseDelivery, Admin!LookForTemporary, Admin!CacheAnswer, Admin!ClearTemporary,
        Admin!Remap, Admin!EndItem, Admin!counters
<1>3. CASE Admin!PullStep
  BY <1>3 DEF Admin!PullStep, Admin!GetList, Admin!SeeRows, Admin!PutRows, Admin!DropStale,
        Admin!counters
<1>4. CASE \E t \in Admin!Thing : Admin!OthersChange(t)
  BY <1>4 DEF Admin!OthersChange
<1>5. CASE Admin!Reload \/ Admin!Disconnect \/ Admin!Reconnect
  BY <1>5 DEF Admin!Reload, Admin!Disconnect, Admin!Reconnect, Admin!counters
<1> QED BY <1>1, <1>2, <1>3, <1>4, <1>5 DEF Admin!AdminSyncNext

LEMMA EditsAreOverSeen ==
    ASSUME AdminInvariant, strangers \in Nat, Admin!AdminSyncNext
    PROVE  Admin!OverSeen
<1> SUFFICES ASSUME strangers' = strangers, server["customer"].version # server'["customer"].version
             PROVE  Admin!Sent.row.stamp = server["customer"].stamp
  BY DEF Admin!OverSeen
<1>1. ASSUME NEW r, r.op \in AdminOp, r.thing \in Kept, VersionSeen(server, r.thing, r.row),
             Admin!MadeOnce(r), r = Admin!Sent,
             server' \in {server} \cup (IF Admin!Answered(r) = 200 THEN {Admin!After(r)} ELSE {})
      PROVE  Admin!Sent.row.stamp = server["customer"].stamp
  <2>1. Admin!Answered(r) = 200 /\ server' = Admin!After(r)
    BY <1>1
  <2> QED BY <1>1, <2>1, ServedOverSeen DEF AdminInvariant
<1>2. ASSUME act.step = "post", Admin!MadeOnce(act), act' # act,
             server' \in {server} \cup (IF Admin!Answered(act) = 200 THEN {Admin!After(act)} ELSE {})
      PROVE  Admin!Sent.row.stamp = server["customer"].stamp
  <2>1. PICK r : r = act
    OBVIOUS
  <2>2. r.op \in AdminOp /\ r.thing \in Kept /\ VersionSeen(server, r.thing, r.row)
    BY <1>2, <2>1 DEF AdminInvariant, AdminAct, AdminOperation
  <2>3. r = Admin!Sent
    BY <1>2, <2>1 DEF Admin!Sent
  <2> QED BY <1>1, <1>2, <2>1, <2>2, <2>3
<1>3. ASSUME run.step = "send", Admin!MadeOnce(Admin!Item), UNCHANGED act,
             server' \in {server} \cup
                (IF Admin!Answered(Admin!Item) = 200 THEN {Admin!After(Admin!Item)} ELSE {})
      PROVE  Admin!Sent.row.stamp = server["customer"].stamp
  <2>1. PICK r : r = Admin!Item
    OBVIOUS
  <2>2. run.item \in DOMAIN queue /\ r = queue[run.item] /\ r \in AdminRequest
    BY <1>3, <2>1, AdminItem
  <2>3. r.op \in AdminOp /\ r.thing \in Kept /\ VersionSeen(server, r.thing, r.row)
    BY <2>2 DEF AdminRequest, AdminInvariant, AdminQueue
  <2>4. r = Admin!Sent
    BY <1>3, <2>1 DEF Admin!Sent
  <2> QED BY <1>1, <1>3, <2>1, <2>3, <2>4
<1>4. CASE Admin!PostForm
  <2>1. /\ act.step = "post" /\ Admin!MadeOnce(act)
        /\ server' \in {server} \cup (IF Admin!Answered(act) = 200 THEN {Admin!After(act)} ELSE {})
    BY <1>4 DEF Admin!PostForm
  <2>2. act' # act
    <3>1. PICK row : row = Admin!RowOf(Admin!After(act)[act.thing])
      OBVIOUS
    <3>2. act' = [act EXCEPT !.row = row, !.step = "store"] \/ act' = Admin!NoOperation
      BY <1>4, <3>1, Zenon DEF Admin!PostForm
    <3>3. act \in AdminOperation
      BY DEF AdminInvariant, AdminAct
    <3> QED BY <2>1, <3>2, <3>3, NoAdminOperation DEF AdminOperation
  <2> QED BY <1>2, <2>1, <2>2
<1>5. CASE Admin!LoseForm
  <2>1. /\ act.step = "post" /\ Admin!MadeOnce(act)
        /\ server' \in {server} \cup (IF Admin!Answered(act) = 200 THEN {Admin!After(act)} ELSE {})
    BY <1>5 DEF Admin!LoseForm
  <2>2. act' # act
    <3>1. act \in AdminOperation /\ act.op \in AdminOp
      BY <2>1 DEF AdminInvariant, AdminAct, AdminOperation
    <3>2. CASE act.op = "BRAND"
      <4>1. act' = Admin!NoOperation
        BY <1>5, <3>2 DEF Admin!LoseForm
      <4> QED BY <2>1, <4>1, NoAdminOperation
    <3>3. CASE act.op # "BRAND"
      <4>1. PICK step : step = Admin!Locally
        OBVIOUS
      <4>2. act' = [act EXCEPT !.step = step] /\ step \in {"enqueue", "reread", "put"}
        BY <1>5, <3>1, <3>3, <4>1, LocallyIs DEF Admin!LoseForm
      <4>3. act'.step = step
        BY <3>1, <4>2 DEF AdminOperation
      <4> QED BY <2>1, <4>2, <4>3
    <3> QED BY <3>2, <3>3
  <2> QED BY <1>2, <2>1, <2>2
<1>6. CASE Admin!Deliver
  BY <1>3, <1>6 DEF Admin!Deliver
<1>7. CASE Admin!LoseDelivery
  BY <1>3, <1>7 DEF Admin!LoseDelivery
<1>8. server' # server
  OBVIOUS
<1>9. ~(\E t \in Admin!Thing : Admin!OthersChange(t))
  BY DEF Admin!OthersChange
<1>10. CASE Admin!ScreenStep
  BY <1>4, <1>5, <1>8, <1>10 DEF Admin!ScreenStep, Admin!PickUser, Admin!PickCustomer,
        Admin!PickBranding, Admin!Picked, Admin!SendForm, Admin!CancelForm, Admin!StoreAnswer,
        Admin!RereadRow, Admin!PutRow, Admin!QueueRequest, Admin!DropRow
<1>11. CASE Admin!DeliveryStep
  BY <1>6, <1>7, <1>8, <1>11 DEF Admin!DeliveryStep, Admin!StartRun, Admin!Judge, Admin!Refuse,
        Admin!LookForTemporary, Admin!CacheAnswer, Admin!ClearTemporary, Admin!Remap, Admin!EndItem
<1>12. CASE Admin!PullStep
  BY <1>8, <1>12 DEF Admin!PullStep, Admin!GetList, Admin!SeeRows, Admin!PutRows, Admin!DropStale
<1>13. ~Admin!Reload /\ ~Admin!Disconnect /\ ~Admin!Reconnect
  BY <1>8 DEF Admin!Reload, Admin!Disconnect, Admin!Reconnect
<1> QED BY <1>9, <1>10, <1>11, <1>12, <1>13 DEF Admin!AdminSyncNext
=============================================================================
