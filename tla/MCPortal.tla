------------------------------ MODULE MCPortal ------------------------------
(***************************************************************************)
(* One instance for five screens of the portal: the drawer of a serial,    *)
(* the offline reviews, the administration of users and customers, the     *)
(* screen of a report, and the list of its serials.  One of them is open,  *)
(* the scene drawn with the first state, and the variables are that        *)
(* screen's: those that its module does not have are unused.               *)
(***************************************************************************)
EXTENDS Integers, Sequences, TLC

CONSTANTS
    DrawerField, ReviewSerial, ListSerial,  \* what each screen is about,
    SerialCount,
    MaxInputs, MaxOpenings, MaxTurns,       \* and the bounds of SerialDrawer,
    MaxEvents, MaxCalls, MaxRefreshing,
    MaxBatches, ReviewUpsets, ListUpsets,   \*   OfflineReview, SerialList,
    MaxLost, MaxActs, MaxOthers,            \*   and of several screens
    MaxFaults, MaxPulls

ASSUME PortalAssumption == SerialCount \in Nat /\ MaxBatches \in Nat

ReviewSymmetry == Permutations(ReviewSerial)

VARIABLES scene, host, connected, server, cache, outbox, shown, editable, drawer, form,
    calls, refreshes, typed, excused, inputs, openings, lost, turns, scope, queue, act,
    run, acts, others, kept, pull, dropped, faults, strangers, pulls, user, holdLog,
    chosen, early, child, childCached

(* The screens of a report or child report: every role and status for one  *)
(* operation, and two for the inspector at work.  One operation of a child *)
(* report may be two requests: its notes, then its transition.             *)
Screens(hosts, roles, statuses, n) ==
    {[host |-> h, user |-> r, status |-> s, acts |-> n] : h \in hosts, r \in roles, s \in statuses}
Statuses == {"DRAFT", "RECEIVED", "READY_FOR_INSPECTION", "IN_INSPECTION", "PENDING_APPROVAL",
             "APPROVED", "ON_HOLD", "CLOSED"}
Screening == {"ADMIN", "RECEIVER", "INSPECTOR"}
ScreenStarts ==
    Screens({"report"}, Screening, Statuses, 1)
    \cup Screens({"child"}, Screening, Statuses \ {"RECEIVED", "READY_FOR_INSPECTION", "ON_HOLD"}, 1)
    \cup Screens({"report"}, {"INSPECTOR"}, {"IN_INSPECTION"}, 2)

Drawer == INSTANCE SerialDrawer WITH Hosts <- {"report", "child"}, Field <- DrawerField
Review == INSTANCE OfflineReview WITH
    Scopes <- {"report", "child"}, Serial <- ReviewSerial, MaxUpsets <- ReviewUpsets
Admin == INSTANCE AdminSync WITH Keeps <- {{"user"}, {"customer"}}
Screen == INSTANCE ReportScreen WITH Starts <- ScreenStarts
List == INSTANCE SerialList WITH
    Serial <- ListSerial, Explicit <- BOOLEAN, MaxUpsets <- ListUpsets

(* The variables that a screen does not have.                              *)
OutsideDrawer == <<scope, queue, act, run, acts, others, kept, pull, dropped, faults,
    strangers, pulls, user, holdLog, chosen, early, child, childCached>>
OutsideReview == <<host, outbox, shown, editable, drawer, form, calls, refreshes, typed,
    inputs, openings, turns, kept, pull, dropped, faults, strangers, pulls, user,
    holdLog, chosen, early, child, childCached>>
OutsideAdmin == <<host, outbox, shown, editable, drawer, form, calls, refreshes, typed,
    inputs, openings, lost, turns, scope, others, user, holdLog, chosen, early, child,
    childCached>>
OutsideScreen == <<outbox, editable, drawer, form, calls, refreshes, typed, inputs,
    openings, lost, turns, scope, kept, pull, dropped, strangers, pulls, early, child,
    childCached>>
OutsideList == <<host, outbox, shown, editable, drawer, form, calls, refreshes, typed,
    inputs, openings, lost, turns, scope, kept, pull, strangers, user, holdLog, chosen>>

OnlyFor(scenes, variable) == scene \notin scenes => variable = "unused"
Acting == {"review", "admin", "screen", "list"}
Unused ==
    /\ OnlyFor({"drawer", "screen"}, host)
    /\ OnlyFor({"drawer"}, outbox)
    /\ OnlyFor({"drawer", "screen"}, shown)
    /\ OnlyFor({"drawer"}, editable)
    /\ OnlyFor({"drawer"}, drawer)
    /\ OnlyFor({"drawer"}, form)
    /\ OnlyFor({"drawer"}, calls)
    /\ OnlyFor({"drawer"}, refreshes)
    /\ OnlyFor({"drawer"}, typed)
    /\ OnlyFor({"drawer"}, inputs)
    /\ OnlyFor({"drawer"}, openings)
    /\ OnlyFor({"drawer", "review"}, lost)
    /\ OnlyFor({"drawer"}, turns)
    /\ OnlyFor({"review"}, scope)
    /\ OnlyFor(Acting, queue)
    /\ OnlyFor(Acting, act)
    /\ OnlyFor(Acting, run)
    /\ OnlyFor(Acting, acts)
    /\ OnlyFor({"review", "screen", "list"}, others)
    /\ OnlyFor({"admin"}, kept)
    /\ OnlyFor({"admin"}, pull)
    /\ OnlyFor({"admin", "list"}, dropped)
    /\ OnlyFor({"admin", "screen", "list"}, faults)
    /\ OnlyFor({"admin"}, strangers)
    /\ OnlyFor({"admin", "list"}, pulls)
    /\ OnlyFor({"screen"}, user)
    /\ OnlyFor({"screen"}, holdLog)
    /\ OnlyFor({"screen"}, chosen)
    /\ OnlyFor({"list"}, early)
    /\ OnlyFor({"list"}, child)
    /\ OnlyFor({"list"}, childCached)

PortalInit ==
    /\ \/ scene = "drawer" /\ Drawer!SerialDrawerInit
       \/ scene = "review" /\ Review!OfflineReviewInit
       \/ scene = "admin" /\ Admin!AdminSyncInit
       \/ scene = "screen" /\ Screen!ReportScreenInit
       \/ scene = "list" /\ List!SerialListInit
    /\ Unused

DrawerOpen == scene = "drawer" /\ Drawer!SerialDrawerNext /\ UNCHANGED <<scene, OutsideDrawer>>
ReviewOpen == scene = "review" /\ Review!OfflineReviewNext /\ UNCHANGED <<scene, OutsideReview>>
AdminOpen == scene = "admin" /\ Admin!AdminSyncNext /\ UNCHANGED <<scene, OutsideAdmin>>
ScreenOpen == scene = "screen" /\ Screen!ReportScreenNext /\ UNCHANGED <<scene, OutsideScreen>>
ListOpen == scene = "list" /\ List!SerialListNext /\ UNCHANGED <<scene, OutsideList>>

portalVars == <<scene, Drawer!drawerVars, OutsideDrawer>>
PortalNext == DrawerOpen \/ ReviewOpen \/ AdminOpen \/ ScreenOpen \/ ListOpen
PortalSpec == PortalInit /\ [][PortalNext]_portalVars

(* What was last typed in a field of a serial's form is in the open form   *)
(* as pending, in a call under way, queued, or on the server - but for the *)
(* drafts that SerialDrawer excuses.                                       *)
DraftKept == scene = "drawer" => Drawer!DraftKept

(* A draft never reaches a serial it was not typed for, however the drawer *)
(* moves on while timers and calls are pending.                            *)
DraftForItsSerial == scene = "drawer" => Drawer!DraftForItsSerial

(* Saves of one serial that are under way together carry different         *)
(* versions, unless one of them is explicit: autosaves never make each     *)
(* other fail.                                                             *)
AutosavesReadNewVersions == scene = "drawer" => Drawer!AutosavesReadNewVersions

(* However an operation was retried - on the device after an answer was    *)
(* lost, or delivered twice - a serial is pending in two batches only when *)
(* a third has reviewed it: a review through an older batch takes the rows *)
(* that a newer one submitted, and leaves them pending there.              *)
ResubmittedAfterReview == scene = "review" => Review!ResubmittedAfterReview

(* A review that was queued is sent to the batch its reviewer looked at,   *)
(* though that batch has had two ids.                                      *)
VerdictForItsBatch == scene = "review" => Review!VerdictForItsBatch

(* A user or customer that the administrator deleted is gone from the      *)
(* server, or its deletion is queued or was refused and is there to see -  *)
(* whatever was lost, reloaded or delivered meanwhile.                     *)
DeletionIsDecided == scene = "admin" => Admin!DeletionIsDecided

(* No edit of a customer overwrites what another administrator has changed *)
(* since the row that its author was shown, though the row is cached,      *)
(* queued, pulled and sent at different times.                             *)
EditOverSeen == [][scene = "admin" => Admin!OverSeen]_portalVars

(* Whatever the screen offers of a synced row that is the server's, with   *)
(* a reason where the screen asks for one, the server accepts - except the *)
(* releases of a hold that ReportScreen names.                             *)
OfferedIsAccepted == scene = "screen" => Screen!OfferedIsAccepted

(* A transition is made on the status in which it was offered, however     *)
(* long it was selected, queued or on its way and whatever others did -    *)
(* unless its row had changed, or was not synced, when its user confirmed; *)
(* a child report then is moved on from no status but DRAFT.               *)
TransitionOnOfferedStatus == [][scene = "screen" => Screen!OnOfferedStatus]_portalVars

(* A serial that was deleted on the device is gone from the server, or its *)
(* deletion is under way or waiting, or was refused under an id that the   *)
(* server knows - but for the two races that SerialList excuses.           *)
DeletedSerialIsDecided == scene = "list" => List!DeletedSerialIsDecided

(* A row that any of the screens shows as not yet synced is owed to a      *)
(* request that is waiting or was refused, or to a step under way - but    *)
(* for the rows that each module excuses, which are owed to nothing.       *)
UnsyncedRowIsOwed ==
    /\ scene = "review" => Review!UnsyncedIsOwed
    /\ scene = "admin" => Admin!AdminRowOwed
    /\ scene = "screen" => Screen!ReportRowOwed
    /\ scene = "list" => List!SerialRowOwed
=============================================================================
