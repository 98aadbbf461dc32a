---------------------------- MODULE SerialDrawer ----------------------------
(***************************************************************************)
(* The drawer in which an inspector fills in one serial after another: the *)
(* form and its autosave, the screen that hosts it (of an inspection       *)
(* report or of a child report), the calls that save a serial, and the     *)
(* refreshes that renew the list from which the form is seeded.  A step is *)
(* what the event loop runs between two awaits.  The form's content is one *)
(* value per field; what the code compares as JSON is compared whole.      *)
(* Queued saves stay queued: OutboxSync has their delivery.                *)
(***************************************************************************)
EXTENDS Integers, Sequences, SequencesExt

CONSTANTS
    Hosts,              \* the screens studied, "report" and "child"
    SerialCount,        \* serials of the list, in its order
    Field,              \* fields of the form
    MaxInputs,          \* bound: fields typed in and explicit saves,
    MaxOpenings,        \*   drawers opened or moved on,
    MaxLost,            \*   requests lost or refused, disconnections,
    MaxTurns,           \*   changes of what the report allows or how it is defined,
    MaxEvents,          \*   all of these together,
    MaxCalls,           \*   saves under way at once,
    MaxRefreshing       \*   refreshes under way at once

Serial == 1 .. SerialCount
NoSerial == 0
Blank == [f \in Field |-> "blank"]
Filling == {"blank", "filled"}
NoRows == [s \in Serial |-> [version |-> 0, content |-> Blank]]

VARIABLES
    host,       \* the screen the drawer is on
    connected,  \* ConnectivityService.isOnline
    server,     \* each serial on the server: version and content
    cache,      \* each serial in IndexedDB
    outbox,     \* the contents queued for each serial, the last one if any
    shown,      \* this.serials(): the contents last refreshed
    editable,   \* ~isReadOnly
    drawer,     \* the open serial, what it was seeded with, hasUnrefreshedAutosave
    form,       \* its content, lastSavedKey, autosavePending, and the timer
    calls,      \* saves under way, in the order they were asked for
    refreshes,  \* calls of refreshData under way
    typed,      \* ghost: what was last typed in each field of each serial
    excused,    \* ghost: serials whose drafts may be lost, see DraftKept
    inputs, openings, lost, turns

drawerVars == <<host, connected, server, cache, outbox, shown, editable, drawer, form, calls,
                refreshes, typed, excused, inputs, openings, lost, turns>>

(* The form is given and taken with the drawer; the rest is the device's.  *)
device == <<server, cache, outbox, connected>>
screen == <<host, shown, editable>>
bounds == <<inputs, openings, lost, turns>>
Counts == inputs + openings + lost + turns < MaxEvents

NoForm == [content |-> Blank, saved |-> Blank, pending |-> FALSE, timer |-> FALSE]
Closed == [serial |-> NoSerial, seed |-> Blank, unrefreshed |-> FALSE]
IsOpen == drawer.serial # NoSerial
Latest(s) == IF outbox[s] = {} THEN server[s].content ELSE CHOOSE c \in outbox[s] : TRUE

SerialDrawerInit ==
    /\ host \in Hosts
    /\ connected = TRUE
    /\ server = [s \in Serial |-> [version |-> 1, content |-> Blank]]
    /\ cache = server
    /\ outbox = [s \in Serial |-> {}]
    /\ shown = [s \in Serial |-> Blank]
    /\ editable = TRUE
    /\ drawer = Closed
    /\ form = NoForm
    /\ calls = <<>>
    /\ refreshes = <<>>
    /\ typed = [s \in Serial |-> [f \in Field |-> "nothing"]]
    /\ excused = {}
    /\ inputs = 0 /\ openings = 0 /\ lost = 0 /\ turns = 0

(* ------------------------------- the form ------------------------------ *)

(* armAutosave: what the form now holds counts as saved.                   *)
Armed(content) == [content |-> content, saved |-> content, pending |-> FALSE, timer |-> FALSE]

Call(s, isExplicit) ==
    [serial |-> s, content |-> form.content, explicit |-> isExplicit, step |-> "wait",
     base |-> 0, answer |-> NoRows, here |-> TRUE]

(* runAutosave saves a pending, editable form that differs from what was   *)
(* saved last.  It forgets that the form is pending unless it may not save.*)
DraftToSave == IsOpen /\ editable /\ form.pending /\ form.content # form.saved
StillPending == form.pending /\ ~editable
WithDraft(s) == IF DraftToSave THEN Append(calls, Call(s, FALSE)) ELSE calls
Room == Len(calls) < MaxCalls

(* A form that is gone is deaf to the calls it made.                       *)
Orphaned(C) == [k \in DOMAIN C |-> [C[k] EXCEPT !.here = FALSE]]

(* Typing sets the timer again.  Typing while a call is under way is one   *)
(* of the cases excused.                                                   *)
Type(f, v) ==
    /\ IsOpen /\ editable /\ v # form.content[f]
    /\ Counts /\ inputs < MaxInputs /\ inputs' = inputs + 1
    /\ form' = [form EXCEPT !.content[f] = v, !.pending = TRUE, !.timer = TRUE]
    /\ typed' = [typed EXCEPT ![drawer.serial][f] = v]
    /\ excused' = excused \cup (IF calls # <<>> THEN {drawer.serial} ELSE {})
    /\ UNCHANGED <<device, screen, drawer, calls, refreshes, openings, lost, turns>>

(* The typing pause is over, a field is committed, or the tab is hidden.   *)
SaveDraft ==
    /\ IsOpen /\ (form.timer \/ form.pending)
    /\ Room
    /\ calls' = WithDraft(drawer.serial)
    /\ form' = [form EXCEPT !.timer = FALSE, !.pending = StillPending]
    /\ UNCHANGED <<device, screen, drawer, refreshes, typed, excused, bounds>>

(* onSubmit, then saveInspectionForm.                                      *)
Submit ==
    /\ IsOpen /\ editable
    /\ Counts /\ inputs < MaxInputs /\ inputs' = inputs + 1
    /\ Room
    /\ calls' = Append(calls, Call(drawer.serial, TRUE))
    /\ form' = Armed(form.content)
    /\ excused' = excused \cup (IF calls # <<>> THEN {drawer.serial} ELSE {})
    /\ UNCHANGED <<device, screen, drawer, refreshes, typed, openings, lost, turns>>

(* The report's status as shown changes, and with it isReadOnly: enabling  *)
(* the form again announces a change.                                      *)
TurnReadOnly ==
    /\ Counts /\ turns < MaxTurns /\ turns' = turns + 1
    /\ editable' = ~editable
    /\ form' = IF ~editable /\ IsOpen THEN [form EXCEPT !.pending = TRUE, !.timer = TRUE] ELSE form
    /\ UNCHANGED <<device, host, shown, drawer, calls, refreshes, typed, excused,
                   inputs, openings, lost>>

(* A definition that arrives late builds the form anew, from the data the  *)
(* drawer was opened with.                                                 *)
DefinitionArrives ==
    /\ IsOpen
    /\ Room
    /\ Counts /\ turns < MaxTurns /\ turns' = turns + 1
    /\ calls' = WithDraft(drawer.serial)
    /\ form' = Armed(drawer.seed)
    /\ excused' = excused \cup {drawer.serial}
    /\ UNCHANGED <<device, screen, drawer, refreshes, typed, inputs, openings, lost>>

(* ---------------------------- opening, moving on ----------------------- *)

OpenOn(s) ==
    /\ Counts /\ openings < MaxOpenings /\ openings' = openings + 1
    /\ drawer' = [drawer EXCEPT !.serial = s, !.seed = shown[s]]
    /\ form' = Armed(shown[s])
    /\ excused' = excused
          \cup (IF calls' # <<>> \/ shown[s] # Latest(s) THEN {s} ELSE {})
          \cup (IF StillPending THEN {drawer.serial} ELSE {})
    /\ UNCHANGED <<device, screen, refreshes, typed, inputs, lost, turns>>

OpenDrawer(s) == ~IsOpen /\ UNCHANGED calls /\ OpenOn(s)

(* Faults to refute: the draft goes to the serial that comes in, or moving *)
(* on saves nothing.                                                       *)
FlushesIncoming(s) == WithDraft(s)
FlushesNothing(s) == calls

(* ngOnChanges: the serial that goes out is saved before the form is       *)
(* seeded with the next one.                                               *)
FlushesOutgoing(s) == WithDraft(drawer.serial)

GoTo(s) ==
    /\ IsOpen /\ s \in {drawer.serial - 1, drawer.serial + 1}
    /\ Room
    /\ calls' = FlushesOutgoing(s)
    /\ OpenOn(s)

(* ------------------------------- refreshData --------------------------- *)

Refreshing(step, waits) ==
    [step |-> step, waits |-> waits, rows |-> NoRows]

(* A refresh of a child report pulls first when online, and while one runs *)
(* others are dropped; those of a report overlap.                          *)
FirstStep == IF host = "child" /\ connected THEN "pull" ELSE "read"
IsRefreshing == \E k \in DOMAIN refreshes : refreshes[k].step # "due"
Dropped == host = "child" /\ IsRefreshing
Started == IF Dropped THEN refreshes ELSE Append(refreshes, Refreshing(FirstStep, 0))
RefreshRoom == Len(refreshes) < MaxRefreshing

(* Synced rows or child reports changed in the cache, for whatever reason. *)
Renew ==
    /\ RefreshRoom /\ refreshes = <<>> /\ calls = <<>>
    /\ \E s \in Serial : shown[s] # cache[s].content
    /\ refreshes' = Started
    /\ UNCHANGED <<device, screen, drawer, form, calls, typed, excused, bounds>>

(* autosaveChain.then(refreshData), once the drawer has closed.            *)
StartDue(k) ==
    /\ refreshes[k].step = "due" /\ refreshes[k].waits = 0
    /\ refreshes' = IF Dropped THEN RemoveAt(refreshes, k)
                    ELSE [refreshes EXCEPT ![k].step = FirstStep]
    /\ UNCHANGED <<device, screen, drawer, form, calls, typed, excused, bounds>>

(* pullSingleFromServer: the answer, then the cache; a failure is logged.  *)
PullChild(k) ==
    /\ refreshes[k].step = "pull"
    /\ \/ refreshes' = [refreshes EXCEPT ![k].step = "put", ![k].rows = server] /\ UNCHANGED lost
       \/ /\ Counts /\ lost < MaxLost /\ lost' = lost + 1
          /\ refreshes' = [refreshes EXCEPT ![k].step = "read"]
    /\ UNCHANGED <<device, screen, drawer, form, calls, typed, excused, inputs, openings, turns>>

PutChild(k) ==
    /\ refreshes[k].step = "put"
    /\ cache' = refreshes[k].rows
    /\ refreshes' = [refreshes EXCEPT ![k].step = "read", ![k].rows = NoRows]
    /\ UNCHANGED <<server, outbox, connected, screen, drawer, form, calls, typed, excused, bounds>>

(* What a screen lists of the cached rows.                                 *)
Listed == [s \in Serial |-> [version |-> 0, content |-> cache[s].content]]
Contents(rows) == [s \in Serial |-> rows[s].content]

ReadRows(k) ==
    /\ refreshes[k].step = "read"
    /\ refreshes' = [refreshes EXCEPT ![k].step = "apply", ![k].rows = Listed]
    /\ UNCHANGED <<device, screen, drawer, form, calls, typed, excused, bounds>>

ApplyRows(k) ==
    /\ refreshes[k].step = "apply"
    /\ shown' = Contents(refreshes[k].rows)
    /\ refreshes' = RemoveAt(refreshes, k)
    /\ UNCHANGED <<device, host, editable, drawer, form, calls, typed, excused, bounds>>

(* Cancelling saves the draft before the drawer closes, any other way of   *)
(* closing it when the form is destroyed.                                  *)
Shut(C, R) ==
    /\ calls' = Orphaned(C)
    /\ refreshes' = R
    /\ drawer' = Closed
    /\ form' = NoForm
    /\ excused' = excused \cup (IF StillPending THEN {drawer.serial} ELSE {})

(* It will not start before the autosaves under way have ended.            *)
Autosaves(C) == Cardinality({k \in DOMAIN C : ~C[k].explicit})
Due(C) == IF drawer.unrefreshed THEN Append(refreshes, Refreshing("due", Autosaves(C)))
          ELSE refreshes

(* A fault to refute: a drawer that closes forgets its draft.              *)
FlushesOnDestroyNothing == calls
FlushesOnDestroy == WithDraft(drawer.serial)

CloseDrawer ==
    /\ IsOpen /\ Room /\ RefreshRoom
    /\ \E C \in {calls, FlushesOnDestroy} : Shut(FlushesOnDestroy, Due(C))
    /\ UNCHANGED <<device, screen, typed, bounds>>

(* ------------------------- saving a serial ----------------------------- *)

(* A fault to refute: autosaves do not wait for one another.               *)
NeverWaits(k) == TRUE
(* autosaveChain: a call waits for the autosaves asked for before it.      *)
InTurn(k) == \A j \in 1 .. k - 1 : calls[j].explicit

(* The cached serial is read; without a network the save is local.         *)
BeginSave(k) ==
    /\ calls[k].step = "wait" /\ InTurn(k)
    /\ calls' = [calls EXCEPT ![k].step = IF connected THEN "send" ELSE "local",
                              ![k].base = cache[calls[k].serial].version]
    /\ UNCHANGED <<device, screen, drawer, form, refreshes, typed, excused, bounds>>

(* The server compares the version of a serial of a report, and of a row   *)
(* of a child report none.                                                 *)
Accepts(c) == host = "child" \/ server[c.serial].version = c.base
Written(c) == [server EXCEPT ![c.serial] = [version |-> @.version + 1, content |-> c.content]]

SendSave(k) ==
    LET c == calls[k] IN
    /\ c.step = "send"
    /\ Accepts(c)
    /\ server' = Written(c)
    /\ calls' = [calls EXCEPT ![k].step = "cache", ![k].answer = server']
    /\ excused' = excused \cup (IF outbox[c.serial] # {} THEN {c.serial} ELSE {})
    /\ UNCHANGED <<cache, outbox, connected, screen, drawer, form, refreshes, typed, bounds>>

(* A request is lost, or its answer.  A report's save goes on offline, a   *)
(* child report's fails.                                                   *)
LoseSave(k) ==
    LET c == calls[k] IN
    /\ c.step = "send"
    /\ Counts /\ lost < MaxLost /\ lost' = lost + 1
    /\ server' \in {server} \cup (IF Accepts(c) THEN {Written(c)} ELSE {})
    /\ connected' = FALSE
    /\ calls' = [calls EXCEPT ![k].step = IF host = "report" THEN "local" ELSE "failed"]
    /\ UNCHANGED <<cache, outbox, screen, drawer, form, refreshes, typed, excused,
                   inputs, openings, turns>>

(* The server refuses: a version of the screen's own making, or a rule.    *)
RefuseSave(k) ==
    LET c == calls[k] IN
    /\ c.step = "send"
    /\ IF Accepts(c) THEN Counts /\ lost < MaxLost /\ lost' = lost + 1 ELSE UNCHANGED lost
    /\ calls' = [calls EXCEPT ![k].step = "failed"]
    /\ UNCHANGED <<device, screen, drawer, form, refreshes, typed, excused,
                   inputs, openings, turns>>

(* The answer is one serial, or the whole child report; the cache tells    *)
(* the screen of a child report about it.                                  *)
CacheSave(k) ==
    LET c == calls[k] IN
    /\ \/ /\ c.step = "cache"
          /\ cache' = IF host = "child" THEN c.answer
                      ELSE [cache EXCEPT ![c.serial] = c.answer[c.serial]]
          /\ UNCHANGED outbox
       \/ /\ c.step = "local"
          /\ cache' = [cache EXCEPT ![c.serial] =
                          [version |-> c.base + 1, content |-> c.content]]
          /\ outbox' = [outbox EXCEPT ![c.serial] = {c.content}]
    /\ IF host = "child" THEN RefreshRoom /\ refreshes' = Started ELSE UNCHANGED refreshes
    /\ calls' = [calls EXCEPT ![k].step = "saved", ![k].base = 0, ![k].answer = NoRows]
    /\ UNCHANGED <<server, connected, screen, drawer, form, typed, excused, bounds>>

(* ------------------------- what the caller does next ------------------- *)

LessWaiting(R) == [k \in DOMAIN R |-> [R[k] EXCEPT !.waits = IF @ > 0 THEN @ - 1 ELSE 0]]

(* An autosave that ends leaves the refresh to the drawer, if one is open. *)
EndAutosave(k) ==
    LET c == calls[k] IN
    /\ ~c.explicit /\ c.step = "saved"
    /\ RefreshRoom
    /\ form' = IF c.here THEN [form EXCEPT !.saved = c.content] ELSE form
    /\ drawer' = IF IsOpen THEN [drawer EXCEPT !.unrefreshed = TRUE] ELSE drawer
    /\ refreshes' = LessWaiting(IF IsOpen THEN refreshes ELSE Started)
    /\ calls' = RemoveAt(calls, k)
    /\ UNCHANGED <<device, screen, typed, excused, bounds>>

(* An autosave that fails marks the form as pending, whatever it now shows;*)
(* an explicit save that fails shows its error.                            *)
FailSave(k) ==
    LET c == calls[k] IN
    /\ c.step = "failed"
    /\ form' = IF c.here /\ ~c.explicit THEN [form EXCEPT !.pending = TRUE] ELSE form
    /\ refreshes' = IF c.explicit THEN refreshes ELSE LessWaiting(refreshes)
    /\ excused' = excused \cup {c.serial}
    /\ calls' = RemoveAt(calls, k)
    /\ UNCHANGED <<device, screen, drawer, typed, bounds>>

(* A report's explicit save refreshes and then closes whichever drawer is  *)
(* open; a child report's closes it and then refreshes.                    *)
RefreshAfterSave(k) ==
    /\ host = "report" /\ calls[k].explicit /\ calls[k].step = "saved"
    /\ calls' = [calls EXCEPT ![k].step = "refreshed",
                    ![k].answer = Listed]
    /\ drawer' = [drawer EXCEPT !.unrefreshed = FALSE]
    /\ UNCHANGED <<device, screen, form, refreshes, typed, excused, bounds>>

CloseAfterSave(k) ==
    LET c == calls[k] IN
    /\ c.explicit /\ Room /\ RefreshRoom
    /\ IF host = "report"
       THEN /\ c.step = "refreshed"
            /\ shown' = Contents(c.answer)
            /\ Shut(RemoveAt(FlushesOnDestroy, k), Due(calls))
       ELSE /\ c.step = "saved"
            /\ UNCHANGED shown
            /\ Shut(RemoveAt(FlushesOnDestroy, k), Started)
    /\ UNCHANGED <<device, host, editable, typed, bounds>>

Disconnect ==
    /\ connected /\ Counts /\ lost < MaxLost /\ lost' = lost + 1
    /\ connected' = FALSE
    /\ UNCHANGED <<server, cache, outbox, screen, drawer, form, calls, refreshes, typed, excused,
                   inputs, openings, turns>>

Reconnect ==
    /\ ~connected
    /\ connected' = TRUE
    /\ UNCHANGED <<server, cache, outbox, screen, drawer, form, calls, refreshes, typed, excused,
                   bounds>>

CallStep(k) ==
    \/ BeginSave(k) \/ SendSave(k) \/ LoseSave(k) \/ RefuseSave(k) \/ CacheSave(k)
    \/ EndAutosave(k) \/ FailSave(k) \/ RefreshAfterSave(k) \/ CloseAfterSave(k)

RefreshStep(k) == StartDue(k) \/ PullChild(k) \/ PutChild(k) \/ ReadRows(k) \/ ApplyRows(k)

SerialDrawerNext ==
    \/ \E f \in Field, v \in Filling : Type(f, v)
    \/ SaveDraft \/ Submit \/ TurnReadOnly \/ DefinitionArrives
    \/ \E s \in Serial : OpenDrawer(s) \/ GoTo(s)
    \/ CloseDrawer
    \/ Renew
    \/ \E k \in DOMAIN calls : CallStep(k)
    \/ \E k \in DOMAIN refreshes : RefreshStep(k)
    \/ Disconnect \/ Reconnect

SerialDrawerSpec == SerialDrawerInit /\ [][SerialDrawerNext]_drawerVars

(* ----------------------------- properties ------------------------------ *)

Holds(c, s, f) == c.serial = s /\ c.content[f] = typed[s][f]
OnItsWay(s, f) == \E k \in DOMAIN calls : Holds(calls[k], s, f)
InForm(s, f) == drawer.serial = s /\ form.pending /\ form.content[f] = typed[s][f]
Stored(s, f) ==
    typed[s][f] \in {server[s].content[f]} \cup {c[f] : c \in outbox[s]}

Kept(s, f) == typed[s][f] = "nothing" \/ InForm(s, f) \/ OnItsWay(s, f) \/ Stored(s, f)

(* What was last typed in a field is in the open form as pending, in a     *)
(* call under way, queued, or on the server - unless the draft was typed,  *)
(* or the form seeded, while a call was under way or the list out of date, *)
(* the form was turned read-only under it, its save failed, or an older    *)
(* draft of the serial was still queued.                                   *)
DraftKept == \A s \in Serial \ excused, f \in Field : Kept(s, f)

(* The same without excuses, as the form's own comments promise it.        *)
DraftAlwaysKept == \A s \in Serial, f \in Field : Kept(s, f)

(* A draft never reaches a serial it was not typed for, however the drawer *)
(* moves on while timers and calls are pending.                            *)
DraftForItsSerial ==
    \A s \in Serial, f \in Field : typed[s][f] = "nothing" =>
        /\ server[s].content[f] = "blank" /\ cache[s].content[f] = "blank"
        /\ \A c \in outbox[s] : c[f] = "blank"

(* Saves of one serial that are under way together carry different         *)
(* versions, unless one of them is explicit: autosaves never make each     *)
(* other fail.                                                             *)
UnderWay(c) == c.step \in {"send", "cache", "local"}
AutosavesReadNewVersions ==
    \A j, k \in DOMAIN calls :
        /\ j # k /\ calls[j].serial = calls[k].serial
        /\ UnderWay(calls[j]) /\ UnderWay(calls[k])
        /\ calls[j].base = calls[k].base
        => calls[j].explicit \/ calls[k].explicit
=============================================================================
