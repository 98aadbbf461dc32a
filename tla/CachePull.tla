------------------------------ MODULE CachePull ------------------------------
(***************************************************************************)
(* The portal's cache as a mirror of the server: one report with its       *)
(* serials and child reports, the pulls that refresh their rows, and the   *)
(* edits saved meanwhile.  Everything runs in one event loop, and a step   *)
(* is what runs between two awaits.  What a pull writes is decided by the  *)
(* answer and by the rows it has read in earlier steps.                    *)
(***************************************************************************)
EXTENDS Integers, FiniteSets

CONSTANTS
    Serials, Children,  \* the parts of the report, on the server or in the cache
    Pull,               \* calls of hydrateAll that may overlap
    NoPull,
    PullsChildren,      \* a customer's pull includes the child reports
    MaxRowVersion,      \* bound: versions of a row on the server,
    MaxOverlapVersion,  \* and where calls of hydrateAll may overlap
    MaxEdits,           \* bound: edits begun
    MaxLosses           \* bound: requests lost, disconnections

ASSUME CachePullAssumption ==
    /\ Serials \cap Children = {}
    /\ NoPull \notin Pull
    /\ PullsChildren \in BOOLEAN
    /\ {MaxRowVersion, MaxOverlapVersion, MaxEdits, MaxLosses} \subseteq Nat

Header == "report"
Parts == Serials \cup Children
Rows == {Header} \cup Parts

VARIABLES
    callers,   \* who calls hydrateAll: one caller, or several
    remote,    \* the version of each row on the server: 0 not yet, -1 no more
    row,       \* the cached rows: version (0 if there is none) and syncState
    queued,    \* the version an edit waiting in the outbox was made on, or 0
    connected, \* ConnectivityService.isOnline
    editing,   \* the edit being saved
    pull,      \* where each call of hydrateAll is, and what it has read
    active,    \* activeHydration
    edits, losses

cacheVars == <<callers, remote, row, queued, connected, editing, pull, active, edits, losses>>

NoCopy == [version |-> 0, state |-> "SYNCED"]
NoEdit == [row |-> Header, base |-> 0, answer |-> 0, step |-> "none"]
NotPulling == [step |-> "idle", awaits |-> NoPull, found |-> [e \in Rows |-> 0],
               seen |-> [e \in Rows |-> NoCopy]]

OnServer(e) == remote[e] > 0
Cached(e) == row[e].version > 0
Synced(copy) == copy.version > 0 /\ copy.state = "SYNCED"
Lose == losses < MaxLosses /\ losses' = losses + 1

VersionBound == IF Cardinality(callers) = 1 THEN MaxRowVersion ELSE MaxOverlapVersion

CachePullInit ==
    /\ callers \in {C \in SUBSET Pull : C # {}}
    /\ remote \in [Rows -> {0, 1}] /\ \A e \in Parts : remote[e] <= remote[Header]
    /\ row \in [Rows -> {NoCopy, [version |-> 1, state |-> "SYNCED"]}]
    /\ \A e \in Rows : Cached(e) => OnServer(e) /\ Cached(Header)
    /\ queued = [e \in Rows |-> 0]
    /\ connected = TRUE
    /\ editing = NoEdit
    /\ pull = [p \in Pull |-> NotPulling]
    /\ active = NoPull
    /\ edits = 0 /\ losses = 0

(* --------------------- what others do on the server -------------------- *)

ChangeRemotely(e) ==
    /\ remote[e] \in 0 .. VersionBound - 1
    /\ e \in Parts => OnServer(Header)
    /\ remote' = [remote EXCEPT ![e] = @ + 1]
    /\ UNCHANGED <<callers, row, queued, connected, editing, pull, active, edits, losses>>

DeleteRemotely(e) ==
    /\ OnServer(e)
    /\ remote' = [f \in Rows |-> IF f = e \/ e = Header THEN -1 ELSE remote[f]]
    /\ UNCHANGED <<callers, row, queued, connected, editing, pull, active, edits, losses>>

(* -------------------------- edits on the device ------------------------ *)

BeginEdit(e) ==
    /\ editing = NoEdit
    /\ Cached(e)
    /\ edits < MaxEdits
    /\ edits' = edits + 1
    /\ editing' = [NoEdit EXCEPT !.row = e, !.base = row[e].version, !.step = "save"]
    /\ UNCHANGED <<callers, remote, row, queued, connected, pull, active, losses>>

(* Online the server decides, by version, and the answer is cached later.  *)
SendEdit ==
    LET e == editing.row IN
    /\ editing.step = "save"
    /\ connected
    /\ IF remote[e] = editing.base /\ remote[e] < VersionBound
       THEN /\ remote' = [remote EXCEPT ![e] = @ + 1]
            /\ editing' = [editing EXCEPT !.answer = remote[e] + 1, !.step = "cache"]
       ELSE UNCHANGED remote /\ editing' = NoEdit
    /\ UNCHANGED <<callers, row, queued, connected, pull, active, edits, losses>>

CacheAnswer ==
    /\ editing.step = "cache"
    /\ row' = [row EXCEPT ![editing.row] = [version |-> editing.answer, state |-> "SYNCED"]]
    /\ editing' = NoEdit
    /\ UNCHANGED <<callers, remote, queued, connected, pull, active, edits, losses>>

(* Offline the row is cached as PENDING, from what was read, and queued.   *)
SaveEditLocally ==
    /\ editing.step = "save"
    /\ ~connected
    /\ row' = [row EXCEPT ![editing.row] = [version |-> editing.base, state |-> "PENDING"]]
    /\ editing' = [editing EXCEPT !.step = "queue"]
    /\ UNCHANGED <<callers, remote, queued, connected, pull, active, edits, losses>>

QueueEdit ==
    /\ editing.step = "queue"
    /\ queued' = [queued EXCEPT ![editing.row] = editing.base]
    /\ editing' = NoEdit
    /\ UNCHANGED <<callers, remote, row, connected, pull, active, edits, losses>>

(* The dispatcher sends a queued edit and records the outcome on the row.  *)
DispatchEdit(e) ==
    /\ connected
    /\ queued[e] # 0
    /\ queued' = [queued EXCEPT ![e] = 0]
    /\ IF remote[e] = queued[e] /\ remote[e] < VersionBound
       THEN /\ remote' = [remote EXCEPT ![e] = @ + 1]
            /\ row' = [row EXCEPT ![e] = [version |-> remote[e] + 1, state |-> "SYNCED"]]
       ELSE /\ UNCHANGED remote
            /\ row' = [row EXCEPT ![e].state = IF Cached(e) THEN "CONFLICT" ELSE @]
    /\ UNCHANGED <<callers, connected, editing, pull, active, edits, losses>>

(* ------------------------------ hydrateAll ----------------------------- *)

At(p, step) == pull[p].step = step
Goto(p, step) == pull' = [pull EXCEPT ![p].step = step]

(* The interval, the window's focus, its visibility, or a sign-in.         *)
HydrateAll(p) ==
    /\ connected
    /\ p \in callers
    /\ At(p, "idle")
    /\ IF active # NoPull
       THEN /\ pull' = [pull EXCEPT ![p].step = "waiting", ![p].awaits = active]
            /\ UNCHANGED active
       ELSE Goto(p, "list") /\ active' = p
    /\ UNCHANGED <<callers, remote, row, queued, connected, editing, edits, losses>>

(* Who waited runs next, without looking whether another one runs by now.  *)
RunAfterWait(p) ==
    /\ At(p, "woken")
    /\ Goto(p, "list")
    /\ active' = p
    /\ UNCHANGED <<callers, remote, row, queued, connected, editing, edits, losses>>

Ended(p) ==
    /\ pull' = [q \in Pull |->
                  IF q = p THEN NotPulling
                  ELSE IF pull[q].awaits = p THEN [NotPulling EXCEPT !.step = "woken"]
                  ELSE pull[q]]
    /\ active' = NoPull

(* ---------------------------- pullAllAndCache -------------------------- *)

(* Offline, or when the list cannot be had, nothing is pulled.             *)
GetReports(p) ==
    /\ At(p, "list")
    /\ \/ /\ connected
          /\ pull' = [pull EXCEPT ![p].step = "seeReports", ![p].found[Header] = remote[Header]]
          /\ UNCHANGED <<active, losses>>
       \/ Ended(p) /\ (IF connected THEN Lose ELSE UNCHANGED losses)
    /\ UNCHANGED <<callers, remote, row, queued, connected, editing, edits>>

SeeReports(p) ==
    /\ At(p, "seeReports")
    /\ pull' = [pull EXCEPT ![p].step = "putReport", ![p].seen[Header] = row[Header]]
    /\ UNCHANGED <<callers, remote, row, queued, connected, editing, active, edits, losses>>

(* A fault to refute: whatever the server returned replaces the row.       *)
AlwaysReplaceable(p, e) == TRUE

Replaceable(p, e) == pull[p].seen[e].version = 0 \/ Synced(pull[p].seen[e])

Replaced(p, E) ==
    [e \in Rows |->
        IF e \in E /\ pull[p].found[e] > 0 /\ Replaceable(p, e)
        THEN [version |-> pull[p].found[e], state |-> "SYNCED"] ELSE row[e]]

PutReport(p) ==
    /\ At(p, "putReport")
    /\ row' = Replaced(p, {Header})
    /\ Goto(p, IF pull[p].found[Header] > 0 THEN "getSerials" ELSE "prune")
    /\ UNCHANGED <<callers, remote, queued, connected, editing, active, edits, losses>>

(* A fault to refute: only rows the server still has are looked at.        *)
StaleAmongFound(p, e) == Synced(pull[p].seen[e]) /\ pull[p].found[e] > 0

(* staleSyncedIds: synced, seen in the cache, absent from the answer.      *)
Stale(p, e) == Synced(pull[p].seen[e]) /\ pull[p].found[e] <= 0

PruneReport(p) ==
    /\ At(p, "prune")
    /\ IF Stale(p, Header) /\ \A e \in Parts : Cached(e) => Synced(row[e])
       THEN /\ pull' = [pull EXCEPT ![p].step = "delete",
                          ![p].seen = [row EXCEPT ![Header] = pull[p].seen[Header]]]
            /\ UNCHANGED active
       ELSE Ended(p)
    /\ UNCHANGED <<callers, remote, row, queued, connected, editing, edits, losses>>

DeletePruned(p) ==
    /\ At(p, "delete")
    /\ row' = [e \in Rows |-> IF e = Header \/ pull[p].seen[e].version > 0
                              THEN NoCopy ELSE row[e]]
    /\ Ended(p)
    /\ UNCHANGED <<callers, remote, queued, connected, editing, edits, losses>>

AfterParts(p, K) ==
    IF K = Serials THEN Goto(p, "seeDetail") /\ UNCHANGED active ELSE Ended(p)

(* A failure of these requests is swallowed; the pull goes on.             *)
GetParts(p, K) ==
    /\ At(p, IF K = Serials THEN "getSerials" ELSE "getChildren")
    /\ \/ /\ connected
          /\ OnServer(Header)
          /\ pull' = [pull EXCEPT ![p].step = IF K = Serials THEN "seeSerials" ELSE "seeChildren",
                        ![p].found = [e \in Rows |-> IF e \in K THEN remote[e] ELSE @[e]]]
          /\ UNCHANGED <<active, losses>>
       \/ /\ AfterParts(p, K)
          /\ IF connected /\ OnServer(Header) THEN Lose ELSE UNCHANGED losses
    /\ UNCHANGED <<callers, remote, row, queued, connected, editing, edits>>

SeeParts(p, K) ==
    /\ At(p, IF K = Serials THEN "seeSerials" ELSE "seeChildren")
    /\ pull' = [pull EXCEPT ![p].step = IF K = Serials THEN "putSerials" ELSE "putChildren",
                  ![p].seen = [e \in Rows |-> IF e \in K THEN row[e] ELSE @[e]]]
    /\ UNCHANGED <<callers, remote, row, queued, connected, editing, active, edits, losses>>

PutParts(p, K) ==
    /\ At(p, IF K = Serials THEN "putSerials" ELSE "putChildren")
    /\ row' = [e \in Rows |-> IF e \in K /\ Stale(p, e) THEN NoCopy ELSE Replaced(p, K)[e]]
    /\ AfterParts(p, K)
    /\ UNCHANGED <<callers, remote, queued, connected, editing, edits, losses>>

AfterDetail(p) ==
    IF PullsChildren THEN Goto(p, "getChildren") /\ UNCHANGED active ELSE Ended(p)

(* The detail is asked for a row that is synced, and grafted onto the row  *)
(* as it was before the request.                                           *)
SeeDetail(p) ==
    /\ At(p, "seeDetail")
    /\ IF Synced(row[Header])
       THEN /\ pull' = [pull EXCEPT ![p].step = "putDetail", ![p].seen[Header] = row[Header]]
            /\ UNCHANGED active
       ELSE AfterDetail(p)
    /\ UNCHANGED <<callers, remote, row, queued, connected, editing, edits, losses>>

PutDetail(p) ==
    /\ At(p, "putDetail")
    /\ \/ /\ connected /\ OnServer(Header)
          /\ row' = [row EXCEPT ![Header] = pull[p].seen[Header]]
          /\ UNCHANGED losses
       \/ /\ UNCHANGED row
          /\ IF connected /\ OnServer(Header) THEN Lose ELSE UNCHANGED losses
    /\ AfterDetail(p)
    /\ UNCHANGED <<callers, remote, queued, connected, editing, edits>>

GoOffline ==
    /\ connected
    /\ Lose
    /\ connected' = FALSE
    /\ UNCHANGED <<callers, remote, row, queued, editing, pull, active, edits>>

GoOnline ==
    /\ ~connected
    /\ connected' = TRUE
    /\ UNCHANGED <<callers, remote, row, queued, editing, pull, active, edits, losses>>

PullStep(p) ==
    \/ RunAfterWait(p) \/ GetReports(p) \/ SeeReports(p) \/ PutReport(p)
    \/ PruneReport(p) \/ DeletePruned(p) \/ SeeDetail(p) \/ PutDetail(p)
    \/ \E K \in {Serials, Children} : GetParts(p, K) \/ SeeParts(p, K) \/ PutParts(p, K)

EditStep ==
    SendEdit \/ CacheAnswer \/ SaveEditLocally \/ QueueEdit

CachePullNext ==
    \/ \E e \in Rows :
          ChangeRemotely(e) \/ DeleteRemotely(e) \/ BeginEdit(e) \/ DispatchEdit(e)
    \/ EditStep
    \/ \E p \in Pull : HydrateAll(p) \/ PullStep(p)
    \/ GoOffline \/ GoOnline

(* Code that was started runs on, requests end, the timer keeps ticking,   *)
(* and a device that is offline comes back.                                *)
CachePullFairness ==
    /\ \A p \in Pull : WF_cacheVars(PullStep(p)) /\ WF_cacheVars(HydrateAll(p))
    /\ WF_cacheVars(EditStep)
    /\ \A e \in Rows : WF_cacheVars(DispatchEdit(e))
    /\ WF_cacheVars(GoOnline)

CachePullSpec == CachePullInit /\ [][CachePullNext]_cacheVars /\ CachePullFairness

(* ----------------------------- properties ------------------------------ *)

(* A pull overwrites or deletes unsynced work only if it was saved after   *)
(* the pull had read that row as clean, also when pulls overlap.           *)
PullKeepsSeenWork ==
    [][\A p \in Pull, e \in Rows :
          /\ PullStep(p)
          /\ Cached(e) /\ ~Synced(row[e])
          /\ row'[e] # row[e]
          => pull[p].seen[e].version = 0 \/ Synced(pull[p].seen[e])]_cacheVars

(* Once the server changes no more, and pulls overlap no more, every row   *)
(* that carries no unsynced work shows the server's version for good: new  *)
(* ones arrive, changed ones are replaced, and deleted ones go.  A report  *)
(* the server no longer has stays as long as one of its parts carries      *)
(* unsynced work.                                                          *)
Unsynced(e) == Cached(e) /\ ~Synced(row[e])
Mirrors(e) == Unsynced(e) \/ row[e].version = IF OnServer(e) THEN remote[e] ELSE 0
Pulled == Serials \cup (IF PullsChildren THEN Children ELSE {})
OnePullRuns == \A p, q \in Pull : At(p, "idle") \/ pull[q].step \in {"idle", "waiting"} \/ p = q
CacheMirrors ==
    IF OnServer(Header) THEN \A e \in {Header} \cup Pulled : Mirrors(e)
    ELSE Mirrors(Header) \/ \E e \in Parts : Unsynced(e)

CacheConverges == <>[]OnePullRuns => <>[]CacheMirrors
=============================================================================
