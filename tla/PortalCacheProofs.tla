-------------------------- MODULE PortalCacheProofs --------------------------
(***************************************************************************)
(* Proofs about the portal's cache.  Of CachePull, for every set of rows   *)
(* and every number of pulls that overlap: the types, and that a pull      *)
(* keeps the unsynced work it has seen.  Of PortalSession, for every set   *)
(* of tabs, calls and tenants: what getDb resolves to is the database of   *)
(* the tenant whose profile the tab shows, whatever opens are still under  *)
(* way; and no tab ends its session with a refresh token whose successor   *)
(* it has stored.                                                          *)
(***************************************************************************)
EXTENDS CachePull, PortalSession, TLAPS, FiniteSetTheorems

Copy == [version : Nat, state : {"SYNCED", "PENDING", "CONFLICT"}]
PullStage ==
    {"idle", "waiting", "woken", "list", "seeReports", "putReport", "prune", "delete",
     "getSerials", "seeSerials", "putSerials", "seeDetail", "putDetail",
     "getChildren", "seeChildren", "putChildren"}
PullState ==
    [step : PullStage, awaits : Pull \cup {NoPull},
     found : [Rows -> Int], seen : [Rows -> Copy]]
Editing ==
    [row : Rows, base : Nat, answer : Nat, step : {"none", "save", "cache", "queue"}]

CacheTypeOK ==
    /\ remote \in [Rows -> Int]
    /\ row \in [Rows -> Copy]
    /\ queued \in [Rows -> Nat]
    /\ editing \in Editing
    /\ pull \in [Pull -> PullState]
    /\ active \in Pull \cup {NoPull}

(* What a pull is about to delete, or to put back as it was, was clean     *)
(* when the pull read it.                                                  *)
SeenClean ==
    \A p \in Pull :
        /\ At(p, "delete") => \A e \in Rows :
              pull[p].seen[e].version = 0 \/ Synced(pull[p].seen[e])
        /\ At(p, "putDetail") => Synced(pull[p].seen[Header])

CacheInvariant == CacheTypeOK /\ SeenClean

----------------------------------------------------------------------------
LEMMA HeaderIsRow == Header \in Rows /\ Parts \subseteq Rows
BY DEF Rows

LEMMA NotPullingType == NotPulling \in PullState
BY DEF NotPulling, NoCopy, PullState, PullStage, Copy

(* A pull that goes to another step keeps the types; it is at that step.   *)
LEMMA GotoType ==
    ASSUME pull \in [Pull -> PullState], NEW p \in Pull, NEW s \in PullStage,
           Goto(p, s)
    PROVE  /\ pull' \in [Pull -> PullState]
           /\ \A q \in Pull : q # p => pull'[q] = pull[q]
           /\ pull'[p].step = s /\ pull'[p].seen = pull[p].seen
BY DEF Goto, PullState

(* A pull that reads something and goes on keeps the types as well.        *)
LEMMA WithFound ==
    ASSUME NEW r \in PullState, NEW s \in PullStage, NEW F \in [Rows -> Int]
    PROVE  /\ [r EXCEPT !.step = s, !.found = F] \in PullState
           /\ [r EXCEPT !.step = s, !.found = F].step = s
BY DEF PullState

LEMMA Waiting ==
    ASSUME NEW r \in PullState, NEW q \in Pull
    PROVE  /\ [r EXCEPT !.step = "waiting", !.awaits = q] \in PullState
           /\ [r EXCEPT !.step = "waiting", !.awaits = q].step = "waiting"
BY DEF PullState, PullStage

LEMMA FoundAndSeen ==
    ASSUME NEW r \in PullState
    PROVE  r.found \in [Rows -> Int] /\ r.seen \in [Rows -> Copy]
BY DEF PullState

LEMMA PullMoves ==
    ASSUME pull \in [Pull -> PullState], NEW p \in Pull, NEW P \in PullState,
           pull' = [pull EXCEPT ![p] = P]
    PROVE  /\ pull' \in [Pull -> PullState] /\ pull'[p] = P
           /\ \A q \in Pull : q # p => pull'[q] = pull[q]
OBVIOUS

LEMMA EndedType ==
    ASSUME pull \in [Pull -> PullState], NEW p \in Pull, Ended(p)
    PROVE  /\ pull' \in [Pull -> PullState]
           /\ active' \in Pull \cup {NoPull}
           /\ \A q \in Pull : pull'[q] = pull[q] \/ pull'[q].step \in {"idle", "woken"}
<1>1. NotPulling \in PullState /\ NotPulling.step = "idle"
  BY NotPullingType DEF NotPulling
<1>2. /\ [NotPulling EXCEPT !.step = "woken"] \in PullState
      /\ [NotPulling EXCEPT !.step = "woken"].step = "woken"
  BY <1>1 DEF PullState, PullStage
<1> QED BY <1>1, <1>2 DEF Ended

(* The clean rows stay so while every pull that is about to write or       *)
(* delete is where it was.                                                 *)
LEMMA SeenCleanKept ==
    ASSUME SeenClean,
           \A q \in Pull : \/ pull'[q] = pull[q]
                           \/ pull'[q].step \notin {"delete", "putDetail"}
    PROVE  SeenClean'
BY DEF SeenClean, At

LEMMA ReplacedType ==
    ASSUME CacheTypeOK, NEW p \in Pull, NEW E \in SUBSET Rows
    PROVE  Replaced(p, E) \in [Rows -> Copy]
<1> SUFFICES ASSUME NEW e \in Rows, pull[p].found[e] > 0
             PROVE  [version |-> pull[p].found[e], state |-> "SYNCED"] \in Copy
  BY DEF Replaced, CacheTypeOK
<1> QED BY DEF CacheTypeOK, PullState, Copy

----------------------------------------------------------------------------
LEMMA InitEstablishes == CachePullInit => CacheInvariant
<1> SUFFICES ASSUME CachePullInit PROVE CacheInvariant
  OBVIOUS
<1>1. NoCopy \in Copy /\ [version |-> 1, state |-> "SYNCED"] \in Copy
  BY DEF NoCopy, Copy
<1>2. CacheTypeOK
  BY <1>1, NotPullingType, HeaderIsRow DEF CachePullInit, CacheTypeOK, NoEdit, Editing
<1>3. SeenClean
  BY DEF CachePullInit, SeenClean, At, NotPulling
<1> QED BY <1>2, <1>3 DEF CacheInvariant

LEMMA OthersKeep ==
    ASSUME CacheInvariant,
           \/ \E e \in Rows : ChangeRemotely(e) \/ DeleteRemotely(e)
           \/ GoOffline \/ GoOnline
    PROVE  CacheInvariant'
<1>1. remote' \in [Rows -> Int]
  BY DEF CacheInvariant, CacheTypeOK, ChangeRemotely, DeleteRemotely, GoOffline, GoOnline
<1>2. UNCHANGED <<row, queued, editing, pull, active>>
  BY DEF ChangeRemotely, DeleteRemotely, GoOffline, GoOnline
<1> QED BY <1>1, <1>2 DEF CacheInvariant, CacheTypeOK, SeenClean, At

LEMMA BeginEditKeeps ==
    ASSUME CacheInvariant, NEW e \in Rows, BeginEdit(e)
    PROVE  CacheInvariant'
<1>1. editing' \in Editing
  BY DEF CacheInvariant, CacheTypeOK, BeginEdit, NoEdit, Editing, Copy, Rows
<1>2. UNCHANGED <<remote, row, queued, pull, active>>
  BY DEF BeginEdit
<1> QED BY <1>1, <1>2 DEF CacheInvariant, CacheTypeOK, SeenClean, At

LEMMA DispatchKeeps ==
    ASSUME CacheInvariant, NEW e \in Rows, DispatchEdit(e)
    PROVE  CacheInvariant'
<1> USE DEF CacheInvariant, CacheTypeOK
<1>1. queued' \in [Rows -> Nat]
  BY DEF DispatchEdit
<1>2. remote' \in [Rows -> Int] /\ row' \in [Rows -> Copy]
  <2>1. CASE remote[e] = queued[e] /\ remote[e] < VersionBound
    <3>1. [version |-> remote[e] + 1, state |-> "SYNCED"] \in Copy
      BY <2>1 DEF Copy
    <3> QED BY <2>1, <3>1 DEF DispatchEdit
  <2>2. CASE ~(remote[e] = queued[e] /\ remote[e] < VersionBound)
    <3>1. /\ row' = [row EXCEPT ![e].state = IF Cached(e) THEN "CONFLICT" ELSE @]
          /\ remote' = remote
      BY <2>2 DEF DispatchEdit
    <3> QED BY <3>1 DEF Copy
  <2> QED BY <2>1, <2>2
<1>3. UNCHANGED <<editing, pull, active>>
  BY DEF DispatchEdit
<1> QED BY <1>1, <1>2, <1>3 DEF SeenClean, At

LEMMA EditKeeps ==
    ASSUME CacheInvariant, EditStep
    PROVE  CacheInvariant'
<1> USE DEF CacheInvariant, CacheTypeOK
<1>1. UNCHANGED <<pull, active>>
  BY DEF EditStep, SendEdit, CacheAnswer, SaveEditLocally, QueueEdit
<1>2. NoEdit \in Editing
  BY DEF NoEdit, Editing, Rows
<1>3. CASE SendEdit
  <2>1. UNCHANGED <<row, queued>>
    BY <1>3 DEF SendEdit
  <2>2. CASE remote' = remote /\ editing' = NoEdit
    BY <1>1, <1>2, <2>1, <2>2 DEF SeenClean, At
  <2>3. CASE /\ remote[editing.row] = editing.base
             /\ remote' = [remote EXCEPT ![editing.row] = @ + 1]
             /\ editing' = [editing EXCEPT !.answer = remote[editing.row] + 1, !.step = "cache"]
    <3>1. remote[editing.row] \in Nat
      BY <2>3 DEF Editing
    <3> DEFINE v == remote[editing.row] + 1
    <3>2. v \in Nat /\ editing.row \in Rows
      BY <3>1 DEF Editing
    <3>3. remote' \in [Rows -> Int]
      BY <2>3, <3>2
    <3>4. editing' = [editing EXCEPT !.answer = v, !.step = "cache"]
      BY <2>3
    <3> HIDE DEF v
    <3>5. editing' \in Editing
      BY <3>2, <3>4 DEF Editing
    <3> QED BY <1>1, <2>1, <3>3, <3>5 DEF SeenClean, At
  <2> QED BY <1>3, <2>2, <2>3 DEF SendEdit
<1>4. CASE CacheAnswer
  BY <1>1, <1>2, <1>4 DEF CacheAnswer, Editing, Copy, SeenClean, At
<1>5. CASE SaveEditLocally
  BY <1>1, <1>5 DEF SaveEditLocally, Editing, Copy, SeenClean, At
<1>6. CASE QueueEdit
  BY <1>1, <1>2, <1>6 DEF QueueEdit, Editing, SeenClean, At
<1> QED BY <1>3, <1>4, <1>5, <1>6 DEF EditStep

----------------------------------------------------------------------------
(* The steps of a pull.                                                    *)

LEMMA HydrateKeeps ==
    ASSUME CacheInvariant, NEW p \in Pull, HydrateAll(p) \/ RunAfterWait(p)
    PROVE  CacheInvariant'
<1> USE DEF CacheInvariant, CacheTypeOK
<1>1. UNCHANGED <<remote, row, queued, editing>>
  BY DEF HydrateAll, RunAfterWait
<1>2. active' \in Pull \cup {NoPull}
  BY DEF HydrateAll, RunAfterWait
<1>3. CASE Goto(p, "list")
  BY <1>1, <1>2, <1>3, GotoType, SeenCleanKept DEF PullStage
<1>4. CASE active # NoPull /\ pull' = [pull EXCEPT ![p].step = "waiting", ![p].awaits = active]
  <2> DEFINE P == [pull[p] EXCEPT !.step = "waiting", !.awaits = active]
  <2>3. pull' = [pull EXCEPT ![p] = P]
    BY <1>4
  <2>4. active \in Pull /\ pull[p] \in PullState
    BY <1>4
  <2>5. P \in PullState /\ P.step = "waiting"
    BY <2>4, Waiting
  <2> HIDE DEF P
  <2>1. pull' \in [Pull -> PullState]
    BY <2>3, <2>5, PullMoves
  <2>2. \A q \in Pull : pull'[q] = pull[q] \/ pull'[q].step = "waiting"
    BY <2>3, <2>5, PullMoves
  <2> QED BY <1>1, <1>2, <2>1, <2>2, SeenCleanKept
<1> QED BY <1>3, <1>4 DEF HydrateAll, RunAfterWait

LEMMA EndedKeeps ==
    ASSUME CacheInvariant, NEW p \in Pull, Ended(p),
           row' \in [Rows -> Copy], UNCHANGED <<remote, queued, editing>>
    PROVE  CacheInvariant'
BY EndedType, SeenCleanKept DEF CacheInvariant, CacheTypeOK

LEMMA GotoKeeps ==
    ASSUME CacheInvariant, NEW p \in Pull, NEW s \in PullStage \ {"delete", "putDetail"},
           Goto(p, s), row' \in [Rows -> Copy], UNCHANGED <<remote, queued, editing, active>>
    PROVE  CacheInvariant'
BY GotoType, SeenCleanKept DEF CacheInvariant, CacheTypeOK

LEMMA ReportsKeep ==
    ASSUME CacheInvariant, NEW p \in Pull,
           GetReports(p) \/ SeeReports(p) \/ PutReport(p)
    PROVE  CacheInvariant'
<1> USE DEF CacheInvariant, CacheTypeOK
<1>1. UNCHANGED <<remote, queued, editing>>
  BY DEF GetReports, SeeReports, PutReport
<1>2. CASE GetReports(p)
  <2>1. UNCHANGED row
    BY <1>2 DEF GetReports
  <2>2. CASE /\ pull' = [pull EXCEPT ![p].step = "seeReports", ![p].found[Header] = remote[Header]]
             /\ UNCHANGED active
    <3> DEFINE F == [pull[p].found EXCEPT ![Header] = remote[Header]]
               P == [pull[p] EXCEPT !.step = "seeReports", !.found = F]
    <3>3. pull' = [pull EXCEPT ![p] = P]
      BY <2>2
    <3>4. F \in [Rows -> Int] /\ "seeReports" \in PullStage /\ pull[p] \in PullState
      BY FoundAndSeen, HeaderIsRow DEF PullStage
    <3> HIDE DEF F
    <3>5. P \in PullState /\ P.step = "seeReports"
      BY <3>4, WithFound
    <3> HIDE DEF P
    <3>1. pull' \in [Pull -> PullState]
      BY <3>3, <3>5, PullMoves
    <3>2. \A q \in Pull : pull'[q] = pull[q] \/ pull'[q].step = "seeReports"
      BY <3>3, <3>5, PullMoves
    <3> QED BY <1>1, <2>1, <2>2, <3>1, <3>2, SeenCleanKept
  <2> QED BY <1>1, <1>2, <2>1, <2>2, EndedKeeps DEF GetReports
<1>3. CASE SeeReports(p)
  <2>1. pull' = [pull EXCEPT ![p].step = "putReport", ![p].seen[Header] = row[Header]]
    BY <1>3 DEF SeeReports
  <2> DEFINE S == [pull[p].seen EXCEPT ![Header] = row[Header]]
             P == [pull[p] EXCEPT !.step = "putReport", !.seen = S]
  <2>5. pull' = [pull EXCEPT ![p] = P]
    BY <2>1
  <2>6. S \in [Rows -> Copy] /\ "putReport" \in PullStage /\ pull[p] \in PullState
    BY FoundAndSeen, HeaderIsRow DEF PullStage
  <2> HIDE DEF S
  <2>8. P = [pull[p] EXCEPT !.step = "putReport", !.seen = S]
    OBVIOUS
  <2> HIDE DEF P
  <2>7. P \in PullState /\ P.step = "putReport"
    <3> DEFINE r == pull[p]
    <3>2. r \in PullState /\ P = [r EXCEPT !.step = "putReport", !.seen = S]
      BY <2>6, <2>8
    <3> HIDE DEF r, CacheInvariant, CacheTypeOK
    <3> QED BY <2>6, <2>8, <3>2 DEF PullState
  <2>2. pull' \in [Pull -> PullState]
    BY <2>5, <2>7, PullMoves
  <2>3. \A q \in Pull : pull'[q] = pull[q] \/ pull'[q].step = "putReport"
    BY <2>5, <2>7, PullMoves
  <2>4. UNCHANGED <<row, active>>
    BY <1>3 DEF SeeReports
  <2> QED BY <1>1, <2>2, <2>3, <2>4, SeenCleanKept
<1>4. CASE PutReport(p)
  <2>1. row' \in [Rows -> Copy]
    BY <1>4, ReplacedType, HeaderIsRow DEF PutReport
  <2>2. PICK s \in {"getSerials", "prune"} : Goto(p, s)
    BY <1>4 DEF PutReport
  <2>3. UNCHANGED active
    BY <1>4 DEF PutReport
  <2> QED BY <1>1, <2>1, <2>2, <2>3, GotoKeeps DEF PullStage
<1> QED BY <1>2, <1>3, <1>4

LEMMA PruneKeeps ==
    ASSUME CacheInvariant, NEW p \in Pull, PruneReport(p)
    PROVE  CacheInvariant'
<1> USE DEF CacheInvariant, CacheTypeOK
<1>1. UNCHANGED <<remote, row, queued, editing>>
  BY DEF PruneReport
<1>2. CASE Ended(p)
  BY <1>1, <1>2, EndedKeeps
<1>3. CASE ~Ended(p)
  <2> DEFINE S == [row EXCEPT ![Header] = pull[p].seen[Header]]
  <2>1. /\ Stale(p, Header) /\ \A e \in Parts : Cached(e) => Synced(row[e])
        /\ pull' = [pull EXCEPT ![p].step = "delete", ![p].seen = S]
        /\ UNCHANGED active
    BY <1>3 DEF PruneReport
  <2>2. pull[p].seen[Header] \in Copy
    BY HeaderIsRow DEF PullState
  <2>3. S \in [Rows -> Copy]
    BY <2>2
  <2> HIDE DEF S
  <2> DEFINE P == [pull[p] EXCEPT !.step = "delete", !.seen = S]
  <2>8. pull' = [pull EXCEPT ![p] = P]
    BY <2>1
  <2>10. P = [pull[p] EXCEPT !.step = "delete", !.seen = S]
    OBVIOUS
  <2> HIDE DEF P
  <2>9. P \in PullState /\ P.step = "delete" /\ P.seen = S
    <3>1. pull[p] \in PullState /\ "delete" \in PullStage
      BY DEF PullStage
    <3> DEFINE r == pull[p]
    <3>2. r \in PullState /\ P = [r EXCEPT !.step = "delete", !.seen = S]
      BY <2>3, <2>10, <3>1
    <3> HIDE DEF r, CacheInvariant, CacheTypeOK
    <3> QED BY <2>3, <2>10, <3>1, <3>2 DEF PullState
  <2>4. pull' \in [Pull -> PullState] /\ pull'[p].seen = S
    BY <2>8, <2>9, PullMoves
  <2>5. \A e \in Rows : S[e].version = 0 \/ Synced(S[e])
    <3> SUFFICES ASSUME NEW e \in Rows PROVE S[e].version = 0 \/ Synced(S[e])
      OBVIOUS
    <3>1. CASE e = Header
      BY <2>1, <3>1 DEF Stale, S
    <3>2. CASE e # Header
      <4>1. e \in Parts /\ S[e] = row[e] /\ row[e].version \in Nat
        BY <3>2 DEF Rows, Copy, S
      <4> QED BY <2>1, <4>1 DEF Cached
    <3> QED BY <3>1, <3>2
  <2>6. pull'[p].step = "delete" /\ \A q \in Pull : q # p => pull'[q] = pull[q]
    BY <2>8, <2>9, PullMoves
  <2>7. SeenClean'
    <3> SUFFICES ASSUME NEW q \in Pull
                 PROVE  /\ pull'[q].step = "delete" => \A e \in Rows :
                              pull'[q].seen[e].version = 0 \/ Synced(pull'[q].seen[e])
                        /\ pull'[q].step = "putDetail" => Synced(pull'[q].seen[Header])
      BY DEF SeenClean, At, Synced
    <3> QED BY <2>4, <2>5, <2>6 DEF SeenClean, At
  <2> QED BY <1>1, <2>1, <2>4, <2>7
<1> QED BY <1>2, <1>3

LEMMA DeleteKeeps ==
    ASSUME CacheInvariant, NEW p \in Pull, DeletePruned(p)
    PROVE  CacheInvariant'
<1>1. row' \in [Rows -> Copy]
  BY DEF CacheInvariant, CacheTypeOK, DeletePruned, NoCopy, Copy
<1> QED BY <1>1, EndedKeeps DEF DeletePruned

LEMMA AfterDetailKeeps ==
    ASSUME CacheInvariant, NEW p \in Pull, AfterDetail(p),
           row' \in [Rows -> Copy], UNCHANGED <<remote, queued, editing>>
    PROVE  CacheInvariant'
BY EndedKeeps, GotoKeeps DEF AfterDetail, PullStage

LEMMA AfterPartsKeeps ==
    ASSUME CacheInvariant, NEW p \in Pull, NEW K, AfterParts(p, K),
           row' \in [Rows -> Copy], UNCHANGED <<remote, queued, editing>>
    PROVE  CacheInvariant'
BY EndedKeeps, GotoKeeps DEF AfterParts, PullStage

LEMMA DetailKeeps ==
    ASSUME CacheInvariant, NEW p \in Pull, SeeDetail(p) \/ PutDetail(p)
    PROVE  CacheInvariant'
<1> USE DEF CacheInvariant, CacheTypeOK
<1>1. UNCHANGED <<remote, queued, editing>>
  BY DEF SeeDetail, PutDetail
<1>2. CASE SeeDetail(p)
  <2>1. UNCHANGED row
    BY <1>2 DEF SeeDetail
  <2>2. CASE AfterDetail(p)
    BY <1>1, <2>1, <2>2, AfterDetailKeeps
  <2>3. CASE ~AfterDetail(p)
    <3>1. /\ Synced(row[Header])
          /\ pull' = [pull EXCEPT ![p].step = "putDetail", ![p].seen[Header] = row[Header]]
          /\ UNCHANGED active
      BY <1>2, <2>3 DEF SeeDetail
    <3> DEFINE S == [pull[p].seen EXCEPT ![Header] = row[Header]]
               P == [pull[p] EXCEPT !.step = "putDetail", !.seen = S]
    <3>5. pull' = [pull EXCEPT ![p] = P]
      BY <3>1
    <3>6. /\ S \in [Rows -> Copy] /\ S[Header] = row[Header]
          /\ "putDetail" \in PullStage /\ pull[p] \in PullState
      BY FoundAndSeen, HeaderIsRow DEF PullStage
    <3> HIDE DEF S
    <3>8. P = [pull[p] EXCEPT !.step = "putDetail", !.seen = S]
      OBVIOUS
    <3> HIDE DEF P
    <3>7. P \in PullState /\ P.step = "putDetail" /\ P.seen = S
      <4> DEFINE r == pull[p]
      <4>2. r \in PullState /\ P = [r EXCEPT !.step = "putDetail", !.seen = S]
        BY <3>6, <3>8
      <4> HIDE DEF r, CacheInvariant, CacheTypeOK
      <4> QED BY <3>6, <3>8, <4>2 DEF PullState
    <3>2. pull' \in [Pull -> PullState]
      BY <3>5, <3>7, PullMoves
    <3>3. /\ pull'[p].step = "putDetail" /\ pull'[p].seen[Header] = row[Header]
          /\ \A q \in Pull : q # p => pull'[q] = pull[q]
      BY <3>5, <3>6, <3>7, PullMoves
    <3>4. SeenClean'
      <4> SUFFICES ASSUME NEW q \in Pull
                   PROVE  /\ pull'[q].step = "delete" => \A e \in Rows :
                                pull'[q].seen[e].version = 0 \/ Synced(pull'[q].seen[e])
                          /\ pull'[q].step = "putDetail" => Synced(pull'[q].seen[Header])
        BY DEF SeenClean, At, Synced
      <4> QED BY <3>1, <3>3 DEF SeenClean, At
    <3> QED BY <1>1, <2>1, <3>1, <3>2, <3>4
  <2> QED BY <2>2, <2>3
<1>3. CASE PutDetail(p)
  <2>1. row' \in [Rows -> Copy]
    BY <1>3, HeaderIsRow DEF PutDetail, PullState
  <2> QED BY <1>1, <1>3, <2>1, AfterDetailKeeps DEF PutDetail
<1> QED BY <1>2, <1>3

LEMMA PartsKeep ==
    ASSUME CacheInvariant, NEW p \in Pull, NEW K \in {Serials, Children},
           GetParts(p, K) \/ SeeParts(p, K) \/ PutParts(p, K)
    PROVE  CacheInvariant'
<1> USE DEF CacheInvariant, CacheTypeOK
<1>1. UNCHANGED <<remote, queued, editing>>
  BY DEF GetParts, SeeParts, PutParts
<1>2. CASE GetParts(p, K)
  <2>1. UNCHANGED row
    BY <1>2 DEF GetParts
  <2>2. CASE AfterParts(p, K)
    BY <1>1, <2>1, <2>2, AfterPartsKeeps
  <2>3. CASE ~AfterParts(p, K)
    <3>1. PICK s \in {"seeSerials", "seeChildren"} :
             pull' = [pull EXCEPT ![p].step = s,
                        ![p].found = [e \in Rows |-> IF e \in K THEN remote[e] ELSE @[e]]]
      BY <1>2, <2>3 DEF GetParts
    <3> DEFINE F == [e \in Rows |-> IF e \in K THEN remote[e] ELSE pull[p].found[e]]
               P == [pull[p] EXCEPT !.step = s, !.found = F]
    <3>5. pull' = [pull EXCEPT ![p] = P]
      BY <3>1
    <3>6. F \in [Rows -> Int] /\ s \in PullStage /\ pull[p] \in PullState
      BY FoundAndSeen DEF PullStage
    <3> HIDE DEF F
    <3>7. P \in PullState /\ P.step = s
      BY <3>6, WithFound
    <3> HIDE DEF P
    <3>2. pull' \in [Pull -> PullState]
      BY <3>5, <3>7, PullMoves
    <3>3. \A q \in Pull : pull'[q] = pull[q] \/ pull'[q].step \in {"seeSerials", "seeChildren"}
      BY <3>5, <3>7, PullMoves
    <3>4. UNCHANGED active
      BY <1>2, <2>3 DEF GetParts
    <3> QED BY <1>1, <2>1, <3>2, <3>3, <3>4, SeenCleanKept
  <2> QED BY <2>2, <2>3
<1>3. CASE SeeParts(p, K)
  <2>1. PICK s \in {"putSerials", "putChildren"} :
           pull' = [pull EXCEPT ![p].step = s,
                      ![p].seen = [e \in Rows |-> IF e \in K THEN row[e] ELSE @[e]]]
    BY <1>3 DEF SeeParts
  <2> DEFINE S == [e \in Rows |-> IF e \in K THEN row[e] ELSE pull[p].seen[e]]
             P == [pull[p] EXCEPT !.step = s, !.seen = S]
  <2>5. pull' = [pull EXCEPT ![p] = P]
    BY <2>1
  <2>6. S \in [Rows -> Copy] /\ s \in PullStage /\ pull[p] \in PullState
    BY FoundAndSeen DEF PullStage
  <2> HIDE DEF S
  <2>8. P = [pull[p] EXCEPT !.step = s, !.seen = S]
    OBVIOUS
  <2> HIDE DEF P
  <2>7. P \in PullState /\ P.step = s
    <3> DEFINE r == pull[p]
    <3>2. r \in PullState /\ P = [r EXCEPT !.step = s, !.seen = S]
      BY <2>6, <2>8
    <3> HIDE DEF r, CacheInvariant, CacheTypeOK
    <3> QED BY <2>6, <2>8, <3>2 DEF PullState
  <2>2. pull' \in [Pull -> PullState]
    BY <2>5, <2>7, PullMoves
  <2>3. \A q \in Pull : pull'[q] = pull[q] \/ pull'[q].step \in {"putSerials", "putChildren"}
    BY <2>5, <2>7, PullMoves
  <2>4. UNCHANGED <<row, active>>
    BY <1>3 DEF SeeParts
  <2> QED BY <1>1, <2>2, <2>3, <2>4, SeenCleanKept
<1>4. CASE PutParts(p, K)
  <2>1. K \subseteq Rows
    BY DEF Rows, Parts
  <2>2. row' \in [Rows -> Copy]
    BY <1>4, <2>1, ReplacedType DEF PutParts, NoCopy, Copy
  <2> QED BY <1>1, <1>4, <2>2, AfterPartsKeeps DEF PutParts
<1> QED BY <1>2, <1>3, <1>4

LEMMA PullStepKeeps ==
    ASSUME CacheInvariant, NEW p \in Pull, PullStep(p)
    PROVE  CacheInvariant'
BY HydrateKeeps, ReportsKeep, PruneKeeps, DeleteKeeps, DetailKeeps, PartsKeep DEF PullStep

LEMMA NextKeeps == CacheInvariant /\ [CachePullNext]_cacheVars => CacheInvariant'
<1>1. ASSUME CacheInvariant, CachePullNext PROVE CacheInvariant'
  BY <1>1, OthersKeep, BeginEditKeeps, DispatchKeeps, EditKeeps, HydrateKeeps, PullStepKeeps
  DEF CachePullNext
<1>2. ASSUME CacheInvariant, UNCHANGED cacheVars PROVE CacheInvariant'
  BY <1>2 DEF CacheInvariant, CacheTypeOK, SeenClean, At, cacheVars
<1> QED BY <1>1, <1>2

(* Every variable of the cache and of its pulls keeps its type.            *)
THEOREM CacheTypeCorrect == CachePullSpec => []CacheTypeOK
<1>1. CacheInvariant => CacheTypeOK
  BY DEF CacheInvariant
<1> QED BY <1>1, InitEstablishes, NextKeeps, PTL DEF CachePullSpec

----------------------------------------------------------------------------
(* One step of a pull changes an unsynced row only if the pull has not     *)
(* seen the row, or has seen it clean.                                     *)
LEMMA StepKeepsSeenWork ==
    ASSUME CacheInvariant, NEW p \in Pull, NEW e \in Rows, PullStep(p),
           Cached(e), ~Synced(row[e]), row'[e] # row[e]
    PROVE  pull[p].seen[e].version = 0 \/ Synced(pull[p].seen[e])
<1> USE DEF CacheInvariant, CacheTypeOK
<1>1. CASE PutReport(p)
  BY <1>1 DEF PutReport, Replaced, Replaceable
<1>2. CASE DeletePruned(p)
  BY <1>2 DEF DeletePruned, SeenClean
<1>3. CASE PutDetail(p)
  BY <1>3 DEF PutDetail, SeenClean
<1>4. ASSUME NEW K \in {Serials, Children}, PutParts(p, K)
      PROVE  pull[p].seen[e].version = 0 \/ Synced(pull[p].seen[e])
  BY <1>4 DEF PutParts, Replaced, Replaceable, Stale
<1>5. CASE \/ RunAfterWait(p) \/ GetReports(p) \/ SeeReports(p) \/ PruneReport(p) \/ SeeDetail(p)
           \/ \E K \in {Serials, Children} : GetParts(p, K) \/ SeeParts(p, K)
  <2>1. UNCHANGED row
    BY <1>5 DEF RunAfterWait, GetReports, SeeReports, PruneReport, SeeDetail, GetParts, SeeParts
  <2> QED BY <2>1
<1> QED BY <1>1, <1>2, <1>3, <1>4, <1>5 DEF PullStep

(* A pull overwrites or deletes unsynced work only if it was saved after   *)
(* the pull had read that row as clean, however many pulls overlap.        *)
THEOREM SeenWorkIsKept == CachePullSpec => PullKeepsSeenWork
<1>1. ASSUME CacheInvariant, [CachePullNext]_cacheVars
      PROVE  [\A p \in Pull, e \in Rows :
                 /\ PullStep(p)
                 /\ Cached(e) /\ ~Synced(row[e])
                 /\ row'[e] # row[e]
                 => pull[p].seen[e].version = 0 \/ Synced(pull[p].seen[e])]_cacheVars
  BY <1>1, StepKeepsSeenWork
<1> QED BY <1>1, InitEstablishes, NextKeeps, PTL DEF CachePullSpec, PullKeepsSeenWork

----------------------------------------------------------------------------
(* The session: types.                                                     *)

AnyTenant == Tenant \cup {NoTenant}
Handle == [instance : AnyTenant, promise : AnyTenant, current : AnyTenant,
           opening : SUBSET AnyTenant]
Refresh == [token : Pairs, stage : {"sent", "judged", "refused", "revoked", "rotated"},
            got : Pairs \cup {0}]

SessionTypeOK ==
    /\ owner \in [Pairs -> AnyTenant]
    /\ expired \subseteq Pairs
    /\ stored \in [pair : Pairs \cup {0}, tenant : AnyTenant]
    /\ refresh \in Seq(Refresh)
    /\ profile \in [Tab -> AnyTenant]
    /\ handle \in [Tab -> Handle]
    /\ changed \in [Tab -> Pairs \cup {0}]

(* The promise is that of the tenant asked for last.  A tab that shows a   *)
(* profile without having asked has no instance, and none will come.       *)
ProfileIsOpened ==
    \A t \in Tab :
        /\ handle[t].promise = handle[t].current
        /\ profile[t] # NoTenant =>
              \/ handle[t].promise = profile[t]
              \/ /\ handle[t].promise = NoTenant /\ handle[t].instance = NoTenant
                 /\ handle[t].opening = {}

SessionInvariant == SessionTypeOK /\ ProfileIsOpened

----------------------------------------------------------------------------
LEMMA ClosedHandleType == ClosedHandle \in Handle
BY DEF ClosedHandle, Handle, AnyTenant

LEMMA OpenedHandle ==
    ASSUME NEW h \in Handle, h.promise = h.current, NEW x \in AnyTenant
    PROVE  /\ OpenForTenant(h, x) \in Handle
           /\ OpenForTenant(h, x).promise = x
           /\ OpenForTenant(h, x).current = x
<1>1. CASE h.current = x /\ h.instance # NoTenant
  BY <1>1 DEF OpenForTenant
<1>2. CASE ~(h.current = x /\ h.instance # NoTenant)
  <2> DEFINE G == [instance |-> NoTenant, promise |-> x, current |-> x,
                   opening |-> h.opening \cup {x}]
  <2>1. h.opening \cup {x} \in SUBSET AnyTenant /\ NoTenant \in AnyTenant
    BY DEF Handle, AnyTenant
  <2>2. G \in Handle /\ G.promise = x /\ G.current = x
    BY <2>1 DEF Handle
  <2>3. OpenForTenant(h, x) = G
    BY <1>2 DEF OpenForTenant
  <2> QED BY <2>2, <2>3
<1> QED BY <1>1, <1>2

LEMMA ClosedAgain ==
    ASSUME NEW h \in Handle
    PROVE  /\ Close(h) \in Handle
           /\ Close(h).promise = Close(h).current
<1>1. Close(h) = [ClosedHandle EXCEPT !.opening = h.opening] /\ h.opening \in SUBSET AnyTenant
  BY DEF Close, Handle
<1>2. ClosedHandle \in Handle /\ ClosedHandle.promise = ClosedHandle.current
  BY ClosedHandleType DEF ClosedHandle
<1> QED BY <1>1, <1>2 DEF Handle

LEMMA TabsStart == PortalSessionInit => SessionInvariant
<1> SUFFICES ASSUME PortalSessionInit PROVE SessionInvariant
  OBVIOUS
<1>1. SessionTypeOK
  BY ClosedHandleType DEF PortalSessionInit, SessionTypeOK, SignedOut, AnyTenant
<1>2. ProfileIsOpened
  BY DEF PortalSessionInit, ProfileIsOpened, ClosedHandle
<1> QED BY <1>1, <1>2 DEF SessionInvariant

(* A tab that is given a session shows the profile whose database it opens. *)
LEMMA SetSessionKeeps ==
    ASSUME SessionInvariant, NEW t \in Tab, NEW n \in Pairs, NEW x \in AnyTenant,
           SetSession(t, n, x)
    PROVE  /\ ProfileIsOpened'
           /\ stored' \in [pair : Pairs \cup {0}, tenant : AnyTenant]
           /\ profile' \in [Tab -> AnyTenant] /\ handle' \in [Tab -> Handle]
<1> DEFINE H == OpenForTenant(handle[t], x)
<1>1. H \in Handle /\ H.promise = x /\ H.current = x
  BY OpenedHandle DEF SessionInvariant, SessionTypeOK, ProfileIsOpened
<1>2. handle' = [handle EXCEPT ![t] = H] /\ profile' = [profile EXCEPT ![t] = x]
  BY DEF SetSession
<1> HIDE DEF H
<1>3. handle' \in [Tab -> Handle] /\ profile' \in [Tab -> AnyTenant]
  BY <1>1, <1>2 DEF SessionInvariant, SessionTypeOK
<1>4. ProfileIsOpened'
  BY <1>1, <1>2 DEF SessionInvariant, SessionTypeOK, ProfileIsOpened
<1>5. stored' \in [pair : Pairs \cup {0}, tenant : AnyTenant]
  BY DEF SetSession
<1> QED BY <1>3, <1>4, <1>5

LEMMA EndSessionKeeps ==
    ASSUME SessionInvariant, NEW t \in Tab, EndSession(t),
           UNCHANGED <<owner, expired, refresh, changed>>
    PROVE  SessionInvariant'
<1> DEFINE H == Close(handle[t])
<1>1. H \in Handle /\ H.promise = H.current
  BY ClosedAgain DEF SessionInvariant, SessionTypeOK
<1>2. handle' = [handle EXCEPT ![t] = H] /\ profile' = [profile EXCEPT ![t] = NoTenant]
  BY DEF EndSession
<1>3. stored' \in [pair : Pairs \cup {0}, tenant : AnyTenant]
  BY DEF EndSession, SignedOut, AnyTenant
<1> HIDE DEF H
<1> QED BY <1>1, <1>2, <1>3 DEF SessionInvariant, SessionTypeOK, ProfileIsOpened, AnyTenant

LEMMA IssueType ==
    ASSUME SessionInvariant, NEW x \in AnyTenant, Issue(x)
    PROVE  owner' \in [Pairs -> AnyTenant] /\ NextPair \in Pairs
BY DEF SessionInvariant, SessionTypeOK, Issue

LEMMA OwnedBySome ==
    ASSUME SessionInvariant, NEW n \in Pairs
    PROVE  owner[n] \in AnyTenant
BY DEF SessionInvariant, SessionTypeOK

----------------------------------------------------------------------------
LEMMA LoginKeeps ==
    ASSUME SessionInvariant, NEW t \in Tab, NEW x \in Tenant, Login(t, x)
    PROVE  SessionInvariant'
<1>1. x \in AnyTenant
  BY DEF AnyTenant
<1>2. owner' \in [Pairs -> AnyTenant] /\ NextPair \in Pairs
  BY <1>1, IssueType DEF Login
<1>3. SetSession(t, NextPair, x) /\ UNCHANGED <<changed, expired, refresh>>
  BY DEF Login
<1> QED BY <1>1, <1>2, <1>3, SetSessionKeeps DEF SessionInvariant, SessionTypeOK

LEMMA LogoutKeeps ==
    ASSUME SessionInvariant, NEW t \in Tab, Logout(t)
    PROVE  SessionInvariant'
BY EndSessionKeeps DEF Logout, apiTokens

LEMMA ChangePasswordKeeps ==
    ASSUME SessionInvariant, NEW t \in Tab, ChangePassword(t)
    PROVE  SessionInvariant'
<1>1. stored.pair \in Pairs
  BY DEF ChangePassword, SessionInvariant, SessionTypeOK
<1>2. owner' \in [Pairs -> AnyTenant] /\ NextPair \in Pairs
  BY <1>1, OwnedBySome, IssueType DEF ChangePassword
<1>3. /\ changed' = [changed EXCEPT ![t] = NextPair]
      /\ UNCHANGED <<stored, expired, refresh, profile, handle>>
  BY DEF ChangePassword
<1>4. changed' \in [Tab -> Pairs \cup {0}]
  BY <1>2, <1>3 DEF SessionInvariant, SessionTypeOK
<1> QED BY <1>2, <1>3, <1>4 DEF SessionInvariant, SessionTypeOK, ProfileIsOpened

LEMMA PasswordChangedKeeps ==
    ASSUME SessionInvariant, NEW t \in Tab, PasswordChanged(t)
    PROVE  SessionInvariant'
<1>1. changed[t] \in Pairs
  BY DEF PasswordChanged, SessionInvariant, SessionTypeOK
<1>2. owner[changed[t]] \in AnyTenant
  BY <1>1, OwnedBySome
<1>3. SetSession(t, changed[t], owner[changed[t]]) /\ UNCHANGED <<owner, expired, refresh>>
  BY DEF PasswordChanged, apiTokens
<1>4. changed' \in [Tab -> Pairs \cup {0}]
  BY DEF PasswordChanged, SessionInvariant, SessionTypeOK
<1> QED BY <1>1, <1>2, <1>3, <1>4, SetSessionKeeps DEF SessionInvariant, SessionTypeOK

(* A reload forgets opens and instance; what it opens is the tenant of the *)
(* profile it shows.                                                       *)
LEMMA ReloadKeeps ==
    ASSUME SessionInvariant, NEW t \in Tab, Reload(t)
    PROVE  SessionInvariant'
<1> DEFINE x == stored.tenant
           H == OpenForTenant(ClosedHandle, x)
<1>1. x \in AnyTenant
  BY DEF SessionInvariant, SessionTypeOK
<1>2. H \in Handle /\ H.promise = x /\ H.current = x
  BY <1>1, ClosedHandleType, OpenedHandle DEF ClosedHandle
<1>3. PICK G \in {H, ClosedHandle} :
         /\ handle' = [handle EXCEPT ![t] = G]
         /\ profile' = [profile EXCEPT ![t] = x]
         /\ changed' = [changed EXCEPT ![t] = 0]
         /\ UNCHANGED <<owner, expired, stored, refresh>>
  BY DEF Reload, apiTokens
<1> HIDE DEF H, x
<1>4. /\ G \in Handle /\ G.promise = G.current
      /\ \/ G.promise = x
         \/ G.promise = NoTenant /\ G.instance = NoTenant /\ G.opening = {}
  BY <1>2, ClosedHandleType DEF ClosedHandle
<1>5. SessionTypeOK'
  BY <1>1, <1>3, <1>4 DEF SessionInvariant, SessionTypeOK
<1>6. ProfileIsOpened'
  BY <1>1, <1>3, <1>4 DEF SessionInvariant, SessionTypeOK, ProfileIsOpened
<1> QED BY <1>5, <1>6 DEF SessionInvariant

LEMMA OpenSucceedsKeeps ==
    ASSUME SessionInvariant, NEW t \in Tab, NEW x \in Tenant, OpenSucceeds(t, x)
    PROVE  SessionInvariant'
<1>1. /\ x \in handle[t].opening /\ x \in AnyTenant
      /\ handle' = [handle EXCEPT ![t].instance = x, ![t].opening = @ \ {x}]
      /\ UNCHANGED <<owner, expired, stored, refresh, profile, changed>>
  BY DEF OpenSucceeds, apiTokens, AnyTenant
<1>2. handle' \in [Tab -> Handle]
  BY <1>1 DEF SessionInvariant, SessionTypeOK, Handle
<1>3. ProfileIsOpened'
  BY <1>1 DEF SessionInvariant, SessionTypeOK, ProfileIsOpened, Handle
<1> QED BY <1>1, <1>2, <1>3 DEF SessionInvariant, SessionTypeOK

LEMMA AnswerCallKeeps ==
    ASSUME SessionInvariant, NEW c \in Call, AnswerCall(c)
    PROVE  SessionInvariant'
<1>1. UNCHANGED <<owner, expired, stored, profile, handle, changed>>
  BY DEF AnswerCall, apiTokens
<1>2. refresh' \in Seq(Refresh)
  <2>1. CASE AwaitRotation(c)
    <3>1. stored.pair \in Pairs
      BY <2>1 DEF AwaitRotation, SessionInvariant, SessionTypeOK
    <3>2. [token |-> stored.pair, stage |-> "sent", got |-> 0] \in Refresh
      BY <3>1 DEF Refresh
    <3>3. \/ UNCHANGED refresh
          \/ refresh' = Append(refresh, [token |-> stored.pair, stage |-> "sent", got |-> 0])
      BY <2>1 DEF AwaitRotation
    <3> QED BY <3>2, <3>3 DEF SessionInvariant, SessionTypeOK
  <2>2. CASE CallEnds(c) \/ RetryWithStored(c)
    BY <2>2 DEF CallEnds, RetryWithStored, SessionInvariant, SessionTypeOK
  <2> QED BY <2>1, <2>2 DEF AnswerCall
<1> QED BY <1>1, <1>2 DEF SessionInvariant, SessionTypeOK, ProfileIsOpened

LEMMA RotateKeeps ==
    ASSUME SessionInvariant, NEW f \in 1 .. Len(refresh), Rotate(f)
    PROVE  SessionInvariant'
<1>1. UNCHANGED <<expired, stored, profile, handle, changed>>
  BY DEF Rotate
<1>2. refresh[f] \in Refresh /\ refresh \in Seq(Refresh)
  BY DEF SessionInvariant, SessionTypeOK
<1>3. CASE JudgeRefresh(f) \/ RevokeOld(f)
  <2>1. UNCHANGED owner
    BY <1>3 DEF JudgeRefresh, RevokeOld, apiTokens
  <2>2. PICK s \in {"refused", "judged", "revoked"} :
           refresh' = [refresh EXCEPT ![f] = [refresh[f] EXCEPT !.stage = s]]
    BY <1>3 DEF JudgeRefresh, RevokeOld
  <2>3. [refresh[f] EXCEPT !.stage = s] \in Refresh
    BY <1>2 DEF Refresh
  <2>4. refresh' \in Seq(Refresh)
    BY <1>2, <2>2, <2>3
  <2> QED BY <1>1, <2>1, <2>4 DEF SessionInvariant, SessionTypeOK, ProfileIsOpened
<1>4. CASE StoreNew(f)
  <2>1. owner[refresh[f].token] \in AnyTenant
    BY <1>2, OwnedBySome DEF Refresh
  <2>2. owner' \in [Pairs -> AnyTenant] /\ NextPair \in Pairs
    BY <1>4, <2>1, IssueType DEF StoreNew
  <2>3. [refresh[f] EXCEPT !.stage = "rotated", !.got = NextPair] \in Refresh
    BY <1>2, <2>2 DEF Refresh
  <2>4. refresh' = [refresh EXCEPT ![f] = [refresh[f] EXCEPT !.stage = "rotated", !.got = NextPair]]
    BY <1>4 DEF StoreNew
  <2>5. refresh' \in Seq(Refresh)
    BY <1>2, <2>3, <2>4
  <2> QED BY <1>1, <2>2, <2>5 DEF SessionInvariant, SessionTypeOK, ProfileIsOpened
<1> QED BY <1>3, <1>4 DEF Rotate

LEMMA LandingKeeps ==
    ASSUME SessionInvariant, NEW t \in Tab, NEW f \in 1 .. Len(refresh),
           Rotated(t, f) \/ RefreshRefused(t, f) \/ RefreshLost(t, f)
    PROVE  SessionInvariant'
<1>1. UNCHANGED <<owner, expired, refresh, changed>>
  BY DEF Rotated, RefreshRefused, RefreshLost, Land, apiTokens
<1>2. CASE Rotated(t, f)
  <2>1. refresh[f] \in Refresh /\ refresh[f].got \in Pairs \cup {0}
    <3>1. refresh[f] \in Refresh
      BY DEF SessionInvariant, SessionTypeOK
    <3> QED BY <3>1 DEF Refresh
  <2>2. stored' \in [pair : Pairs \cup {0}, tenant : AnyTenant] /\ UNCHANGED <<profile, handle>>
    BY <1>2, <2>1 DEF Rotated, SessionInvariant, SessionTypeOK
  <2> QED BY <1>1, <2>2 DEF SessionInvariant, SessionTypeOK, ProfileIsOpened
<1>3. CASE RefreshRefused(t, f)
  BY <1>1, <1>3, EndSessionKeeps DEF RefreshRefused
<1>4. CASE RefreshLost(t, f)
  BY <1>1, <1>4 DEF RefreshLost, SessionInvariant, SessionTypeOK, ProfileIsOpened
<1> QED BY <1>2, <1>3, <1>4

LEMMA OtherKeep ==
    ASSUME SessionInvariant,
           \/ \E n \in Pairs : Expire(n)
           \/ \E t \in Tab, c \in Call : SendCall(t, c)
           \/ UNCHANGED sessionVars
    PROVE  SessionInvariant'
<1>1. UNCHANGED <<owner, stored, refresh, profile, handle, changed>>
  BY DEF Expire, SendCall, sessionVars, apiTokens
<1>2. expired' \subseteq Pairs
  BY DEF Expire, SendCall, sessionVars, SessionInvariant, SessionTypeOK
<1> QED BY <1>1, <1>2 DEF SessionInvariant, SessionTypeOK, ProfileIsOpened

----------------------------------------------------------------------------
LEMMA TabsKeep == SessionInvariant /\ [PortalSessionNext]_sessionVars => SessionInvariant'
BY LoginKeeps, LogoutKeeps, ChangePasswordKeeps, PasswordChangedKeeps, ReloadKeeps,
   OpenSucceedsKeeps, AnswerCallKeeps, RotateKeeps, LandingKeeps, OtherKeep
DEF PortalSessionNext

LEMMA GetsItsTenant == SessionInvariant => CacheOfTenant
BY DEF SessionInvariant, ProfileIsOpened, CacheOfTenant, GetDb

(* In a tab that shows a profile, getDb throws or gives the database of    *)
(* that profile's tenant, for every number of tabs and tenants.            *)
THEOREM CacheIsOfTenant == PortalSessionSpec => []CacheOfTenant
BY TabsStart, TabsKeep, GetsItsTenant, PTL DEF PortalSessionSpec

----------------------------------------------------------------------------
(* Rotation.  A pair is stored only while it is unspent, a flight presents *)
(* the pair that was stored when it began, and a tab has one flight at a   *)
(* time.                                                                   *)

Calls ==
    {NoCall}
    \cup [stage : {"sent", "retried"}, tab : Tab, pair : Pairs \cup {0}]
    \cup [stage : {"waiting"}, tab : Tab, flight : Nat]

CallsTypeOK ==
    /\ call \in [Call -> Calls]
    /\ flight \in [Tab -> 0 .. Len(refresh)]
    /\ rotatedBy \in [Pairs -> SUBSET Tab]

(* Pairs are numbered as they are issued, and only issued ones are about.  *)
IssuedInOrder == Issued = 1 .. Cardinality(Issued) /\ IsFiniteSet(Issued)
OnlyIssued ==
    /\ stored.pair \in Issued \cup {0}
    /\ \A t \in Tab : changed[t] \in Issued \cup {0}
    /\ \A f \in DOMAIN refresh :
          refresh[f].token \in Issued /\ refresh[f].got \in Issued \cup {0}
    /\ \A n \in Pairs : rotatedBy[n] # {} => n \in Issued

(* A call waits for the flight of its tab, and a flight is one tab's.      *)
FlightOfTab ==
    /\ \A c \in Call : call[c].stage = "waiting" => call[c].flight = flight[call[c].tab]
    /\ \A t, u \in Tab : flight[t] = flight[u] /\ flight[t] # 0 => t = u
    /\ \A c \in Call : call[c].stage = "waiting" => call[c].flight # 0

(* No one has stored or presented this pair.                               *)
Unspent(n) ==
    /\ stored.pair # n
    /\ rotatedBy[n] = {}
    /\ \A f \in DOMAIN refresh : refresh[f].token # n

(* What a password change or a rotation under way will store is unspent,   *)
(* and each will store another pair.                                       *)
NextIsUnspent ==
    /\ \A t \in Tab : changed[t] # 0 => Unspent(changed[t])
    /\ \A t, u \in Tab : changed[t] = changed[u] /\ changed[t] # 0 => t = u
    /\ \A t \in Tab : flight[t] # 0 /\ refresh[flight[t]].stage = "rotated" =>
          refresh[flight[t]].got # 0 /\ Unspent(refresh[flight[t]].got)
    /\ \A f, g \in DOMAIN refresh :
          refresh[f].got = refresh[g].got /\ refresh[f].got # 0 => f = g
    /\ \A t \in Tab, f \in DOMAIN refresh : changed[t] # 0 => changed[t] # refresh[f].got

(* A pair whose successor a tab has stored is not stored again, and no     *)
(* flight of that tab presents it.                                         *)
ReplacedForGood ==
    \A n \in Pairs : \A t \in rotatedBy[n] :
        stored.pair # n /\ (flight[t] # 0 => refresh[flight[t]].token # n)

RotationInvariant ==
    /\ SessionInvariant /\ CallsTypeOK /\ IssuedInOrder /\ OnlyIssued
    /\ FlightOfTab /\ NextIsUnspent /\ ReplacedForGood

----------------------------------------------------------------------------
LEMMA PairsArePositive == Pairs \subseteq Nat /\ 0 \notin Pairs
BY PortalSessionAssumption DEF Pairs

LEMMA RotationInit == PortalSessionInit => RotationInvariant
<1> SUFFICES ASSUME PortalSessionInit PROVE RotationInvariant
  OBVIOUS
<1>1. Issued = {}
  BY DEF PortalSessionInit, Issued
<1>2. IssuedInOrder
  BY <1>1, FS_EmptySet DEF IssuedInOrder
<1>3. Len(refresh) = 0 /\ DOMAIN refresh = {}
  BY DEF PortalSessionInit
<1>4. CallsTypeOK
  BY <1>3 DEF PortalSessionInit, CallsTypeOK, Calls
<1>5. OnlyIssued /\ FlightOfTab /\ NextIsUnspent /\ ReplacedForGood
  BY <1>3 DEF PortalSessionInit, OnlyIssued, FlightOfTab, NextIsUnspent, ReplacedForGood,
              NoCall, SignedOut
<1> QED BY <1>2, <1>4, <1>5, TabsStart DEF RotationInvariant

(* The next pair is new.                                                   *)
LEMMA NewPair ==
    ASSUME SessionInvariant, IssuedInOrder, NEW x \in Tenant, Issue(x)
    PROVE  /\ NextPair \in Pairs /\ NextPair \notin Issued /\ NextPair # 0
           /\ Issued' = Issued \cup {NextPair}
           /\ IssuedInOrder'
<1>1. NextPair \in Pairs /\ owner' = [owner EXCEPT ![NextPair] = x] /\ x # NoTenant
  BY PortalSessionAssumption DEF Issue
<1>2. Issued' = Issued \cup {NextPair}
  BY <1>1 DEF Issued, SessionInvariant, SessionTypeOK
<1> DEFINE k == Cardinality(Issued)
<1>3. k \in Nat /\ NextPair = k + 1
  BY FS_CardinalityType DEF IssuedInOrder, NextPair
<1>4. Issued = 1 .. k
  BY DEF IssuedInOrder
<1> HIDE DEF k
<1>5. NextPair \notin Issued /\ NextPair # 0 /\ Issued' = 1 .. k + 1
  BY <1>2, <1>3, <1>4
<1>6. Cardinality(Issued') = k + 1 /\ IsFiniteSet(Issued')
  <2>1. k + 1 \in Int /\ 1 \in Int
    BY <1>3
  <2>2. IsFiniteSet(1 .. k + 1) /\ Cardinality(1 .. k + 1) = k + 1
    BY <1>3, <2>1, FS_Interval
  <2> QED BY <1>5, <2>2
<1> QED BY <1>1, <1>2, <1>5, <1>6 DEF IssuedInOrder

LEMMA OwnerIsTenant ==
    ASSUME SessionInvariant, NEW n \in Issued
    PROVE  owner[n] \in Tenant /\ n \in Pairs
BY DEF Issued, SessionInvariant, SessionTypeOK, AnyTenant

LEMMA IssuedArePairs == Issued \subseteq Pairs
BY DEF Issued

LEMMA NoneIssued ==
    ASSUME IssuedInOrder, UNCHANGED owner
    PROVE  Issued' = Issued /\ IssuedInOrder'
BY DEF Issued, IssuedInOrder

----------------------------------------------------------------------------
LEMMA LoginRotation ==
    ASSUME RotationInvariant, NEW t \in Tab, NEW x \in Tenant, Login(t, x)
    PROVE  RotationInvariant'
<1> USE DEF RotationInvariant
<1>1. /\ NextPair \in Pairs /\ NextPair \notin Issued /\ NextPair # 0
      /\ Issued' = Issued \cup {NextPair} /\ IssuedInOrder'
  BY NewPair DEF Login
<1>2. stored'.pair = NextPair /\ UNCHANGED <<flight, refresh, call, changed, rotatedBy>>
  BY DEF Login, SetSession
<1>3. OnlyIssued'
  BY <1>1, <1>2 DEF OnlyIssued
<1>4. NextIsUnspent'
  <2>1. \A n \in Issued : Unspent(n) => Unspent(n)'
    BY <1>1, <1>2 DEF Unspent
  <2>2. \A s \in Tab : changed[s] # 0 => changed[s] \in Issued
    BY DEF OnlyIssued
  <2>3. \A s \in Tab : flight[s] # 0 /\ refresh[flight[s]].got # 0 =>
           refresh[flight[s]].got \in Issued
    BY DEF OnlyIssued, CallsTypeOK, SessionInvariant, SessionTypeOK
  <2> QED BY <1>2, <2>1, <2>2, <2>3 DEF NextIsUnspent
<1>5. ReplacedForGood'
  BY <1>1, <1>2 DEF ReplacedForGood, OnlyIssued
<1>6. CallsTypeOK' /\ FlightOfTab'
  BY <1>2 DEF CallsTypeOK, FlightOfTab
<1>7. SessionInvariant'
  BY LoginKeeps
<1> QED BY <1>1, <1>3, <1>4, <1>5, <1>6, <1>7

----------------------------------------------------------------------------
(* A step that stores, presents and issues nothing: it can only forget.    *)
Forgets ==
    /\ UNCHANGED <<owner, refresh, rotatedBy>>
    /\ stored'.pair \in {stored.pair, 0}
    /\ \A t \in Tab : changed'[t] \in {changed[t], 0}
    /\ \A t \in Tab : flight'[t] \in {flight[t], 0}

LEMMA ForgettingKeeps ==
    ASSUME RotationInvariant, Forgets
    PROVE  IssuedInOrder' /\ OnlyIssued' /\ NextIsUnspent' /\ ReplacedForGood'
<1> USE DEF RotationInvariant
<1>1. Issued' = Issued /\ IssuedInOrder' /\ 0 \notin Issued
  BY NoneIssued, IssuedArePairs, PairsArePositive DEF Forgets
<1>2. OnlyIssued'
  BY <1>1 DEF OnlyIssued, Forgets
<1>3. \A n \in Issued : Unspent(n) => Unspent(n)'
  BY <1>1 DEF Unspent, Forgets
<1>4. \A t \in Tab : flight[t] # 0 => flight[t] \in DOMAIN refresh
  BY DEF CallsTypeOK, SessionInvariant, SessionTypeOK
<1>5. NextIsUnspent'
  <2>1. \A t \in Tab : changed'[t] # 0 => changed'[t] = changed[t] /\ changed[t] \in Issued
    BY DEF Forgets, OnlyIssued
  <2>2. \A t \in Tab : flight'[t] # 0 =>
           flight'[t] = flight[t] /\ refresh[flight[t]].got \in Issued \cup {0}
    BY <1>4 DEF Forgets, OnlyIssued
  <2>3. refresh' = refresh
    BY DEF Forgets
  <2> QED BY <1>3, <2>1, <2>2, <2>3 DEF NextIsUnspent
<1>6. ReplacedForGood'
  BY PairsArePositive DEF ReplacedForGood, Forgets, CallsTypeOK
<1> QED BY <1>1, <1>2, <1>5, <1>6

(* The calls of a tab whose flight is over, and of one that is reloaded.   *)
LEMMA CallsForget ==
    ASSUME RotationInvariant, NEW t \in Tab, UNCHANGED <<refresh, rotatedBy>>,
           flight' = [flight EXCEPT ![t] = 0],
           \A c \in Call : call'[c].stage = "waiting" => call'[c] = call[c] /\ call[c].tab # t,
           call' \in [Call -> Calls]
    PROVE  CallsTypeOK' /\ FlightOfTab'
<1> USE DEF RotationInvariant
<1>1. CallsTypeOK'
  BY DEF CallsTypeOK, SessionInvariant, SessionTypeOK
<1>2. \A c \in Call : call'[c].stage = "waiting" => call[c].tab \in Tab
  BY DEF CallsTypeOK, Calls, NoCall
<1>3. FlightOfTab'
  BY <1>2 DEF FlightOfTab, CallsTypeOK
<1> QED BY <1>1, <1>3

LEMMA CallTab ==
    ASSUME CallsTypeOK, NEW c \in Call, call[c].stage # "idle"
    PROVE  call[c].tab \in Tab
BY DEF CallsTypeOK, Calls, NoCall

LEMMA CallPair ==
    ASSUME CallsTypeOK, NEW c \in Call, call[c].stage \in {"sent", "retried"}
    PROVE  call[c] \in [stage : {"sent", "retried"}, tab : Tab, pair : Pairs \cup {0}]
BY DEF CallsTypeOK, Calls, NoCall

LEMMA NoCallType == NoCall \in Calls
BY DEF Calls

----------------------------------------------------------------------------
LEMMA LogoutRotation ==
    ASSUME RotationInvariant, NEW t \in Tab, Logout(t)
    PROVE  RotationInvariant'
<1>1. Forgets
  BY DEF Logout, EndSession, SignedOut, Forgets, apiTokens
<1>2. CallsTypeOK' /\ FlightOfTab'
  BY DEF Logout, RotationInvariant, CallsTypeOK, FlightOfTab
<1>3. SessionInvariant'
  BY LogoutKeeps DEF RotationInvariant
<1> QED BY <1>1, <1>2, <1>3, ForgettingKeeps DEF RotationInvariant

LEMMA ReloadRotation ==
    ASSUME RotationInvariant, NEW t \in Tab, Reload(t)
    PROVE  RotationInvariant'
<1>1. Forgets
  BY DEF Reload, Forgets, apiTokens, RotationInvariant, SessionInvariant, SessionTypeOK,
         CallsTypeOK
<1>2. call' \in [Call -> Calls]
  BY NoCallType DEF Reload, RotationInvariant, CallsTypeOK
<1>3. \A c \in Call : call'[c].stage = "waiting" => call'[c] = call[c] /\ call[c].tab # t
  BY DEF Reload, NoCall
<1>4. flight' = [flight EXCEPT ![t] = 0] /\ UNCHANGED <<refresh, rotatedBy>>
  BY DEF Reload
<1>5. CallsTypeOK' /\ FlightOfTab'
  BY <1>2, <1>3, <1>4, CallsForget
<1>6. SessionInvariant'
  BY ReloadKeeps DEF RotationInvariant
<1> QED BY <1>1, <1>5, <1>6, ForgettingKeeps DEF RotationInvariant

LEMMA OtherRotation ==
    ASSUME RotationInvariant,
           \/ \E n \in Pairs : Expire(n)
           \/ \E t \in Tab, x \in Tenant : OpenSucceeds(t, x)
           \/ UNCHANGED sessionVars
    PROVE  RotationInvariant'
<1>1. UNCHANGED <<owner, stored, flight, refresh, call, changed, rotatedBy>>
  BY DEF Expire, OpenSucceeds, sessionVars, apiTokens
<1>2. Forgets
  BY <1>1 DEF Forgets
<1>3. CallsTypeOK' /\ FlightOfTab'
  BY <1>1 DEF RotationInvariant, CallsTypeOK, FlightOfTab
<1>4. SessionInvariant'
  BY OtherKeep, OpenSucceedsKeeps DEF RotationInvariant
<1> QED BY <1>2, <1>3, <1>4, ForgettingKeeps DEF RotationInvariant

LEMMA SendCallRotation ==
    ASSUME RotationInvariant, NEW t \in Tab, NEW c \in Call, SendCall(t, c)
    PROVE  RotationInvariant'
<1> DEFINE sent == [stage |-> "sent", tab |-> t, pair |-> stored.pair]
<1>1. call' = [call EXCEPT ![c] = sent] /\ UNCHANGED <<flight, refresh, rotatedBy>>
  BY DEF SendCall
<1>2. sent \in Calls /\ sent.stage # "waiting"
  BY DEF Calls, RotationInvariant, SessionInvariant, SessionTypeOK
<1> HIDE DEF sent
<1>3. CallsTypeOK' /\ FlightOfTab'
  BY <1>1, <1>2 DEF RotationInvariant, CallsTypeOK, FlightOfTab
<1>4. Forgets
  BY DEF SendCall, Forgets, apiTokens
<1>5. SessionInvariant'
  BY OtherKeep DEF RotationInvariant
<1> QED BY <1>3, <1>4, <1>5, ForgettingKeeps DEF RotationInvariant

LEMMA ChangePasswordRotation ==
    ASSUME RotationInvariant, NEW t \in Tab, ChangePassword(t)
    PROVE  RotationInvariant'
<1> USE DEF RotationInvariant
<1>1. stored.pair \in Issued /\ owner[stored.pair] \in Tenant
  BY OwnerIsTenant DEF ChangePassword, OnlyIssued
<1>2. /\ NextPair \in Pairs /\ NextPair \notin Issued /\ NextPair # 0
      /\ Issued' = Issued \cup {NextPair} /\ IssuedInOrder'
  BY <1>1, NewPair DEF ChangePassword
<1>3. /\ changed' = [changed EXCEPT ![t] = NextPair]
      /\ UNCHANGED <<stored, flight, refresh, call, rotatedBy>>
  BY DEF ChangePassword
<1>4. \A s \in Tab : changed'[s] = IF s = t THEN NextPair ELSE changed[s]
  BY <1>3 DEF SessionInvariant, SessionTypeOK
<1>5. OnlyIssued'
  BY <1>2, <1>3, <1>4 DEF OnlyIssued
<1>6. NextIsUnspent'
  <2>1. \A n \in Pairs : Unspent(n) => Unspent(n)'
    BY <1>3 DEF Unspent
  <2>2. Unspent(NextPair)
    BY <1>2 DEF Unspent, OnlyIssued
  <2>3. \A s \in Tab : changed[s] # NextPair
    BY <1>2 DEF OnlyIssued
  <2>4. \A f \in DOMAIN refresh : refresh[f].got # NextPair
    BY <1>2 DEF OnlyIssued
  <2>5. \A s \in Tab : changed[s] # 0 => changed[s] \in Pairs
    BY DEF SessionInvariant, SessionTypeOK
  <2>6. \A s \in Tab : flight[s] # 0 /\ refresh[flight[s]].stage = "rotated" =>
           refresh[flight[s]].got # 0 /\ Unspent(refresh[flight[s]].got)'
    <3>1. \A n : Unspent(n) => Unspent(n)'
      BY <1>3 DEF Unspent
    <3> QED BY <1>3, <3>1 DEF NextIsUnspent
  <2> QED BY <1>2, <1>3, <1>4, <2>1, <2>2, <2>3, <2>4, <2>5, <2>6 DEF NextIsUnspent
<1>7. ReplacedForGood' /\ CallsTypeOK' /\ FlightOfTab'
  BY <1>3 DEF ReplacedForGood, CallsTypeOK, FlightOfTab
<1> QED BY <1>2, <1>5, <1>6, <1>7, ChangePasswordKeeps

LEMMA PasswordChangedRotation ==
    ASSUME RotationInvariant, NEW t \in Tab, PasswordChanged(t)
    PROVE  RotationInvariant'
<1> USE DEF RotationInvariant
<1>1. /\ changed[t] # 0 /\ stored'.pair = changed[t]
      /\ changed' = [changed EXCEPT ![t] = 0]
      /\ UNCHANGED <<owner, flight, refresh, call, rotatedBy>>
  BY DEF PasswordChanged, SetSession, apiTokens
<1>2. \A s \in Tab : changed'[s] = IF s = t THEN 0 ELSE changed[s]
  BY <1>1 DEF SessionInvariant, SessionTypeOK
<1>3. Issued' = Issued /\ IssuedInOrder'
  BY <1>1, NoneIssued
<1>4. OnlyIssued'
  BY <1>1, <1>2, <1>3 DEF OnlyIssued
<1>5. \A n : n # changed[t] /\ Unspent(n) => Unspent(n)'
  BY <1>1 DEF Unspent
<1>6. \A s \in Tab : flight[s] # 0 => flight[s] \in DOMAIN refresh
  BY DEF CallsTypeOK, SessionInvariant, SessionTypeOK
<1>7. NextIsUnspent'
  <2>1. \A s \in Tab : changed'[s] # 0 => s # t /\ changed[s] # 0 /\ changed[s] # changed[t]
    BY <1>1, <1>2 DEF NextIsUnspent
  <2>2. \A s \in Tab : changed'[s] # 0 => Unspent(changed[s])'
    <3>1. \A s \in Tab : changed'[s] # 0 => changed'[s] = changed[s]
      BY <1>2
    <3> QED BY <1>5, <2>1, <3>1 DEF NextIsUnspent
  <2>3. \A s \in Tab : flight[s] # 0 /\ refresh[flight[s]].stage = "rotated" =>
           refresh[flight[s]].got # 0 /\ Unspent(refresh[flight[s]].got)'
    BY <1>1, <1>5, <1>6 DEF NextIsUnspent
  <2> QED BY <1>1, <2>1, <2>2, <2>3 DEF NextIsUnspent
<1>8. ReplacedForGood'
  BY <1>1 DEF ReplacedForGood, NextIsUnspent, Unspent
<1>9. CallsTypeOK' /\ FlightOfTab'
  BY <1>1 DEF CallsTypeOK, FlightOfTab
<1> QED BY <1>3, <1>4, <1>7, <1>8, <1>9, PasswordChangedKeeps

----------------------------------------------------------------------------
LEMMA FlightsOfRefresh ==
    ASSUME RotationInvariant
    PROVE  /\ DOMAIN refresh = 1 .. Len(refresh) /\ Len(refresh) \in Nat
           /\ \A t \in Tab : flight[t] # 0 => flight[t] \in DOMAIN refresh
           /\ \A f \in DOMAIN refresh : refresh[f] \in Refresh
BY DEF RotationInvariant, CallsTypeOK, SessionInvariant, SessionTypeOK

(* A call that ends, or that is sent again with the pair now stored.       *)
LEMMA CallEndsRotation ==
    ASSUME RotationInvariant, NEW c \in Call, CallEnds(c) \/ RetryWithStored(c),
           UNCHANGED <<owner, stored, changed, rotatedBy>>
    PROVE  CallsTypeOK' /\ FlightOfTab' /\ Forgets
<1>1. \E k \in Calls : k.stage # "waiting" /\ call' = [call EXCEPT ![c] = k]
  <2>1. CASE CallEnds(c)
    BY <2>1, NoCallType DEF CallEnds, NoCall
  <2>2. CASE RetryWithStored(c)
    <3> DEFINE k == [call[c] EXCEPT !.stage = "retried", !.pair = stored.pair]
    <3>1. call[c] \in [stage : {"sent", "retried"}, tab : Tab, pair : Pairs \cup {0}]
      BY <2>2, CallPair DEF RetryWithStored, RotationInvariant
    <3>2. k \in Calls /\ k.stage # "waiting"
      BY <3>1 DEF Calls, RotationInvariant, SessionInvariant, SessionTypeOK
    <3>3. call' = [call EXCEPT ![c] = k]
      BY <2>2 DEF RetryWithStored
    <3> QED BY <3>2, <3>3
  <2> QED BY <2>1, <2>2
<1>2. PICK k \in Calls : k.stage # "waiting" /\ call' = [call EXCEPT ![c] = k]
  BY <1>1
<1>3. UNCHANGED <<flight, refresh>>
  BY DEF CallEnds, RetryWithStored
<1>4. \A d \in Call : call'[d] = IF d = c THEN k ELSE call[d]
  BY <1>2 DEF RotationInvariant, CallsTypeOK
<1>5. CallsTypeOK' /\ FlightOfTab'
  BY <1>2, <1>3, <1>4 DEF RotationInvariant, CallsTypeOK, FlightOfTab
<1>6. Forgets
  BY <1>3 DEF Forgets
<1> QED BY <1>5, <1>6

(* A new flight presents the stored pair, which no tab has seen replaced.  *)
LEMMA AwaitRotationRotation ==
    ASSUME RotationInvariant, NEW c \in Call, AwaitRotation(c),
           UNCHANGED <<owner, stored, changed, rotatedBy>>
    PROVE  CallsTypeOK' /\ FlightOfTab' /\ OnlyIssued' /\ NextIsUnspent' /\ ReplacedForGood'
<1> USE DEF RotationInvariant
<1> DEFINE t == call[c].tab
           f == Flight(t)
           sent == [token |-> stored.pair, stage |-> "sent", got |-> 0]
<1>1. /\ t \in Tab
      /\ call[c].stage = "sent" /\ stored.pair = call[c].pair /\ call[c].pair \in expired
      /\ refresh' = IF f <= Len(refresh) THEN refresh ELSE Append(refresh, sent)
      /\ flight' = [flight EXCEPT ![t] = f]
      /\ call' = [call EXCEPT ![c] = [stage |-> "waiting", tab |-> t, flight |-> f]]
  BY CallTab DEF AwaitRotation
<1>2. stored.pair \in Issued /\ stored.pair \in Pairs
  BY <1>1, PairsArePositive DEF OnlyIssued, SessionInvariant, SessionTypeOK
<1>3. /\ DOMAIN refresh = 1 .. Len(refresh) /\ Len(refresh) \in Nat
      /\ \A s \in Tab : flight[s] # 0 => flight[s] \in DOMAIN refresh
  BY FlightsOfRefresh
<1>4. /\ f = (IF flight[t] # 0 THEN flight[t] ELSE Len(refresh) + 1)
      /\ f \in Nat /\ f # 0
  BY <1>1, <1>3 DEF Flight
<1> HIDE DEF f, t
<1>5. call' \in [Call -> Calls] /\ \A d \in Call : call'[d] =
         IF d = c THEN [stage |-> "waiting", tab |-> t, flight |-> f] ELSE call[d]
  <2>1. [stage |-> "waiting", tab |-> t, flight |-> f] \in Calls
    BY <1>1, <1>4 DEF Calls
  <2> QED BY <1>1, <2>1 DEF CallsTypeOK
<1>6. \A s \in Tab : flight'[s] = IF s = t THEN f ELSE flight[s]
  BY <1>1 DEF CallsTypeOK
<1>7. Issued' = Issued
  BY DEF Issued
<1>8. CASE flight[t] # 0
  <2>1. f = flight[t] /\ refresh' = refresh
    <3>1. f = flight[t] /\ flight[t] \in 1 .. Len(refresh)
      BY <1>1, <1>3, <1>4, <1>8
    <3>2. f <= Len(refresh)
      BY <1>3, <3>1
    <3>3. refresh' = IF f <= Len(refresh) THEN refresh ELSE Append(refresh, sent)
      BY <1>1
    <3> HIDE DEF sent
    <3> QED BY <3>1, <3>2, <3>3, Zenon
  <2>2. flight' = flight
    BY <1>1, <2>1 DEF CallsTypeOK
  <2>3. CallsTypeOK'
    BY <1>5, <2>1, <2>2 DEF CallsTypeOK
  <2>4. FlightOfTab'
    BY <1>4, <1>5, <2>1, <2>2 DEF FlightOfTab
  <2>5. OnlyIssued' /\ NextIsUnspent' /\ ReplacedForGood'
    BY <1>7, <2>1, <2>2 DEF OnlyIssued, NextIsUnspent, Unspent, ReplacedForGood
  <2> QED BY <2>3, <2>4, <2>5
<1>9. CASE flight[t] = 0
  <2>1. f = Len(refresh) + 1 /\ refresh' = Append(refresh, sent)
    BY <1>1, <1>3, <1>4, <1>9
  <2>2. /\ DOMAIN refresh' = DOMAIN refresh \cup {f} /\ f \notin DOMAIN refresh
        /\ Len(refresh') = Len(refresh) + 1
        /\ \A g \in DOMAIN refresh' : refresh'[g] = IF g = f THEN sent ELSE refresh[g]
    <3>1. sent \in Refresh /\ refresh \in Seq(Refresh)
      BY <1>2 DEF Refresh, SessionInvariant, SessionTypeOK
    <3> HIDE DEF sent
    <3>2. /\ Len(refresh') = Len(refresh) + 1
          /\ DOMAIN refresh' = 1 .. Len(refresh) + 1
          /\ \A g \in 1 .. Len(refresh) : refresh'[g] = refresh[g]
          /\ refresh'[Len(refresh) + 1] = sent
      BY <2>1, <3>1
    <3> QED BY <1>3, <2>1, <3>2
  <2>3. \A s \in Tab : flight[s] # 0 => flight[s] # f
    BY <1>3, <2>2
  <2>4. CallsTypeOK'
    <3>1. flight' \in [Tab -> 0 .. Len(refresh')]
      BY <1>1, <1>3, <2>1, <2>2 DEF CallsTypeOK
    <3> QED BY <1>5, <3>1 DEF CallsTypeOK
  <2>5. FlightOfTab'
    <3>1. \A d \in Call : call[d].stage = "waiting" => call[d].tab # t
      BY <1>9 DEF FlightOfTab
    <3>2. \A d \in Call : call[d].stage = "waiting" => call[d].tab \in Tab
      BY CallTab
    <3> QED BY <1>1, <1>4, <1>5, <1>6, <2>3, <3>1, <3>2 DEF FlightOfTab
  <2>6. OnlyIssued'
    BY <1>2, <1>7, <2>2 DEF OnlyIssued
  <2>7. \A n \in Issued : Unspent(n) => Unspent(n)'
    BY <2>2 DEF Unspent
  <2>8. NextIsUnspent'
    <3>1. \A s \in Tab : changed[s] # 0 => changed[s] \in Issued
      BY DEF OnlyIssued
    <3>2. \A s \in Tab : changed[s] # 0 => Unspent(changed[s])'
      BY <2>7, <3>1 DEF NextIsUnspent
    <3>3. \A s \in Tab : flight'[s] # 0 /\ refresh'[flight'[s]].stage = "rotated" =>
             /\ flight'[s] = flight[s] /\ flight[s] \in DOMAIN refresh
             /\ refresh'[flight'[s]] = refresh[flight[s]]
      BY <1>3, <1>6, <2>2, <2>3
    <3>4. \A s \in Tab : flight[s] # 0 /\ refresh[flight[s]].stage = "rotated" =>
             refresh[flight[s]].got \in Issued
      BY <1>3 DEF NextIsUnspent, OnlyIssued
    <3>5. \A s \in Tab : flight'[s] # 0 /\ refresh'[flight'[s]].stage = "rotated" =>
             refresh'[flight'[s]].got # 0 /\ Unspent(refresh[flight[s]].got)'
      BY <2>7, <3>3, <3>4 DEF NextIsUnspent
    <3>6. \A g \in DOMAIN refresh' : refresh'[g].got # 0 =>
             g \in DOMAIN refresh /\ refresh'[g].got = refresh[g].got
      BY <2>2
    <3> QED BY <3>2, <3>5, <3>6 DEF NextIsUnspent
  <2>9. ReplacedForGood'
    <3>1. \A n \in Pairs : rotatedBy[n] \in SUBSET Tab
      BY DEF CallsTypeOK
    <3>2. \A s \in Tab : s # t /\ flight[s] # 0 => refresh'[flight'[s]] = refresh[flight[s]]
      BY <1>3, <1>6, <2>2, <2>3
    <3>3. refresh'[flight'[t]].token = stored.pair
      BY <1>1, <1>6, <2>2
    <3> QED BY <1>6, <3>1, <3>2, <3>3 DEF ReplacedForGood
  <2> QED BY <2>4, <2>5, <2>6, <2>8, <2>9
<1> QED BY <1>8, <1>9

LEMMA AnswerCallRotation ==
    ASSUME RotationInvariant, NEW c \in Call, AnswerCall(c)
    PROVE  RotationInvariant'
<1>1. UNCHANGED <<owner, stored, changed, rotatedBy>>
  BY DEF AnswerCall, apiTokens
<1>2. SessionInvariant'
  BY AnswerCallKeeps DEF RotationInvariant
<1>3. CASE CallEnds(c) \/ RetryWithStored(c)
  BY <1>1, <1>2, <1>3, CallEndsRotation, ForgettingKeeps DEF RotationInvariant
<1>4. CASE AwaitRotation(c)
  BY <1>1, <1>2, <1>4, AwaitRotationRotation, NoneIssued DEF RotationInvariant
<1> QED BY <1>3, <1>4 DEF AnswerCall

----------------------------------------------------------------------------
(* The API moves on with a request: the token presented and the pair it    *)
(* has answered with stay, until a new pair is stored.                     *)
LEMMA JudgingKeeps ==
    ASSUME RotationInvariant, NEW f \in 1 .. Len(refresh), JudgeRefresh(f) \/ RevokeOld(f),
           UNCHANGED <<stored, flight, call, changed, rotatedBy>>
    PROVE  /\ IssuedInOrder' /\ CallsTypeOK' /\ FlightOfTab'
           /\ OnlyIssued' /\ NextIsUnspent' /\ ReplacedForGood'
<1> USE DEF RotationInvariant
<1>1. UNCHANGED owner
  BY DEF JudgeRefresh, RevokeOld, apiTokens
<1>2. Issued' = Issued /\ IssuedInOrder'
  BY <1>1, NoneIssued
<1>3. PICK s \in {"refused", "judged", "revoked"} :
         refresh' = [refresh EXCEPT ![f] = [refresh[f] EXCEPT !.stage = s]]
  BY DEF JudgeRefresh, RevokeOld
<1>4. /\ DOMAIN refresh' = DOMAIN refresh /\ Len(refresh') = Len(refresh)
      /\ \A g \in DOMAIN refresh :
            /\ refresh'[g].token = refresh[g].token /\ refresh'[g].got = refresh[g].got
            /\ refresh'[g].stage = "rotated" => refresh[g].stage = "rotated"
  <2>1. refresh \in Seq(Refresh)
    BY DEF SessionInvariant, SessionTypeOK
  <2>2. DOMAIN refresh' = DOMAIN refresh /\ Len(refresh') = Len(refresh)
    BY <1>3, <2>1
  <2>3. \A g \in DOMAIN refresh : refresh'[g] =
           IF g = f THEN [refresh[f] EXCEPT !.stage = s] ELSE refresh[g]
    BY <1>3
  <2>4. refresh[f] \in Refresh
    BY <2>1
  <2> QED BY <2>2, <2>3, <2>4 DEF Refresh
<1>5. \A t \in Tab : flight[t] # 0 => flight[t] \in DOMAIN refresh
  BY FlightsOfRefresh
<1>6. CallsTypeOK' /\ FlightOfTab'
  BY <1>4 DEF CallsTypeOK, FlightOfTab
<1>7. OnlyIssued'
  BY <1>2, <1>4 DEF OnlyIssued
<1>8. \A n : Unspent(n) => Unspent(n)'
  BY <1>4 DEF Unspent
<1>9. NextIsUnspent'
  <2>1. \A t \in Tab : flight[t] # 0 /\ refresh'[flight[t]].stage = "rotated" =>
           /\ refresh[flight[t]].got # 0 /\ refresh'[flight[t]].got = refresh[flight[t]].got
           /\ Unspent(refresh[flight[t]].got)
    BY <1>4, <1>5 DEF NextIsUnspent
  <2>2. \A t \in Tab : flight'[t] # 0 /\ refresh'[flight'[t]].stage = "rotated" =>
           refresh'[flight'[t]].got # 0 /\ Unspent(refresh[flight[t]].got)'
    BY <1>8, <2>1
  <2>3. \A t \in Tab : changed[t] # 0 => Unspent(changed[t])'
    BY <1>8 DEF NextIsUnspent
  <2> QED BY <1>4, <2>2, <2>3 DEF NextIsUnspent
<1>10. ReplacedForGood'
  BY <1>4, <1>5 DEF ReplacedForGood, CallsTypeOK
<1> QED BY <1>2, <1>6, <1>7, <1>9, <1>10

LEMMA StoringKeeps ==
    ASSUME RotationInvariant, NEW f \in 1 .. Len(refresh), StoreNew(f),
           UNCHANGED <<stored, flight, call, changed, rotatedBy>>
    PROVE  /\ IssuedInOrder' /\ CallsTypeOK' /\ FlightOfTab'
           /\ OnlyIssued' /\ NextIsUnspent' /\ ReplacedForGood'
<1> USE DEF RotationInvariant
<1>1. f \in DOMAIN refresh /\ refresh \in Seq(Refresh) /\ refresh[f] \in Refresh
  BY DEF SessionInvariant, SessionTypeOK
<1>2. owner[refresh[f].token] \in Tenant
  BY <1>1, OwnerIsTenant DEF OnlyIssued
<1>3. /\ NextPair \in Pairs /\ NextPair \notin Issued /\ NextPair # 0
      /\ Issued' = Issued \cup {NextPair} /\ IssuedInOrder'
  BY <1>2, NewPair DEF StoreNew
<1> DEFINE n == NextPair
<1>4. refresh' = [refresh EXCEPT ![f] = [refresh[f] EXCEPT !.stage = "rotated", !.got = n]]
  BY DEF StoreNew
<1> HIDE DEF n
<1>5. n \in Pairs /\ n \notin Issued /\ n # 0 /\ Issued' = Issued \cup {n}
  BY <1>3 DEF n
<1>6. /\ DOMAIN refresh' = DOMAIN refresh /\ Len(refresh') = Len(refresh)
      /\ \A g \in DOMAIN refresh :
            /\ refresh'[g].token = refresh[g].token
            /\ refresh'[g].got = IF g = f THEN n ELSE refresh[g].got
            /\ g # f => refresh'[g].stage = refresh[g].stage
  <2>1. DOMAIN refresh' = DOMAIN refresh /\ Len(refresh') = Len(refresh)
    BY <1>1, <1>4
  <2>2. \A g \in DOMAIN refresh : refresh'[g] =
           IF g = f THEN [refresh[f] EXCEPT !.stage = "rotated", !.got = n] ELSE refresh[g]
    BY <1>4
  <2> QED BY <1>1, <2>1, <2>2 DEF Refresh
<1>7. \A t \in Tab : flight[t] # 0 => flight[t] \in DOMAIN refresh
  BY FlightsOfRefresh
<1>8. CallsTypeOK' /\ FlightOfTab'
  BY <1>6 DEF CallsTypeOK, FlightOfTab
<1>9. OnlyIssued'
  BY <1>5, <1>6 DEF OnlyIssued
<1>10. \A m : Unspent(m) => Unspent(m)'
  BY <1>6 DEF Unspent
<1>11. Unspent(n)
  BY <1>5 DEF Unspent, OnlyIssued
<1>12. NextIsUnspent'
  <2>1. \A t \in Tab : flight[t] # 0 /\ refresh'[flight[t]].stage = "rotated" =>
           refresh'[flight[t]].got # 0 /\ Unspent(refresh'[flight[t]].got)
    BY <1>5, <1>6, <1>7, <1>11 DEF NextIsUnspent
  <2>2. \A t \in Tab : flight'[t] # 0 /\ refresh'[flight'[t]].stage = "rotated" =>
           refresh'[flight'[t]].got # 0 /\ Unspent(refresh[flight[t]].got)'
    <3>1. flight' = flight
      OBVIOUS
    <3>2. ASSUME NEW t \in Tab, flight[t] # 0, refresh'[flight[t]].stage = "rotated"
          PROVE  refresh'[flight[t]].got # 0 /\ Unspent(refresh[flight[t]].got)'
      BY <3>1, <3>2, <1>10, <2>1
    <3> QED BY <3>1, <3>2
  <2>3. \A t \in Tab : changed[t] # 0 => Unspent(changed[t])'
    BY <1>10 DEF NextIsUnspent
  <2>4. \A g, h \in DOMAIN refresh :
           refresh'[g].got = refresh'[h].got /\ refresh'[g].got # 0 => g = h
    BY <1>5, <1>6 DEF NextIsUnspent, OnlyIssued
  <2>5. \A t \in Tab, g \in DOMAIN refresh : changed[t] # 0 => changed[t] # refresh'[g].got
    BY <1>5, <1>6 DEF NextIsUnspent, OnlyIssued
  <2> QED BY <1>6, <2>2, <2>3, <2>4, <2>5 DEF NextIsUnspent
<1>13. ReplacedForGood'
  BY <1>6, <1>7 DEF ReplacedForGood, CallsTypeOK
<1> QED BY <1>3, <1>8, <1>9, <1>12, <1>13

LEMMA RotateRotation ==
    ASSUME RotationInvariant, NEW f \in 1 .. Len(refresh), Rotate(f)
    PROVE  RotationInvariant'
<1>1. UNCHANGED <<stored, flight, call, changed, rotatedBy>>
  BY DEF Rotate
<1>2. SessionInvariant'
  BY RotateKeeps DEF RotationInvariant
<1> QED BY <1>1, <1>2, JudgingKeeps, StoringKeeps DEF Rotate, RotationInvariant

----------------------------------------------------------------------------
(* Who hears the end of a flight is the tab whose flight it is, and no     *)
(* call of that tab waits for another.                                     *)
LEMMA HeardIsOwn ==
    ASSUME RotationInvariant, NEW t \in Tab, NEW f, Heard(t, f)
    PROVE  flight[t] = f /\ f # 0
BY DEF Heard, Waits, RotationInvariant, FlightOfTab

LEMMA LandingEndsFlight ==
    ASSUME RotationInvariant, NEW t \in Tab, NEW f, NEW answered \in [Call -> Calls],
           Land(t, f, answered), \A c \in Call : answered[c].stage # "waiting"
    PROVE  /\ flight[t] = f /\ f # 0 /\ flight' = [flight EXCEPT ![t] = 0]
           /\ call' \in [Call -> Calls]
           /\ \A c \in Call : call'[c].stage = "waiting" =>
                 call'[c] = call[c] /\ call[c].tab # t
<1>1. flight[t] = f /\ f # 0
  BY HeardIsOwn DEF Land
<1>2. flight' = [flight EXCEPT ![t] = 0]
  BY <1>1 DEF Land
<1>3. call' \in [Call -> Calls]
  BY DEF Land, RotationInvariant, CallsTypeOK
<1>4. \A c \in Call : call'[c].stage = "waiting" => call'[c] = call[c] /\ call[c].tab # t
  BY <1>1 DEF Land, Waits, RotationInvariant, FlightOfTab
<1> QED BY <1>1, <1>2, <1>3, <1>4

LEMMA RefusedOrLost ==
    ASSUME RotationInvariant, NEW t \in Tab, NEW f \in 1 .. Len(refresh),
           RefreshRefused(t, f) \/ RefreshLost(t, f)
    PROVE  RotationInvariant'
<1> DEFINE answered == [c \in Call |-> NoCall]
<1>1. Land(t, f, answered) /\ UNCHANGED <<owner, refresh, changed, rotatedBy>>
  BY DEF RefreshRefused, RefreshLost, Land, apiTokens
<1>2. answered \in [Call -> Calls] /\ \A c \in Call : answered[c].stage # "waiting"
  BY NoCallType DEF NoCall
<1> HIDE DEF answered
<1>3. /\ flight' = [flight EXCEPT ![t] = 0] /\ call' \in [Call -> Calls]
      /\ \A c \in Call : call'[c].stage = "waiting" => call'[c] = call[c] /\ call[c].tab # t
  BY <1>1, <1>2, LandingEndsFlight
<1>4. CallsTypeOK' /\ FlightOfTab'
  BY <1>1, <1>3, CallsForget
<1>5. stored'.pair \in {stored.pair, 0}
  BY DEF RefreshRefused, RefreshLost, EndSession, SignedOut
<1>6. Forgets
  BY <1>1, <1>3, <1>5 DEF Forgets, RotationInvariant, CallsTypeOK
<1>7. SessionInvariant'
  BY LandingKeeps DEF RotationInvariant
<1> QED BY <1>4, <1>6, <1>7, ForgettingKeeps DEF RotationInvariant

(* The pair a tab stores at the end of its flight was unspent; the pair it *)
(* replaces is presented by that flight, and the flight is over.           *)
LEMMA RotatedRotation ==
    ASSUME RotationInvariant, NEW t \in Tab, NEW f \in 1 .. Len(refresh), Rotated(t, f)
    PROVE  RotationInvariant'
<1> USE DEF RotationInvariant
<1> DEFINE n == refresh[f].got
           k == refresh[f].token
           answered == [c \in Call |-> [stage |-> "retried", tab |-> t, pair |-> n]]
<1>1. /\ refresh[f].stage = "rotated" /\ Land(t, f, answered)
      /\ stored'.pair = n /\ rotatedBy' = [rotatedBy EXCEPT ![k] = @ \cup {t}]
      /\ UNCHANGED <<owner, refresh, changed>>
  BY DEF Rotated, Land, apiTokens, SessionInvariant, SessionTypeOK
<1>2. f \in DOMAIN refresh /\ refresh[f] \in Refresh
  BY FlightsOfRefresh
<1>3. answered \in [Call -> Calls] /\ \A c \in Call : answered[c].stage # "waiting"
  BY <1>2 DEF Refresh, Calls
<1> HIDE DEF answered
<1>4. /\ flight[t] = f /\ f # 0 /\ flight' = [flight EXCEPT ![t] = 0]
      /\ call' \in [Call -> Calls]
      /\ \A c \in Call : call'[c].stage = "waiting" => call'[c] = call[c] /\ call[c].tab # t
  BY <1>1, <1>3, LandingEndsFlight
<1>5. n # 0 /\ Unspent(n)
  BY <1>1, <1>4 DEF NextIsUnspent
<1>6. n \in Issued /\ k \in Issued /\ k \in Pairs /\ k # n
  BY <1>2, <1>5 DEF OnlyIssued, Unspent, Refresh
<1> HIDE DEF n, k
<1>7. \A m \in Pairs : rotatedBy'[m] = IF m = k THEN rotatedBy[m] \cup {t} ELSE rotatedBy[m]
  BY <1>1, <1>6 DEF CallsTypeOK
<1>8. \A s \in Tab : flight'[s] = IF s = t THEN 0 ELSE flight[s]
  BY <1>4 DEF CallsTypeOK
<1>9. Issued' = Issued /\ IssuedInOrder'
  BY <1>1, NoneIssued
<1>10. CallsTypeOK'
  <2>1. rotatedBy' \in [Pairs -> SUBSET Tab]
    BY <1>1, <1>6 DEF CallsTypeOK
  <2>2. flight' \in [Tab -> 0 .. Len(refresh')]
    BY <1>1, <1>4, FlightsOfRefresh DEF CallsTypeOK
  <2> QED BY <1>4, <2>1, <2>2 DEF CallsTypeOK
<1>11. FlightOfTab'
  <2>1. \A c \in Call : call'[c].stage = "waiting" => call[c].tab \in Tab
    BY <1>4, CallTab
  <2> QED BY <1>4, <1>8, <2>1 DEF FlightOfTab
<1>12. OnlyIssued'
  BY <1>1, <1>6, <1>7, <1>9 DEF OnlyIssued
<1>13. \A m \in Pairs : m # n /\ Unspent(m) => Unspent(m)'
  BY <1>1, <1>2, <1>7 DEF Unspent, k
<1>14. NextIsUnspent'
  <2>1. \A s \in Tab : changed[s] # 0 => changed[s] # n /\ changed[s] \in Pairs
    BY <1>2 DEF NextIsUnspent, n, SessionInvariant, SessionTypeOK
  <2>2. \A s \in Tab : changed[s] # 0 => Unspent(changed[s])'
    BY <1>1, <1>13, <2>1 DEF NextIsUnspent
  <2>3. \A s \in Tab : flight'[s] # 0 /\ refresh[flight'[s]].stage = "rotated" =>
           /\ s # t /\ flight'[s] = flight[s] /\ flight[s] \in DOMAIN refresh
           /\ refresh[flight[s]].got # 0 /\ refresh[flight[s]].got \in Pairs
           /\ Unspent(refresh[flight[s]].got) /\ flight[s] # f
    BY <1>4, <1>8, FlightsOfRefresh, IssuedArePairs DEF NextIsUnspent, OnlyIssued, FlightOfTab
  <2>4. \A s \in Tab : flight'[s] # 0 /\ refresh[flight'[s]].stage = "rotated" =>
           refresh[flight[s]].got # n
    BY <1>2, <2>3 DEF NextIsUnspent, n
  <2>5. \A s \in Tab : flight'[s] # 0 /\ refresh'[flight'[s]].stage = "rotated" =>
           refresh'[flight'[s]].got # 0 /\ Unspent(refresh[flight[s]].got)'
    <3>1. \A m \in Pairs : m # n /\ Unspent(m) => Unspent(m)'
      BY <1>13
    <3>2. ASSUME NEW s \in Tab, flight'[s] # 0, refresh'[flight'[s]].stage = "rotated"
          PROVE  refresh'[flight'[s]].got # 0 /\ Unspent(refresh[flight[s]].got)'
      <4>1. /\ refresh' = refresh /\ flight'[s] = flight[s] /\ refresh[flight[s]].got # n
            /\ refresh[flight[s]].got \in Pairs /\ refresh[flight[s]].got # 0
            /\ Unspent(refresh[flight[s]].got)
        BY <1>1, <2>3, <2>4, <3>2
      <4> QED BY <3>1, <4>1
    <3> QED BY <3>2
  <2> QED BY <1>1, <2>2, <2>5 DEF NextIsUnspent
<1>15. ReplacedForGood'
  <2>1. rotatedBy \in [Pairs -> SUBSET Tab]
    BY DEF CallsTypeOK
  <2>2. \A m \in Pairs : \A s \in rotatedBy'[m] : m # n
    BY <1>5, <1>6, <1>7 DEF Unspent
  <2>3. \A m \in Pairs : \A s \in rotatedBy'[m] :
           s \in Tab /\ (flight'[s] # 0 => s # t /\ s \in rotatedBy[m])
    BY <1>7, <1>8, <2>1
  <2> QED BY <1>1, <1>8, <2>2, <2>3 DEF ReplacedForGood
<1>16. SessionInvariant'
  BY LandingKeeps
<1> QED BY <1>9, <1>10, <1>11, <1>12, <1>14, <1>15, <1>16

----------------------------------------------------------------------------
LEMMA RotationNext ==
    RotationInvariant /\ [PortalSessionNext]_sessionVars => RotationInvariant'
BY LoginRotation, LogoutRotation, ChangePasswordRotation, PasswordChangedRotation,
   ReloadRotation, OtherRotation, SendCallRotation, AnswerCallRotation, RotateRotation,
   RotatedRotation, RefusedOrLost
DEF PortalSessionNext

LEMMA RefusedIsNotOwn ==
    ASSUME RotationInvariant, NEW t \in Tab, NEW f \in 1 .. Len(refresh),
           RefreshRefused(t, f)
    PROVE  t \notin rotatedBy[refresh[f].token]
<1>1. flight[t] = f /\ f # 0
  BY HeardIsOwn DEF RefreshRefused, Land
<1>2. refresh[f].token \in Pairs
  BY FlightsOfRefresh DEF Refresh
<1> QED BY <1>1, <1>2 DEF RotationInvariant, ReplacedForGood

(* No tab signs the user out by presenting a refresh token whose successor *)
(* it has itself stored, for every number of tabs, calls and rotations.    *)
THEOREM OwnRotationIsKept == PortalSessionSpec => OwnRotationKeepsSession
<1>1. RotationInvariant =>
         [\A t \in Tab, f \in 1 .. Len(refresh) :
             RefreshRefused(t, f) => t \notin rotatedBy[refresh[f].token]]_sessionVars
  BY RefusedIsNotOwn
<1> QED BY <1>1, RotationInit, RotationNext, PTL
        DEF PortalSessionSpec, OwnRotationKeepsSession
=============================================================================
