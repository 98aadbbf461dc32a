----------------------- MODULE ReportSignaturesProofs -----------------------
(***************************************************************************)
(* Proofs about ReportSignatures, for every set of accounts, handlers,     *)
(* fields and layouts and every bound: no clean-up takes the picture from  *)
(* a field a customer signed, however requests race, nor from any pointer  *)
(* while requests are served one at a time.                                *)
(***************************************************************************)
EXTENDS ReportSignatures, TLAPS, FiniteSetTheorems

RoleSlot == {InspectorSlot, SupervisorSlot}
AnySlot == {"none"} \cup CustomerField \cup SupervisorField \cup RoleSlot
Account == User \cup {Nobody}
AnyStatus == ReportStatus \cup {"none", "DELETED"}

Pointer == [slot : AnySlot, signer : Account, key : Nat, revision : Nat]
Header == [status : AnyStatus, version : Nat, revision : Nat, heldFrom : AnyStatus,
           approver : Account]
StagesOf ==
    [none       |-> {"none"},
     register   |-> {"put", "point", "count", "drop"},
     sign       |-> {"put", "check", "insert", "count", "drop"},
     transition |-> {"write", "freeze", "commit"},
     batch      |-> {"write", "freeze", "commit"},
     export     |-> {"fields", "adopt"}]
AnyStage == UNION {StagesOf[op] : op \in DOMAIN StagesOf}
Job == [op : DOMAIN StagesOf, stage : AnyStage, user : Account, key : Nat, previous : Nat,
        slot : AnySlot, from : AnyStatus, to : AnyStatus, version : Nat, revision : Nat,
        rows : Seq(Pointer)]

SignaturesTypeOK ==
    /\ layout \in Layout
    /\ servers \subseteq Server
    /\ header \in Header
    /\ inspector \in User
    /\ registered \in [User -> Nat]
    /\ frozen \in Seq(Pointer)
    /\ pictures \subseteq Nat
    /\ minted \in Nat
    /\ job \in [Server -> Job]

(* Keys are drawn in order, so what is about was drawn.                    *)
RegistrationsDrawn == \A u \in User : registered[u] <= minted
PointersDrawn == \A i \in DOMAIN frozen : frozen[i].key <= minted

(* Served one at a time: what is registered or pointed at is stored, and   *)
(* no two accounts share a picture.                                        *)
RegistrationsStored ==
    Alone => \A u \in User :
        registered[u] # NoKey =>
            /\ registered[u] \in pictures
            /\ \A v \in User \ {u} : registered[v] # registered[u]
PointersStored == Alone => \A i \in DOMAIN frozen : frozen[i].key \in pictures

NotRegistered(key) == \A u \in User : registered[u] # key
NotFrozen(key) == \A i \in DOMAIN frozen : frozen[i].key # key

(* Pointers a transaction is about to create, none to a field a customer   *)
(* signs.                                                                  *)
SoundRows(rows) ==
    \A i \in DOMAIN rows :
        /\ rows[i].slot \in SupervisorField \cup RoleSlot
        /\ rows[i].key <= minted
        /\ Alone => rows[i].key \in pictures

(* What one request, j, has drawn, read and decided.                       *)
SoundJob(h, j) ==
    /\ j.stage \in StagesOf[j.op]
    /\ h \notin servers => j = Idle
    /\ j.key <= minted /\ j.previous <= minted
    /\ j.op \in {"register", "sign"} => j.key # NoKey
    /\ j.op \in {"register", "transition", "batch"} => j.user \in User
    /\ j.op = "sign" =>
          j.slot \in CustomerField /\ j.previous = NoKey /\ NotRegistered(j.key)
    /\ j.op = "sign" /\ j.stage \in {"check", "insert", "count"} => j.key \in pictures
    /\ SoundRows(j.rows)
    /\ Alone =>
          /\ j.op = "register" => NotRegistered(j.key)
          /\ j.op = "register" /\ j.stage \in {"put", "point"} =>
                j.previous = registered[j.user]
          /\ j.stage = "point" => j.key \in pictures
          /\ j.stage = "drop" => NotFrozen(j.key)
JobOf(h) == SoundJob(h, job[h])

(* The key of a signing is nobody else's.                                  *)
SigningApart ==
    \A h \in Server : job[h].op = "sign" =>
        \A g \in Server \ {h} : job[g].key # job[h].key /\ job[g].previous # job[h].key

(* The picture of a field a customer signed is stored, no registration     *)
(* has ever led to it, and the one request that still knows its key is the *)
(* signing that drew it, about to find the row.                            *)
CustomerRow(i) ==
    LET k == frozen[i].key IN
    /\ k # NoKey
    /\ k \in pictures
    /\ NotRegistered(k)
    /\ \A g \in Server :
          /\ job[g].previous # k
          /\ job[g].key = k => job[g].op = "sign" /\ job[g].stage = "count"

CustomerRows ==
    \A i \in DOMAIN frozen : frozen[i].slot \in CustomerField => CustomerRow(i)

(* The inductive invariant behind FrozenPictureKept.                       *)
PictureInvariant ==
    /\ SignaturesTypeOK
    /\ RegistrationsDrawn
    /\ PointersDrawn
    /\ RegistrationsStored
    /\ PointersStored
    /\ \A h \in Server : JobOf(h)
    /\ SigningApart
    /\ CustomerRows

----------------------------------------------------------------------------
(* Requests, and the pointers a transaction creates.                       *)

LEMMA IdleType == Idle \in Job
<1>1. << >> \in Seq(Pointer)
  OBVIOUS
<1> QED BY <1>1 DEF Idle, Job, StagesOf, AnyStage, Account, AnySlot, AnyStatus, NoKey

(* One handler's request changes.                                          *)
LEMMA JobWrite ==
  ASSUME job \in [Server -> Job], NEW h \in Server, NEW R \in Job,
         job' = [job EXCEPT ![h] = R]
  PROVE  /\ job' \in [Server -> Job]
         /\ job'[h] = R
         /\ \A g \in Server \ {h} : job'[g] = job[g]
OBVIOUS

LEMMA GoWrite ==
  ASSUME job \in [Server -> Job], NEW h \in Server, NEW s \in AnyStage, Go(h, s)
  PROVE  /\ [job[h] EXCEPT !.stage = s] \in Job
         /\ job' = [job EXCEPT ![h] = [job[h] EXCEPT !.stage = s]]
BY DEF Go, Job

(* A sequence made of a finite set enumerates it.                          *)
LEMMA SetToSeqEnumerates ==
  ASSUME NEW S, IsFiniteSet(S)
  PROVE  /\ SetToSeq(S) \in Seq(S)
         /\ S # {} => SetToSeq(S) # << >>
<1> DEFINE n == Cardinality(S)
<1>1. n \in Nat /\ ExistsBijection(1 .. n, S)
  BY FS_CardinalityType
<1>2. \E f \in [1 .. n -> S] : IsInjective(f)
  BY <1>1, Zenon DEF ExistsBijection, Bijection, Injection
<1>3. SetToSeq(S) \in [1 .. n -> S]
  BY <1>2, Zenon DEF SetToSeq
<1>4. S # {} => n # 0
  BY FS_EmptySet
<1> HIDE DEF n
<1> QED BY <1>1, <1>3, <1>4

(* A freeze points at the registration of the account, which it has.       *)
LEMMA FreezeNowPoints ==
  ASSUME SignaturesTypeOK, NEW slots \in SUBSET AnySlot, IsFiniteSet(slots),
         NEW user \in User, NEW revision \in Nat
  PROVE  /\ FreezeNow(slots, user, revision) \in Seq(Pointer)
         /\ \A i \in DOMAIN FreezeNow(slots, user, revision) :
               /\ FreezeNow(slots, user, revision)[i].slot \in slots
               /\ FreezeNow(slots, user, revision)[i].key = registered[user]
               /\ registered[user] # NoKey
<1> DEFINE Made(s) == [slot |-> s, signer |-> user, key |-> registered[user],
                       revision |-> revision]
           S == {Made(s) : s \in slots}
           f == [s \in slots |-> Made(s)]
<1>1. f \in Surjection(slots, S)
  BY DEF Surjection
<1>2. IsFiniteSet(S)
  BY <1>1, FS_Surjection
<1>3. SetToSeq(S) \in Seq(S)
  BY <1>2, SetToSeqEnumerates
<1>4. S \subseteq Pointer
  BY DEF Pointer, SignaturesTypeOK, Account
<1>5. \A r \in S : r.slot \in slots /\ r.key = registered[user]
  OBVIOUS
<1>6. FreezeNow(slots, user, revision) =
        IF registered[user] = NoKey THEN << >> ELSE SetToSeq(S)
  BY DEF FreezeNow
<1> HIDE DEF S
<1> QED BY <1>3, <1>4, <1>5, <1>6

----------------------------------------------------------------------------
(* Steps that change one request and nothing else.                         *)

LEMMA QuietStep ==
  ASSUME PictureInvariant, NEW h \in Server, NEW R \in Job,
         job' = [job EXCEPT ![h] = R],
         UNCHANGED <<fixedVars, header, inspector, registered, frozen, pictures, minted>>,
         SoundJob(h, R),
         R.op = "sign" => job[h].op = "sign" /\ R.key = job[h].key,
         R.previous \in {NoKey, job[h].previous},
         \/ R.key = NoKey
         \/ R.key = job[h].key /\ (job[h].stage # "count" \/ NotFrozen(R.key))
  PROVE  PictureInvariant'
<1> USE DEF PictureInvariant
<1>1. /\ job \in [Server -> Job] /\ job' \in [Server -> Job]
      /\ job'[h] = R /\ \A g \in Server \ {h} : job'[g] = job[g]
  BY JobWrite DEF SignaturesTypeOK
<1>2. SignaturesTypeOK'
  BY <1>1 DEF SignaturesTypeOK, fixedVars
<1>3. /\ RegistrationsDrawn' /\ PointersDrawn' /\ RegistrationsStored' /\ PointersStored'
      /\ Alone' = Alone
  BY DEF RegistrationsDrawn, PointersDrawn, RegistrationsStored, PointersStored, Alone,
         fixedVars
<1>5. ASSUME NEW g \in Server PROVE JobOf(g)'
  <2>1. SoundJob(g, job'[g])
    BY <1>1 DEF JobOf
  <2> QED BY <2>1, <1>3 DEF JobOf, SoundJob, SoundRows, NotRegistered, NotFrozen, fixedVars
<1>6. SigningApart'
  <2>1. \A g \in Server : job[g].op = "sign" => job[g].key # NoKey
    BY DEF JobOf, SoundJob
  <2> QED BY <1>1, <2>1 DEF SigningApart
<1>7. CustomerRows'
  <2> SUFFICES ASSUME NEW i \in DOMAIN frozen, frozen[i].slot \in CustomerField
               PROVE  CustomerRow(i)'
    BY DEF CustomerRows
  <2>1. CustomerRow(i)
    BY DEF CustomerRows
  <2>2. job[h].key = frozen[i].key => job[h].stage = "count"
    BY <2>1 DEF CustomerRow
  <2>3. R.key # frozen[i].key
    BY <2>1, <2>2 DEF CustomerRow, NotFrozen
  <2> QED BY <1>1, <2>1, <2>3 DEF CustomerRow, NotRegistered
<1> QED BY <1>2, <1>3, <1>5, <1>6, <1>7

LEMMA IdleIsSound ==
  ASSUME PictureInvariant, NEW h \in Server
  PROVE  SoundJob(h, Idle)
BY DEF SoundJob, SoundRows, Idle, StagesOf, NoKey, PictureInvariant, SignaturesTypeOK

(* A request that is over, or forgotten, leaves nothing behind.            *)
LEMMA DoneStep ==
  ASSUME PictureInvariant, NEW h \in Server, Done(h),
         UNCHANGED <<fixedVars, header, inspector, registered, frozen, pictures, minted>>
  PROVE  PictureInvariant'
<1>1. Idle.op # "sign" /\ Idle.key = NoKey /\ Idle.previous = NoKey
  BY DEF Idle
<1> QED BY <1>1, IdleType, IdleIsSound, QuietStep DEF Done

LEMMA StageNames ==
  /\ {"register", "sign", "transition", "batch", "export"} \subseteq DOMAIN StagesOf
  /\ \A op \in DOMAIN StagesOf : StagesOf[op] \subseteq AnyStage
  /\ {"put", "write", "fields"} \subseteq AnyStage
BY DEF StagesOf, AnyStage

LEMMA StagesFollow ==
  ASSUME NEW op \in DOMAIN StagesOf
  PROVE  /\ "count" \in StagesOf[op] => "drop" \in StagesOf[op]
         /\ "write" \in StagesOf[op] => op \in {"transition", "batch"}
         /\ "write" \in StagesOf[op] => {"freeze", "commit"} \subseteq StagesOf[op]
         /\ {"freeze", "commit"} \cap StagesOf[op] # {} => op \in {"transition", "batch"}
         /\ "put" \in StagesOf[op] => op \in {"register", "sign"}
BY DEF StagesOf

(* What the invariant says of one request.                                 *)
LEMMA JobIsSound ==
  ASSUME PictureInvariant, NEW h \in Server
  PROVE  /\ job \in [Server -> Job] /\ job[h] \in Job /\ job[h].op \in DOMAIN StagesOf
         /\ job[h].stage \in StagesOf[job[h].op]
         /\ SoundJob(h, job[h])
         /\ job[h].stage # "none" => h \in servers
BY DEF PictureInvariant, SignaturesTypeOK, JobOf, SoundJob, Job, Idle

(* A request moves on to another stage of its operation.                   *)
LEMMA GoStep ==
  ASSUME PictureInvariant, NEW h \in Server, NEW s, Go(h, s),
         UNCHANGED <<fixedVars, header, inspector, registered, frozen, pictures, minted>>,
         h \in servers, s \in StagesOf[job[h].op], s \notin {"put", "point"},
         job[h].op = "sign" /\ s \in {"check", "insert", "count"} =>
            job[h].key \in pictures,
         s = "drop" => NotFrozen(job[h].key),
         job[h].stage # "count" \/ NotFrozen(job[h].key)
  PROVE  PictureInvariant'
<1> DEFINE R == [job[h] EXCEPT !.stage = s]
<1>1. job \in [Server -> Job] /\ job[h] \in Job /\ s \in AnyStage
  BY DEF PictureInvariant, SignaturesTypeOK, Job, AnyStage
<1>2. R \in Job /\ job' = [job EXCEPT ![h] = R]
  BY <1>1, GoWrite
<1>3. /\ R.op = job[h].op /\ R.stage = s /\ R.user = job[h].user /\ R.key = job[h].key
      /\ R.previous = job[h].previous /\ R.slot = job[h].slot /\ R.rows = job[h].rows
  BY <1>1 DEF Job
<1>4. SoundJob(h, job[h])
  BY DEF PictureInvariant, JobOf
<1> HIDE DEF R
<1>5. SoundJob(h, R)
  BY <1>3, <1>4 DEF SoundJob
<1>6. R.op = "sign" => job[h].op = "sign" /\ R.key = job[h].key
  BY <1>3
<1>7. R.previous \in {NoKey, job[h].previous}
  BY <1>3
<1>8. \/ R.key = NoKey
      \/ R.key = job[h].key /\ (job[h].stage # "count" \/ NotFrozen(R.key))
  BY <1>3
<1> QED BY <1>2, <1>5, <1>6, <1>7, <1>8, QuietStep

(* A request that touches no picture begins.                               *)
LEMMA BeginStep ==
  ASSUME PictureInvariant, NEW h \in Server, NEW R \in Job,
         job' = [job EXCEPT ![h] = R],
         UNCHANGED <<fixedVars, header, inspector, registered, frozen, pictures, minted>>,
         h \in servers, R.op \in {"transition", "batch", "export"},
         R.stage \in StagesOf[R.op] \ {"drop", "point"},
         R.op # "export" => R.user \in User,
         R.key = NoKey, R.previous = NoKey, R.rows = << >>
  PROVE  PictureInvariant'
<1>1. SoundJob(h, R)
  BY DEF SoundJob, SoundRows, PictureInvariant, SignaturesTypeOK, NoKey
<1>2. R.op # "sign" /\ R.previous \in {NoKey, job[h].previous}
  OBVIOUS
<1> QED BY <1>1, <1>2, QuietStep

LEMMA BeginTransitionStep ==
  ASSUME PictureInvariant, NEW h \in Server, NEW u \in User, NEW to \in ReportStatus,
         BeginTransition(h, u, to)
  PROVE  PictureInvariant'
<1> DEFINE R == [Idle EXCEPT !.op = "transition", !.stage = "write", !.user = u,
                             !.from = header.status, !.to = to,
                             !.version = header.version, !.revision = header.revision]
<1>1. /\ header.status \in AnyStatus /\ to \in AnyStatus /\ header.version \in Nat
      /\ header.revision \in Nat /\ u \in Account
  BY DEF PictureInvariant, SignaturesTypeOK, Header, AnyStatus, Account
<1>2. R \in Job
  BY <1>1, IdleType, StageNames DEF Job
<1>3. R.op = "transition" /\ R.stage = "write" /\ R.key = NoKey /\ R.previous = NoKey
      /\ R.rows = << >> /\ (R.op # "export" => R.user \in User)
  BY DEF Idle
<1>4. /\ h \in servers /\ job' = [job EXCEPT ![h] = R]
      /\ UNCHANGED <<fixedVars, header, inspector, registered, frozen, pictures, minted>>
  BY Zenon DEF BeginTransition, Serves
<1> HIDE DEF R
<1>5. R.op \in {"transition", "batch", "export"} /\ R.stage \in StagesOf[R.op] \ {"drop", "point"}
  BY <1>3 DEF StagesOf
<1> QED BY <1>2, <1>3, <1>4, <1>5, BeginStep

LEMMA BeginBatchApprovalStep ==
  ASSUME PictureInvariant, NEW h \in Server, NEW u \in User, BeginBatchApproval(h, u)
  PROVE  PictureInvariant'
<1> DEFINE R == [Idle EXCEPT !.op = "batch", !.stage = "write", !.user = u,
                             !.from = header.status, !.to = "APPROVED",
                             !.version = header.version, !.revision = header.revision]
<1>1. /\ header.status \in AnyStatus /\ "APPROVED" \in AnyStatus
      /\ header.version \in Nat /\ header.revision \in Nat /\ u \in Account
  BY DEF PictureInvariant, SignaturesTypeOK, Header, AnyStatus, Account, ReportStatus
<1>2. R \in Job
  BY <1>1, IdleType, StageNames DEF Job
<1>3. R.op = "batch" /\ R.stage = "write" /\ R.key = NoKey /\ R.previous = NoKey
      /\ R.rows = << >> /\ (R.op # "export" => R.user \in User)
  BY DEF Idle
<1>4. /\ h \in servers /\ job' = [job EXCEPT ![h] = R]
      /\ UNCHANGED <<fixedVars, header, inspector, registered, frozen, pictures, minted>>
  BY Zenon DEF BeginBatchApproval, Serves
<1> HIDE DEF R
<1>5. R.op \in {"transition", "batch", "export"} /\ R.stage \in StagesOf[R.op] \ {"drop", "point"}
  BY <1>3 DEF StagesOf
<1> QED BY <1>2, <1>3, <1>4, <1>5, BeginStep

LEMMA BeginExportStep ==
  ASSUME PictureInvariant, NEW h \in Server, BeginExport(h)
  PROVE  PictureInvariant'
<1> DEFINE R == [Idle EXCEPT !.op = "export", !.stage = "fields",
                             !.revision = header.revision]
<1>1. header.revision \in Nat
  BY DEF PictureInvariant, SignaturesTypeOK, Header
<1>2. R \in Job
  BY <1>1, IdleType, StageNames DEF Job
<1>3. R.op = "export" /\ R.stage = "fields" /\ R.key = NoKey /\ R.previous = NoKey
      /\ R.rows = << >> /\ (R.op # "export" => R.user \in User)
  BY DEF Idle
<1>4. /\ h \in servers /\ job' = [job EXCEPT ![h] = R]
      /\ UNCHANGED <<fixedVars, header, inspector, registered, frozen, pictures, minted>>
  BY Zenon DEF BeginExport, Serves
<1> HIDE DEF R
<1>5. R.op \in {"transition", "batch", "export"} /\ R.stage \in StagesOf[R.op] \ {"drop", "point"}
  BY <1>3 DEF StagesOf
<1> QED BY <1>2, <1>3, <1>4, <1>5, BeginStep

LEMMA CheckUnsignedStep ==
  ASSUME PictureInvariant, NEW h \in Server, CheckUnsigned(h)
  PROVE  PictureInvariant'
<1> DEFINE R == [job[h] EXCEPT !.stage = "insert", !.revision = header.revision]
<1>1. /\ job \in [Server -> Job] /\ job[h] \in Job /\ header.revision \in Nat
      /\ SoundJob(h, job[h]) /\ h \in servers
      /\ job[h].op = "sign" /\ job[h].stage = "check" /\ job[h].key \in pictures
  <2>1. SoundJob(h, job[h]) /\ job[h].op = "sign" /\ job[h].stage = "check"
    BY DEF PictureInvariant, JobOf, CheckUnsigned, At
  <2> QED BY <2>1, JobIsSound DEF PictureInvariant, SignaturesTypeOK, Header, SoundJob
<1>2. UNCHANGED <<fixedVars, header, inspector, registered, frozen, pictures, minted>>
  BY DEF CheckUnsigned
<1>3. CASE job' = [job EXCEPT ![h] = R]
  <2>1. R \in Job
    BY <1>1, StageNames DEF Job, StagesOf
  <2>2. /\ R.op = job[h].op /\ R.stage = "insert" /\ R.user = job[h].user
        /\ R.key = job[h].key /\ R.previous = job[h].previous /\ R.slot = job[h].slot
        /\ R.rows = job[h].rows
    BY <1>1 DEF Job
  <2> HIDE DEF R
  <2>3. SoundJob(h, R)
    BY <1>1, <2>2 DEF SoundJob, StagesOf
  <2>4. R.key = job[h].key /\ (job[h].stage # "count" \/ NotFrozen(R.key))
    BY <1>1, <2>2
  <2> QED BY <1>1, <1>2, <1>3, <2>1, <2>2, <2>3, <2>4, QuietStep
<1>4. CASE Go(h, "count")
  <2>1. "count" \in StagesOf[job[h].op]
    BY <1>1 DEF StagesOf
  <2> QED BY <1>1, <1>2, <1>4, <2>1, GoStep
<1> QED BY <1>1, <1>3, <1>4 DEF CheckUnsigned, Job

LEMMA CountPointersStep ==
  ASSUME PictureInvariant, NEW h \in Server, CountPointers(h)
  PROVE  PictureInvariant'
<1>1. SoundJob(h, job[h]) /\ job[h].stage = "count" /\ h \in servers
  <2>1. SoundJob(h, job[h]) /\ job[h].stage = "count"
    BY DEF PictureInvariant, JobOf, CountPointers
  <2> QED BY <2>1, JobIsSound
<1>2. UNCHANGED <<fixedVars, header, inspector, registered, frozen, pictures, minted>>
  BY DEF CountPointers
<1>3. CASE Done(h)
  BY <1>2, <1>3, DoneStep
<1>4. CASE Go(h, "drop") /\ NotFrozen(job[h].key)
  <2>1. "drop" \in StagesOf[job[h].op]
    BY <1>1, JobIsSound, StagesFollow
  <2> QED BY <1>1, <1>2, <1>4, <2>1, GoStep
<1> QED BY <1>3, <1>4 DEF CountPointers, NotFrozen

LEMMA WriteReportStep ==
  ASSUME PictureInvariant, NEW h \in Server, WriteReport(h)
  PROVE  PictureInvariant'
<1>1. SoundJob(h, job[h]) /\ job[h].stage = "write" /\ h \in servers
  <2>1. SoundJob(h, job[h]) /\ job[h].stage = "write"
    BY DEF PictureInvariant, JobOf, WriteReport
  <2> QED BY <2>1, JobIsSound
<1>2. UNCHANGED <<fixedVars, header, inspector, registered, frozen, pictures, minted>>
  BY DEF WriteReport
<1>3. CASE Done(h)
  BY <1>2, <1>3, DoneStep
<1>4. CASE Go(h, "freeze")
  <2>1. "freeze" \in StagesOf[job[h].op]
    BY <1>1, JobIsSound, StagesFollow
  <2> QED BY <1>1, <1>2, <1>4, <2>1, GoStep
<1> QED BY <1>3, <1>4 DEF WriteReport

LEMMA FinishExportStep ==
  ASSUME PictureInvariant, NEW h \in Server, FinishExport(h)
  PROVE  PictureInvariant'
BY DoneStep DEF FinishExport

(* The pointers a freeze makes.                                            *)
LEMMA FreezeNowSound ==
  ASSUME PictureInvariant, NEW slots \in SUBSET (SupervisorField \cup RoleSlot),
         IsFiniteSet(slots), NEW user \in User, NEW revision \in Nat
  PROVE  /\ FreezeNow(slots, user, revision) \in Seq(Pointer)
         /\ SoundRows(FreezeNow(slots, user, revision))
<1> DEFINE rows == FreezeNow(slots, user, revision)
<1>1. slots \in SUBSET AnySlot
  BY DEF AnySlot
<1>2. /\ rows \in Seq(Pointer)
      /\ \A i \in DOMAIN rows : /\ rows[i].slot \in slots
                                /\ rows[i].key = registered[user]
                                /\ registered[user] # NoKey
  BY <1>1, FreezeNowPoints DEF PictureInvariant
<1>3. /\ registered[user] <= minted
      /\ Alone /\ registered[user] # NoKey => registered[user] \in pictures
  BY DEF PictureInvariant, RegistrationsDrawn, RegistrationsStored
<1> HIDE DEF rows
<1>4. SoundRows(rows)
  BY <1>2, <1>3 DEF SoundRows
<1> QED BY <1>2, <1>4 DEF rows

LEMMA RowsConcatenate ==
  ASSUME NEW a \in Seq(Pointer), NEW b \in Seq(Pointer), SoundRows(a), SoundRows(b)
  PROVE  a \o b \in Seq(Pointer) /\ SoundRows(a \o b)
<1>1. \A i \in DOMAIN (a \o b) :
        \/ i \in DOMAIN a /\ (a \o b)[i] = a[i]
        \/ i - Len(a) \in DOMAIN b /\ (a \o b)[i] = b[i - Len(a)]
  OBVIOUS
<1> QED BY <1>1 DEF SoundRows

(* A transaction or an export has made its pointers.                       *)
LEMMA RowsStep ==
  ASSUME PictureInvariant, NEW h \in Server, NEW s \in {"commit", "adopt"},
         NEW rows \in Seq(Pointer), SoundRows(rows),
         job' = [job EXCEPT ![h].stage = s, ![h].rows = rows],
         UNCHANGED <<fixedVars, header, inspector, registered, frozen, pictures, minted>>,
         job[h].stage \in {"freeze", "fields"}, s \in StagesOf[job[h].op]
  PROVE  PictureInvariant'
<1> DEFINE R == [job[h] EXCEPT !.stage = s, !.rows = rows]
<1>1. /\ job \in [Server -> Job] /\ job[h] \in Job /\ job[h].op \in DOMAIN StagesOf
      /\ SoundJob(h, job[h]) /\ h \in servers
  BY JobIsSound
<1>2. job' = [job EXCEPT ![h] = R]
  BY <1>1
<1>3. R \in Job
  BY <1>1, StageNames DEF Job
<1>4. /\ R.op = job[h].op /\ R.stage = s /\ R.user = job[h].user /\ R.key = job[h].key
      /\ R.previous = job[h].previous /\ R.slot = job[h].slot /\ R.rows = rows
  BY <1>1 DEF Job
<1> HIDE DEF R
<1>5. SoundJob(h, R)
  BY <1>1, <1>4 DEF SoundJob
<1>6. R.key = job[h].key /\ (job[h].stage # "count" \/ NotFrozen(R.key))
  BY <1>4
<1> QED BY <1>2, <1>3, <1>4, <1>5, <1>6, QuietStep

LEMMA FreezeInTransactionStep ==
  ASSUME PictureInvariant, NEW h \in Server, FreezeInTransaction(h)
  PROVE  PictureInvariant'
<1> DEFINE submits == job[h].op = "transition" /\ job[h].to = "PENDING_APPROVAL"
           a == IF submits THEN FreezeNow({InspectorSlot}, inspector, 0) ELSE << >>
           b == IF Approves(h) THEN FreezeNow(ApprovalSlots, job[h].user, RevisionTagged(h))
                ELSE << >>
<1>1. /\ job[h].stage = "freeze"
      /\ Done(h) \/ job' = [job EXCEPT ![h].stage = "commit", ![h].rows = a \o b]
      /\ UNCHANGED <<fixedVars, header, inspector, registered, frozen, pictures, minted>>
  BY Zenon DEF FreezeInTransaction
<1>2. /\ job[h].op \in {"transition", "batch"} /\ job[h].user \in User
      /\ "commit" \in StagesOf[job[h].op] /\ job[h] \in Job
  <2>1. job[h].op \in DOMAIN StagesOf /\ "freeze" \in StagesOf[job[h].op]
        /\ SoundJob(h, job[h]) /\ job[h] \in Job
    BY <1>1, JobIsSound
  <2>2. job[h].op \in {"transition", "batch"}
    BY <2>1, StagesFollow
  <2> QED BY <2>1, <2>2 DEF SoundJob, StagesOf
<1>3. << >> \in Seq(Pointer) /\ SoundRows(<< >>)
  BY DEF SoundRows
<1>4. a \in Seq(Pointer) /\ SoundRows(a)
  <2>1. /\ {InspectorSlot} \in SUBSET (SupervisorField \cup RoleSlot)
        /\ IsFiniteSet({InspectorSlot}) /\ inspector \in User /\ 0 \in Nat
    BY FS_Singleton DEF RoleSlot, PictureInvariant, SignaturesTypeOK
  <2>2. /\ FreezeNow({InspectorSlot}, inspector, 0) \in Seq(Pointer)
        /\ SoundRows(FreezeNow({InspectorSlot}, inspector, 0))
    BY <2>1, FreezeNowSound
  <2> QED BY <1>3, <2>2
<1>5. b \in Seq(Pointer) /\ SoundRows(b)
  <2>1. ApprovalSlots \in SUBSET (SupervisorField \cup RoleSlot)
    BY DEF ApprovalSlots, RoleSlot
  <2>2. IsFiniteSet(ApprovalSlots)
    <3>1. IsFiniteSet({SupervisorSlot})
      BY FS_Singleton
    <3>2. layout.slots \cap {SupervisorSlot} \in SUBSET {SupervisorSlot}
      OBVIOUS
    <3>3. IsFiniteSet(layout.slots \cap {SupervisorSlot})
      BY <3>1, <3>2, FS_Subset
    <3> QED BY <3>3, FS_Union, SignatureAssumption DEF ApprovalSlots
  <2>3. RevisionTagged(h) \in Nat
    <3>1. header.revision \in Nat
      BY DEF PictureInvariant, SignaturesTypeOK, Header
    <3> QED BY <3>1 DEF RevisionTagged, RevisionAfter
  <2>4. /\ FreezeNow(ApprovalSlots, job[h].user, RevisionTagged(h)) \in Seq(Pointer)
        /\ SoundRows(FreezeNow(ApprovalSlots, job[h].user, RevisionTagged(h)))
    BY <1>2, <2>1, <2>2, <2>3, FreezeNowSound
  <2> QED BY <1>3, <2>4
<1> HIDE DEF a, b
<1>6. a \o b \in Seq(Pointer) /\ SoundRows(a \o b)
  BY <1>4, <1>5, RowsConcatenate
<1>7. CASE Done(h)
  BY <1>1, <1>7, DoneStep
<1>8. CASE job' = [job EXCEPT ![h].stage = "commit", ![h].rows = a \o b]
  <2> DEFINE rows == a \o b
  <2>1. job' = [job EXCEPT ![h].stage = "commit", ![h].rows = rows]
    BY <1>8
  <2>2. rows \in Seq(Pointer) /\ SoundRows(rows)
    BY <1>6
  <2> HIDE DEF rows
  <2> QED BY <1>1, <1>2, <2>1, <2>2, RowsStep
<1> QED BY <1>1, <1>7, <1>8

LEMMA AdoptSignatureStep ==
  ASSUME PictureInvariant, NEW h \in Server, AdoptSignature(h)
  PROVE  PictureInvariant'
<1>1. PICK f \in SupervisorField :
        /\ At(h, "export", "fields") /\ Adoptable(h, f)
        /\ job' = [job EXCEPT ![h].stage = "adopt",
                              ![h].rows = FreezeNow({f}, header.approver, job[h].revision)]
        /\ UNCHANGED <<fixedVars, header, inspector, registered, frozen, pictures, minted>>
  BY Zenon DEF AdoptSignature
<1> DEFINE rows == FreezeNow({f}, header.approver, job[h].revision)
<1>2. job[h].op = "export" /\ job[h].stage = "fields" /\ "adopt" \in StagesOf[job[h].op]
  BY <1>1 DEF At, StagesOf
<1>3. job[h].revision \in Nat
  BY JobIsSound DEF Job
<1>4. header.approver \in User
  BY <1>1 DEF Adoptable, PictureInvariant, SignaturesTypeOK, Header, Account
<1>5. {f} \in SUBSET (SupervisorField \cup RoleSlot) /\ IsFiniteSet({f})
  BY FS_Singleton
<1>6. rows \in Seq(Pointer) /\ SoundRows(rows)
  BY <1>3, <1>4, <1>5, FreezeNowSound
<1> HIDE DEF rows
<1>7. job' = [job EXCEPT ![h].stage = "adopt", ![h].rows = rows]
  BY <1>1 DEF rows
<1> QED BY <1>1, <1>2, <1>6, <1>7, RowsStep

----------------------------------------------------------------------------
(* Steps that create and remove pointers.                                  *)

(* Served one at a time, no other request is about.                        *)
LEMMA AloneIsOne ==
  ASSUME PictureInvariant, Alone, NEW h \in Server, h \in servers,
         NEW g \in Server \ {h}
  PROVE  job[g] = Idle
<1>1. g \notin servers
  BY DEF Alone
<1> QED BY <1>1 DEF PictureInvariant, JobOf, SoundJob

(* Pointers to fields no customer signs are created.                       *)
LEMMA AppendStep ==
  ASSUME PictureInvariant, NEW h \in Server, NEW R \in Job, NEW rows \in Seq(Pointer),
         SoundRows(rows), SoundJob(h, R), job' = [job EXCEPT ![h] = R],
         frozen' = frozen \o rows, header' \in Header,
         UNCHANGED <<fixedVars, inspector, registered, pictures, minted>>,
         h \in servers, R.op # "sign", R.stage # "drop", job[h].stage # "count",
         R.key \in {NoKey, job[h].key}, R.previous \in {NoKey, job[h].previous}
  PROVE  PictureInvariant'
<1> USE DEF PictureInvariant
<1>1. /\ job \in [Server -> Job] /\ job' \in [Server -> Job]
      /\ job'[h] = R /\ \A g \in Server \ {h} : job'[g] = job[g]
  BY JobWrite DEF SignaturesTypeOK
<1>2. /\ Alone' = Alone /\ servers' = servers /\ layout' = layout
      /\ registered' = registered /\ pictures' = pictures /\ minted' = minted
  BY DEF Alone, fixedVars
<1>3. /\ frozen' \in Seq(Pointer)
      /\ \A i \in DOMAIN frozen' :
            \/ i \in DOMAIN frozen /\ frozen'[i] = frozen[i]
            \/ \E n \in DOMAIN rows : frozen'[i] = rows[n]
  <2>1. frozen \in Seq(Pointer)
    BY DEF SignaturesTypeOK
  <2>2. \A i \in DOMAIN (frozen \o rows) :
          \/ i \in DOMAIN frozen /\ (frozen \o rows)[i] = frozen[i]
          \/ i - Len(frozen) \in DOMAIN rows
             /\ (frozen \o rows)[i] = rows[i - Len(frozen)]
    BY <2>1
  <2> QED BY <2>1, <2>2
<1>4. SignaturesTypeOK'
  BY <1>1, <1>2, <1>3 DEF SignaturesTypeOK
<1>5. RegistrationsDrawn' /\ RegistrationsStored'
  BY <1>2 DEF RegistrationsDrawn, RegistrationsStored
<1>6. PointersDrawn' /\ PointersStored'
  BY <1>2, <1>3 DEF PointersDrawn, PointersStored, SoundRows
<1>7. ASSUME NEW g \in Server PROVE JobOf(g)'
  <2>1. SoundJob(g, job'[g])
    BY <1>1 DEF JobOf
  <2>2. Alone => job'[g].stage # "drop"
    <3>1. CASE g = h
      BY <1>1, <3>1
    <3>2. CASE g # h
      BY <1>1, <3>2, AloneIsOne DEF Idle
    <3> QED BY <3>1, <3>2
  <2> QED BY <2>1, <2>2, <1>2 DEF JobOf, SoundJob, SoundRows, NotRegistered
<1>8. SigningApart'
  <2>1. \A g \in Server : job[g].op = "sign" => job[g].key # NoKey
    BY DEF JobOf, SoundJob
  <2> QED BY <1>1, <2>1 DEF SigningApart
<1>9. CustomerRows'
  <2> SUFFICES ASSUME NEW i \in DOMAIN frozen', frozen'[i].slot \in CustomerField
               PROVE  CustomerRow(i)'
    BY DEF CustomerRows
  <2>1. i \in DOMAIN frozen /\ frozen'[i] = frozen[i]
    BY <1>3, SignatureAssumption DEF SoundRows, RoleSlot
  <2>2. CustomerRow(i)
    BY <2>1 DEF CustomerRows
  <2>3. R.key # frozen[i].key
    BY <2>2 DEF CustomerRow
  <2> QED BY <1>1, <1>2, <2>1, <2>2, <2>3 DEF CustomerRow, NotRegistered
<1> QED BY <1>4, <1>5, <1>6, <1>7, <1>8, <1>9

LEMMA CommitReportStep ==
  ASSUME PictureInvariant, NEW h \in Server, CommitReport(h)
  PROVE  PictureInvariant'
<1>1. /\ job[h] \in Job /\ SoundJob(h, job[h]) /\ h \in servers
      /\ job[h].op \in DOMAIN StagesOf /\ "commit" \in StagesOf[job[h].op]
      /\ job[h].stage = "commit"
  BY JobIsSound DEF CommitReport
<1>2. job[h].user \in User
  BY <1>1, StagesFollow DEF SoundJob
<1>3. header \in Header
  BY DEF PictureInvariant, SignaturesTypeOK
<1>4. RevisionAfter(h) \in Nat
  BY <1>3 DEF RevisionAfter, Header
<1>5. header' \in Header
  BY <1>1, <1>2, <1>3, <1>4 DEF CommitReport, Header, Job, Account
<1>6. job[h].rows \in Seq(Pointer) /\ SoundRows(job[h].rows)
  BY <1>1 DEF Job, SoundJob
<1>7. /\ frozen' = frozen \o job[h].rows /\ job' = [job EXCEPT ![h] = Idle]
      /\ UNCHANGED <<fixedVars, inspector, registered, pictures, minted>>
  BY DEF CommitReport, Done
<1>8. Idle.op # "sign" /\ Idle.stage # "drop" /\ Idle.key = NoKey /\ Idle.previous = NoKey
  BY DEF Idle
<1> QED BY <1>1, <1>5, <1>6, <1>7, <1>8, IdleType, IdleIsSound, AppendStep

LEMMA InsertAdoptedStep ==
  ASSUME PictureInvariant, NEW h \in Server, InsertAdopted(h)
  PROVE  PictureInvariant'
<1>1. /\ job \in [Server -> Job] /\ job[h] \in Job /\ SoundJob(h, job[h]) /\ h \in servers
      /\ job[h].op = "export" /\ job[h].stage = "adopt"
  BY JobIsSound DEF InsertAdopted, At
<1>2. CASE ~Exists
  BY <1>2, DoneStep DEF InsertAdopted
<1>3. CASE Exists
  <2> DEFINE R == [job[h] EXCEPT !.stage = "fields"]
  <2>1. R \in Job /\ job' = [job EXCEPT ![h] = R]
    BY <1>1, <1>3, GoWrite, StageNames DEF InsertAdopted
  <2>2. /\ R.op = "export" /\ R.stage = "fields" /\ R.user = job[h].user
        /\ R.key = job[h].key /\ R.previous = job[h].previous /\ R.slot = job[h].slot
        /\ R.rows = job[h].rows
    BY <1>1 DEF Job
  <2>3. /\ frozen' = frozen \o job[h].rows
        /\ UNCHANGED <<fixedVars, inspector, registered, pictures, minted>>
        /\ header' \in Header
    BY <1>3 DEF InsertAdopted, PictureInvariant, SignaturesTypeOK
  <2>4. job[h].rows \in Seq(Pointer) /\ SoundRows(job[h].rows)
    BY <1>1 DEF Job, SoundJob
  <2> HIDE DEF R
  <2>5. SoundJob(h, R)
    BY <1>1, <2>2 DEF SoundJob, StagesOf
  <2> QED BY <1>1, <2>1, <2>2, <2>3, <2>4, <2>5, AppendStep
<1> QED BY <1>2, <1>3

(* The row of a customer's field: nobody but its signing knows the key.    *)
LEMMA InsertSignedStep ==
  ASSUME PictureInvariant, NEW h \in Server, InsertSigned(h)
  PROVE  PictureInvariant'
<1>1. /\ job \in [Server -> Job] /\ job[h] \in Job /\ SoundJob(h, job[h]) /\ h \in servers
      /\ job[h].op = "sign" /\ job[h].stage = "insert"
      /\ "count" \in StagesOf[job[h].op] /\ "count" \in AnyStage
  BY JobIsSound, StageNames DEF InsertSigned, At, StagesOf
<1>2. /\ job[h].key \in pictures /\ job[h].key # NoKey /\ job[h].previous = NoKey
      /\ job[h].slot \in CustomerField /\ NotRegistered(job[h].key)
  BY <1>1 DEF SoundJob
<1>3. CASE UNCHANGED frozen
  <2>1. Go(h, "count")
        /\ UNCHANGED <<fixedVars, header, inspector, registered, frozen, pictures, minted>>
    <3>1. CASE Go(h, "count")
      BY <1>3, <3>1 DEF InsertSigned
    <3>2. CASE /\ frozen' = Append(frozen, [slot |-> job[h].slot, signer |-> job[h].user,
                                    key |-> job[h].key, revision |-> job[h].revision])
               /\ Done(h)
      <4>1. frozen \in Seq(Pointer)
        BY DEF PictureInvariant, SignaturesTypeOK
      <4>2. Len(frozen') = Len(frozen) + 1
        BY <3>2, <4>1
      <4> QED BY <1>3, <4>1, <4>2
    <3> QED BY <3>1, <3>2 DEF InsertSigned
  <2> QED BY <1>1, <1>2, <2>1, GoStep
<1>4. CASE frozen' # frozen
  <2> DEFINE row == [slot |-> job[h].slot, signer |-> job[h].user,
                     key |-> job[h].key, revision |-> job[h].revision]
  <2>1. /\ frozen' = Append(frozen, row)
        /\ Done(h) \/ Go(h, "count")
        /\ UNCHANGED <<fixedVars, header, inspector, registered, pictures, minted>>
    BY <1>4 DEF InsertSigned
  <2>2. row \in Pointer /\ row.slot \in CustomerField /\ row.key = job[h].key
    BY <1>1, <1>2 DEF Pointer, Job, AnySlot
  <2> HIDE DEF row
  <2>3. PICK R \in Job :
          /\ job' = [job EXCEPT ![h] = R]
          /\ SoundJob(h, R)
          /\ \/ R = Idle
             \/ R.op = "sign" /\ R.stage = "count" /\ R.key = job[h].key
                /\ R.previous = NoKey
    <3>1. CASE Done(h)
      <4> WITNESS Idle \in Job
      <4> QED BY <3>1, IdleIsSound DEF Done
    <3>2. CASE Go(h, "count")
      <4> DEFINE S == [job[h] EXCEPT !.stage = "count"]
      <4>1. S \in Job /\ job' = [job EXCEPT ![h] = S]
        BY <1>1, <3>2, GoWrite
      <4>2. /\ S.op = job[h].op /\ S.stage = "count" /\ S.user = job[h].user
            /\ S.key = job[h].key /\ S.previous = job[h].previous /\ S.slot = job[h].slot
            /\ S.rows = job[h].rows
        BY <1>1 DEF Job
      <4> HIDE DEF S
      <4>3. SoundJob(h, S)
        BY <1>1, <1>2, <4>2 DEF SoundJob
      <4> QED BY <1>1, <1>2, <4>1, <4>2, <4>3
    <3> QED BY <2>1, <3>1, <3>2, IdleType
  <2>4. /\ job' \in [Server -> Job] /\ job'[h] = R
        /\ \A g \in Server \ {h} : job'[g] = job[g]
    BY <1>1, <2>3, JobWrite
  <2>5. R.stage # "drop" /\ R.key \in {NoKey, job[h].key} /\ R.previous = NoKey
    BY <2>3 DEF Idle
  <2>6. /\ Alone' = Alone /\ servers' = servers /\ layout' = layout
        /\ registered' = registered /\ pictures' = pictures /\ minted' = minted
    BY <2>1 DEF Alone, fixedVars
  <2>7. /\ frozen' \in Seq(Pointer)
        /\ \A i \in DOMAIN frozen' :
              \/ i \in DOMAIN frozen /\ frozen'[i] = frozen[i]
              \/ frozen'[i] = row
    BY <2>1, <2>2 DEF PictureInvariant, SignaturesTypeOK
  <2>8. SignaturesTypeOK'
    BY <2>1, <2>4, <2>6, <2>7 DEF PictureInvariant, SignaturesTypeOK
  <2>9. /\ RegistrationsDrawn' /\ RegistrationsStored' /\ PointersDrawn' /\ PointersStored'
    <3>1. job[h].key <= minted
      BY <1>1 DEF SoundJob
    <3> QED BY <1>2, <2>2, <2>6, <2>7, <3>1
        DEF PictureInvariant, RegistrationsDrawn, RegistrationsStored, PointersDrawn,
            PointersStored
  <2>10. ASSUME NEW g \in Server PROVE JobOf(g)'
    <3>1. SoundJob(g, job'[g])
      BY <2>3, <2>4 DEF JobOf, PictureInvariant
    <3>2. Alone => job'[g].stage # "drop"
      <4>1. CASE g = h
        BY <2>4, <2>5, <4>1
      <4>2. CASE g # h
        BY <1>1, <2>4, <4>2, AloneIsOne DEF Idle
      <4> QED BY <4>1, <4>2
    <3> QED BY <2>6, <3>1, <3>2 DEF JobOf, SoundJob, SoundRows, NotRegistered
  <2>11. SigningApart'
    <3>1. \A g \in Server : job[g].op = "sign" => job[g].key # NoKey
      BY DEF JobOf, SoundJob, PictureInvariant
    <3>2. R.op = "sign" => R.key = job[h].key
      BY <2>3 DEF Idle
    <3> QED BY <1>1, <2>4, <2>5, <3>1, <3>2 DEF SigningApart, PictureInvariant
  <2>12. CustomerRows'
    <3> SUFFICES ASSUME NEW i \in DOMAIN frozen', frozen'[i].slot \in CustomerField
                 PROVE  CustomerRow(i)'
      BY DEF CustomerRows
    <3>1. CASE i \in DOMAIN frozen /\ frozen'[i] = frozen[i]
      <4>1. CustomerRow(i)
        BY <3>1 DEF CustomerRows, PictureInvariant
      <4>2. job[h].key # frozen[i].key
        BY <1>1, <4>1 DEF CustomerRow
      <4>3. R.key # frozen[i].key /\ R.previous # frozen[i].key
        BY <2>5, <4>1, <4>2 DEF CustomerRow
      <4> QED BY <2>4, <2>6, <3>1, <4>1, <4>3 DEF CustomerRow, NotRegistered
    <3>2. CASE frozen'[i] = row
      <4>1. \A g \in Server \ {h} : job[g].key # job[h].key /\ job[g].previous # job[h].key
        BY <1>1 DEF SigningApart, PictureInvariant
      <4>2. R.previous # job[h].key
            /\ (R.key = job[h].key => R.op = "sign" /\ R.stage = "count")
        BY <1>2, <2>3, <2>5 DEF Idle
      <4> QED BY <1>2, <2>2, <2>4, <2>6, <3>2, <4>1, <4>2 DEF CustomerRow, NotRegistered
    <3> QED BY <2>7, <3>1, <3>2
  <2> QED BY <2>8, <2>9, <2>10, <2>11, <2>12 DEF PictureInvariant
<1> QED BY <1>3, <1>4

(* The rows of a deleted report are gone, its pictures are not.            *)
LEMMA DeleteReportStep ==
  ASSUME PictureInvariant, NEW u \in User, DeleteReport(u)
  PROVE  PictureInvariant'
<1>1. /\ frozen' = << >> /\ header' = [header EXCEPT !.status = "DELETED", !.version = @ + 1]
      /\ UNCHANGED <<fixedVars, inspector, registered, pictures, minted, job>>
  BY DEF DeleteReport
<1>2. << >> \in Seq(Pointer) /\ DOMAIN frozen' = {}
  BY <1>1
<1>3. header' \in Header
  <2>1. header \in Header /\ "DELETED" \in AnyStatus
    BY DEF PictureInvariant, SignaturesTypeOK, AnyStatus
  <2>2. /\ header.version \in Nat /\ header.revision \in Nat /\ header.heldFrom \in AnyStatus
        /\ header.approver \in Account
    BY <2>1 DEF Header
  <2>3. header' = [status |-> "DELETED", version |-> header.version + 1,
                   revision |-> header.revision, heldFrom |-> header.heldFrom,
                   approver |-> header.approver]
    BY <1>1, <2>1 DEF Header
  <2> QED BY <2>1, <2>2, <2>3 DEF Header
<1>4. SignaturesTypeOK'
  BY <1>1, <1>2, <1>3 DEF PictureInvariant, SignaturesTypeOK, fixedVars
<1>5. Alone' = Alone
  BY <1>1 DEF Alone, fixedVars
<1>6. \A g \in Server : JobOf(g)'
  BY <1>1, <1>2, <1>5
     DEF PictureInvariant, JobOf, SoundJob, SoundRows, NotRegistered, NotFrozen, fixedVars
<1> QED BY <1>1, <1>2, <1>4, <1>5, <1>6
    DEF PictureInvariant, RegistrationsDrawn, RegistrationsStored, PointersDrawn,
        PointersStored, SigningApart, CustomerRows

(* Work on the report signs nothing.                                       *)
LEMMA InspectorStep ==
  ASSUME PictureInvariant, inspector' \in User,
         UNCHANGED <<fixedVars, header, registered, frozen, pictures, minted, job>>
  PROVE  PictureInvariant'
<1>1. SignaturesTypeOK' /\ Alone' = Alone
  BY DEF PictureInvariant, SignaturesTypeOK, Alone, fixedVars
<1>2. \A g \in Server : JobOf(g)'
  BY <1>1
     DEF PictureInvariant, JobOf, SoundJob, SoundRows, NotRegistered, NotFrozen, fixedVars
<1>3. CustomerRows'
  BY DEF PictureInvariant, CustomerRows, CustomerRow, NotRegistered
<1> QED BY <1>1, <1>2, <1>3
    DEF PictureInvariant, RegistrationsDrawn, RegistrationsStored, PointersDrawn,
        PointersStored, SigningApart

(* A crash forgets every request.                                          *)
LEMMA RestartStep ==
  ASSUME PictureInvariant, Restart
  PROVE  PictureInvariant'
<1>1. /\ job' = [g \in Server |-> Idle]
      /\ UNCHANGED <<fixedVars, header, inspector, registered, frozen, pictures, minted>>
  BY DEF Restart
<1>2. SignaturesTypeOK' /\ Alone' = Alone
  BY <1>1, IdleType DEF PictureInvariant, SignaturesTypeOK, Alone, fixedVars
<1>3. \A g \in Server : JobOf(g)'
  BY <1>1, <1>2, IdleIsSound
     DEF JobOf, SoundJob, SoundRows, NotRegistered, NotFrozen, fixedVars
<1>4. Idle.op # "sign" /\ Idle.key = NoKey /\ Idle.previous = NoKey
  BY DEF Idle
<1>5. CustomerRows'
  BY <1>1, <1>4 DEF PictureInvariant, CustomerRows, CustomerRow, NotRegistered
<1> QED BY <1>1, <1>2, <1>3, <1>4, <1>5
    DEF PictureInvariant, RegistrationsDrawn, RegistrationsStored, PointersDrawn,
        PointersStored, SigningApart

----------------------------------------------------------------------------
(* Steps that draw, store, register and drop pictures.                     *)

LEMMA PointerKeys ==
  ASSUME NEW rows \in Seq(Pointer)
  PROVE  \A i \in DOMAIN rows : rows[i].key \in Nat
<1>1. \A i \in DOMAIN rows : rows[i] \in Pointer
  OBVIOUS
<1> QED BY <1>1 DEF Pointer

(* A request draws a new object and will put it under that key.            *)
LEMMA DrawStep ==
  ASSUME PictureInvariant, NEW h \in Server, NEW R \in Job, h \in servers,
         job' = [job EXCEPT ![h] = R], minted' = minted + 1,
         UNCHANGED <<fixedVars, header, inspector, registered, frozen, pictures>>,
         R.op \in {"register", "sign"}, R.stage = "put", R.key = minted + 1, R.rows = << >>,
         \/ R.op = "register" /\ R.user \in User /\ R.previous = registered[R.user]
         \/ R.op = "sign" /\ R.slot \in CustomerField /\ R.previous = NoKey
  PROVE  PictureInvariant'
<1> USE DEF PictureInvariant
<1>1. /\ job \in [Server -> Job] /\ job' \in [Server -> Job]
      /\ job'[h] = R /\ \A g \in Server \ {h} : job'[g] = job[g]
      /\ minted \in Nat /\ registered \in [User -> Nat]
  BY JobWrite DEF SignaturesTypeOK
<1>2. /\ Alone' = Alone /\ servers' = servers /\ registered' = registered
      /\ pictures' = pictures /\ frozen' = frozen
  BY DEF Alone, fixedVars
<1>3. SignaturesTypeOK'
  BY <1>1 DEF SignaturesTypeOK, fixedVars
<1>4. RegistrationsDrawn' /\ RegistrationsStored' /\ PointersStored'
  BY <1>1, <1>2 DEF RegistrationsDrawn, RegistrationsStored, PointersStored
<1>5. PointersDrawn'
  <2>1. frozen \in Seq(Pointer)
    BY DEF SignaturesTypeOK
  <2>2. \A i \in DOMAIN frozen : frozen[i].key \in Nat
    BY <2>1, PointerKeys
  <2> QED BY <1>1, <1>2, <2>2 DEF PointersDrawn
<1>6. NotRegistered(R.key) /\ R.previous <= minted /\ R.previous \in Nat
  BY <1>1 DEF RegistrationsDrawn, NotRegistered, NoKey
<1>7. ASSUME NEW g \in Server PROVE JobOf(g)'
  <2>1. CASE g # h
    <3>1. SoundJob(g, job[g]) /\ job[g] \in Job /\ job'[g] = job[g]
      BY <1>1, <2>1 DEF JobOf
    <3>2. /\ job[g].rows \in Seq(Pointer) /\ job[g].key \in Nat /\ job[g].previous \in Nat
      BY <3>1 DEF Job
    <3>3. \A i \in DOMAIN job[g].rows : job[g].rows[i].key \in Nat
      BY <3>2, PointerKeys
    <3>4. job[g].key <= minted' /\ job[g].previous <= minted'
      BY <1>1, <3>1, <3>2 DEF SoundJob
    <3>5. SoundRows(job[g].rows)'
      BY <1>1, <1>2, <3>1, <3>3 DEF SoundJob, SoundRows
    <3> QED BY <1>2, <3>1, <3>4, <3>5 DEF JobOf, SoundJob, NotRegistered, NotFrozen
  <2>2. CASE g = h
    <3>1. R.stage \in StagesOf[R.op] /\ R.key # NoKey /\ R.key <= minted'
          /\ R.previous <= minted'
      BY <1>1, <1>6 DEF StagesOf, NoKey
    <3>2. SoundRows(R.rows)'
      BY DEF SoundRows
    <3> QED BY <1>1, <1>2, <1>6, <2>2, <3>1, <3>2
        DEF JobOf, SoundJob, NotRegistered, NotFrozen
  <2> QED BY <2>1, <2>2
<1>8. SigningApart'
  <2>1. \A g \in Server : /\ job[g].key # R.key /\ job[g].previous # R.key
                          /\ job[g].op = "sign" =>
                                job[g].key # NoKey /\ NotRegistered(job[g].key)
    BY <1>1 DEF JobOf, SoundJob, Job
  <2>2. \A g \in Server : job[g].op = "sign" => R.previous # job[g].key
    BY <2>1 DEF NotRegistered
  <2> QED BY <1>1, <2>1, <2>2 DEF SigningApart
<1>9. CustomerRows'
  <2> SUFFICES ASSUME NEW i \in DOMAIN frozen, frozen[i].slot \in CustomerField
               PROVE  CustomerRow(i)'
    BY <1>2 DEF CustomerRows
  <2>1. CustomerRow(i)
    BY DEF CustomerRows
  <2>2. R.key # frozen[i].key
    BY <1>1 DEF PointersDrawn, SignaturesTypeOK, Pointer
  <2>3. R.previous # frozen[i].key
    BY <2>1 DEF CustomerRow, NotRegistered
  <2> QED BY <1>1, <1>2, <2>1, <2>2, <2>3 DEF CustomerRow, NotRegistered
<1> QED BY <1>3, <1>4, <1>5, <1>7, <1>8, <1>9

LEMMA BeginRegistrationStep ==
  ASSUME PictureInvariant, NEW h \in Server, NEW u \in User, BeginRegistration(h, u)
  PROVE  PictureInvariant'
<1> DEFINE R == [Idle EXCEPT !.op = "register", !.stage = "put", !.user = u,
                             !.key = minted + 1, !.previous = registered[u]]
<1>1. minted + 1 \in Nat /\ registered[u] \in Nat /\ u \in Account
  BY DEF PictureInvariant, SignaturesTypeOK, Account
<1>2. R \in Job
  BY <1>1, IdleType, StageNames DEF Job
<1>3. /\ R.op = "register" /\ R.stage = "put" /\ R.user = u /\ R.key = minted + 1
      /\ R.previous = registered[u] /\ R.rows = << >>
  BY DEF Idle
<1>4. /\ h \in servers /\ job' = [job EXCEPT ![h] = R] /\ minted' = minted + 1
      /\ UNCHANGED <<fixedVars, header, inspector, registered, frozen, pictures>>
  BY Zenon DEF BeginRegistration, Serves
<1> HIDE DEF R
<1> QED BY <1>2, <1>3, <1>4, DrawStep

LEMMA BeginSigningStep ==
  ASSUME PictureInvariant, NEW h \in Server, NEW u \in User, NEW f \in CustomerField,
         BeginSigning(h, u, f)
  PROVE  PictureInvariant'
<1> DEFINE R == [Idle EXCEPT !.op = "sign", !.stage = "put", !.user = u,
                             !.slot = f, !.key = minted + 1]
<1>1. minted + 1 \in Nat /\ u \in Account /\ f \in AnySlot
  BY DEF PictureInvariant, SignaturesTypeOK, Account, AnySlot
<1>2. R \in Job
  BY <1>1, IdleType, StageNames DEF Job
<1>3. /\ R.op = "sign" /\ R.stage = "put" /\ R.slot = f /\ R.key = minted + 1
      /\ R.previous = NoKey /\ R.rows = << >>
  BY DEF Idle
<1>4. /\ h \in servers /\ job' = [job EXCEPT ![h] = R] /\ minted' = minted + 1
      /\ UNCHANGED <<fixedVars, header, inspector, registered, frozen, pictures>>
  BY Zenon DEF BeginSigning, Serves
<1> HIDE DEF R
<1> QED BY <1>2, <1>3, <1>4, DrawStep

LEMMA PutPictureStep ==
  ASSUME PictureInvariant, NEW h \in Server, PutPicture(h)
  PROVE  PictureInvariant'
<1> USE DEF PictureInvariant
<1> DEFINE k == job[h].key
           s == IF job[h].op = "register" THEN "point" ELSE "check"
           R == [job[h] EXCEPT !.stage = s]
<1>1. /\ job \in [Server -> Job] /\ job[h] \in Job /\ SoundJob(h, job[h]) /\ h \in servers
      /\ job[h].op \in {"register", "sign"} /\ s \in StagesOf[job[h].op] /\ s \in AnyStage
      /\ k \in Nat
  <2>1. /\ job[h].stage = "put" /\ job[h] \in Job /\ SoundJob(h, job[h]) /\ h \in servers
        /\ job[h].op \in DOMAIN StagesOf /\ "put" \in StagesOf[job[h].op]
    BY JobIsSound DEF PutPicture
  <2>2. job[h].op \in {"register", "sign"}
    BY <2>1, StagesFollow
  <2>3. s \in StagesOf[job[h].op]
    BY <2>2 DEF StagesOf
  <2> QED BY <2>1, <2>2, <2>3, StageNames DEF Job, SignaturesTypeOK
<1>2. R \in Job /\ job' = [job EXCEPT ![h] = R]
  BY <1>1, GoWrite DEF PutPicture
<1>3. /\ R.op = job[h].op /\ R.stage = s /\ R.user = job[h].user /\ R.key = k
      /\ R.previous = job[h].previous /\ R.slot = job[h].slot /\ R.rows = job[h].rows
  BY <1>1 DEF Job
<1>4. /\ pictures' = pictures \cup {k}
      /\ UNCHANGED <<fixedVars, header, inspector, registered, frozen, minted>>
      /\ job[h].stage = "put"
  BY DEF PutPicture
<1>5. s \in {"point", "check"} /\ (s = "point" => job[h].op = "register")
  BY <1>1
<1> HIDE DEF R, s
<1>6. /\ job' \in [Server -> Job] /\ job'[h] = R
      /\ \A g \in Server \ {h} : job'[g] = job[g]
  BY <1>1, <1>2, JobWrite
<1>7. /\ Alone' = Alone /\ servers' = servers /\ registered' = registered
      /\ minted' = minted /\ frozen' = frozen /\ pictures \subseteq pictures' /\ k \in pictures'
  BY <1>4 DEF Alone, fixedVars
<1>8. SignaturesTypeOK'
  BY <1>1, <1>4, <1>6 DEF SignaturesTypeOK, fixedVars
<1>9. RegistrationsDrawn' /\ RegistrationsStored' /\ PointersDrawn' /\ PointersStored'
  BY <1>7 DEF RegistrationsDrawn, RegistrationsStored, PointersDrawn, PointersStored
<1>10. ASSUME NEW g \in Server PROVE JobOf(g)'
  <2>1. CASE g # h
    BY <1>6, <1>7, <2>1 DEF JobOf, SoundJob, SoundRows, NotRegistered, NotFrozen
  <2>2. CASE g = h
    <3>1. R.stage \in StagesOf[R.op] /\ R.stage # "drop"
      BY <1>1, <1>3, <1>5
    <3> QED BY <1>1, <1>3, <1>4, <1>5, <1>6, <1>7, <2>2, <3>1
        DEF JobOf, SoundJob, SoundRows, NotRegistered, NotFrozen
  <2> QED BY <2>1, <2>2
<1>11. SigningApart'
  BY <1>1, <1>3, <1>6 DEF SigningApart
<1>12. CustomerRows'
  <2> SUFFICES ASSUME NEW i \in DOMAIN frozen, frozen[i].slot \in CustomerField
               PROVE  CustomerRow(i)'
    BY <1>7 DEF CustomerRows
  <2>1. CustomerRow(i)
    BY DEF CustomerRows
  <2>2. R.key # frozen[i].key /\ R.previous # frozen[i].key
    BY <1>3, <1>4, <2>1 DEF CustomerRow
  <2> QED BY <1>6, <1>7, <2>1, <2>2 DEF CustomerRow, NotRegistered
<1> QED BY <1>8, <1>9, <1>10, <1>11, <1>12

LEMMA PointAtPictureStep ==
  ASSUME PictureInvariant, NEW h \in Server, PointAtPicture(h)
  PROVE  PictureInvariant'
<1> USE DEF PictureInvariant
<1> DEFINE k == job[h].key
           u == job[h].user
           p == job[h].previous
<1>1. /\ job \in [Server -> Job] /\ job[h] \in Job /\ SoundJob(h, job[h]) /\ h \in servers
      /\ job[h].op = "register" /\ job[h].stage = "point"
      /\ registered \in [User -> Nat]
  BY JobIsSound DEF PointAtPicture, At, SignaturesTypeOK
<1>2. /\ u \in User /\ k # NoKey /\ k \in Nat /\ k <= minted /\ p \in Nat /\ p <= minted
      /\ Alone => NotRegistered(k) /\ p = registered[u] /\ k \in pictures
  BY <1>1 DEF SoundJob, Job
<1>3. /\ registered' = [registered EXCEPT ![u] = k]
      /\ UNCHANGED <<fixedVars, header, inspector, frozen, pictures, minted>>
  BY DEF PointAtPicture
<1>4. PICK R \in Job :
        /\ job' = [job EXCEPT ![h] = R]
        /\ \/ R = Idle
           \/ /\ R.op = "register" /\ R.stage = "count" /\ R.user = u /\ R.key = p
              /\ R.previous = p /\ R.rows = job[h].rows /\ p # NoKey
  <2>1. CASE p = NoKey
    <3> WITNESS Idle \in Job
    <3> QED BY <2>1, IdleType DEF PointAtPicture, Done
  <2>2. CASE p # NoKey
    <3> DEFINE S == [job[h] EXCEPT !.stage = "count", !.key = p]
    <3>1. S \in Job
      BY <1>1, <1>2, StageNames DEF Job, StagesOf
    <3>2. job' = [job EXCEPT ![h] = S]
      BY <1>1, <2>2 DEF PointAtPicture
    <3>3. /\ S.op = "register" /\ S.stage = "count" /\ S.user = u /\ S.key = p
          /\ S.previous = p /\ S.rows = job[h].rows
      BY <1>1 DEF Job
    <3> HIDE DEF S
    <3> QED BY <2>2, <3>1, <3>2, <3>3
  <2> QED BY <2>1, <2>2, IdleType
<1> HIDE DEF k, u, p
<1>5. /\ job' \in [Server -> Job] /\ job'[h] = R
      /\ \A g \in Server \ {h} : job'[g] = job[g]
  BY <1>1, <1>4, JobWrite
<1>6. /\ Alone' = Alone /\ servers' = servers /\ minted' = minted /\ frozen' = frozen
      /\ pictures' = pictures
  BY <1>3 DEF Alone, fixedVars
<1>7. /\ registered' \in [User -> Nat] /\ registered'[u] = k
      /\ \A v \in User \ {u} : registered'[v] = registered[v]
  BY <1>1, <1>2, <1>3
<1>8. SignaturesTypeOK'
  BY <1>3, <1>5, <1>7 DEF SignaturesTypeOK, fixedVars
<1>9. RegistrationsDrawn' /\ PointersDrawn' /\ PointersStored'
  BY <1>2, <1>6, <1>7 DEF RegistrationsDrawn, PointersDrawn, PointersStored
<1>10. RegistrationsStored'
  BY <1>2, <1>6, <1>7 DEF RegistrationsStored, NotRegistered
<1>11. R.op # "sign" /\ R.key \in {NoKey, p} /\ R.previous \in {NoKey, p}
       /\ R.stage \notin {"put", "point", "drop"}
  BY <1>4 DEF Idle
<1>12. ASSUME NEW g \in Server PROVE JobOf(g)'
  <2>1. CASE g # h
    <3>1. SoundJob(g, job[g]) /\ job'[g] = job[g]
      BY <1>5, <2>1 DEF JobOf
    <3>2. job[g].op = "sign" => k # job[g].key
      BY <1>1, <2>1 DEF SigningApart, k
    <3>3. job[g].op = "sign" => NotRegistered(job[g].key)'
      BY <1>7, <3>1, <3>2 DEF SoundJob, NotRegistered
    <3>4. Alone => job[g] = Idle
      BY <1>1, <2>1, AloneIsOne
    <3>5. Alone => job[g].op # "register" /\ job[g].stage \notin {"put", "point", "drop"}
      BY <3>4 DEF Idle
    <3> QED BY <1>6, <3>1, <3>3, <3>5 DEF JobOf, SoundJob, SoundRows
  <2>2. CASE g = h
    <3>1. CASE R = Idle
      <4>1. SoundJob(h, Idle)
        BY IdleIsSound
      <4>2. Idle.op \notin {"register", "sign"} /\ Idle.stage \notin {"point", "drop"}
        BY DEF Idle
      <4> QED BY <1>5, <1>6, <2>2, <3>1, <4>1, <4>2 DEF JobOf, SoundJob, SoundRows
    <3>2. CASE R # Idle
      <4>1. /\ R.op = "register" /\ R.stage = "count" /\ R.user = u /\ R.key = p
            /\ R.previous = p /\ R.rows = job[h].rows /\ p # NoKey
        BY <1>4, <3>2
      <4>2. R.stage \in StagesOf[R.op]
        BY <4>1 DEF StagesOf
      <4>3. Alone => \A v \in User : registered'[v] # p
        BY <1>2, <1>7, <4>1 DEF RegistrationsStored, NotRegistered
      <4> QED BY <1>1, <1>2, <1>5, <1>6, <2>2, <4>1, <4>2, <4>3
          DEF JobOf, SoundJob, SoundRows, NotRegistered
    <3> QED BY <3>1, <3>2
  <2> QED BY <2>1, <2>2
<1>13. SigningApart'
  <2>1. \A g \in Server \ {h} : job[g].op = "sign" => job[g].key # NoKey /\ job[g].key # p
    BY <1>1 DEF JobOf, SoundJob, SigningApart, p
  <2> QED BY <1>5, <1>11, <2>1 DEF SigningApart
<1>14. CustomerRows'
  <2> SUFFICES ASSUME NEW i \in DOMAIN frozen, frozen[i].slot \in CustomerField
               PROVE  CustomerRow(i)'
    BY <1>6 DEF CustomerRows
  <2>1. CustomerRow(i)
    BY DEF CustomerRows
  <2>2. k # frozen[i].key /\ p # frozen[i].key
    BY <1>1, <2>1 DEF CustomerRow, k, p
  <2>3. NotRegistered(frozen[i].key)'
    BY <1>6, <1>7, <2>1, <2>2 DEF CustomerRow, NotRegistered
  <2>4. R.key # frozen[i].key /\ R.previous # frozen[i].key
    BY <1>11, <2>1, <2>2 DEF CustomerRow
  <2> QED BY <1>5, <1>6, <2>1, <2>3, <2>4 DEF CustomerRow, NotRegistered
<1> QED BY <1>8, <1>9, <1>10, <1>12, <1>13, <1>14

LEMMA DropPictureStep ==
  ASSUME PictureInvariant, NEW h \in Server, DropPicture(h)
  PROVE  PictureInvariant'
<1> USE DEF PictureInvariant
<1> DEFINE k == job[h].key
<1>1. /\ job \in [Server -> Job] /\ SoundJob(h, job[h]) /\ h \in servers
      /\ job[h].stage = "drop"
  BY JobIsSound DEF DropPicture
<1>2. /\ pictures' = pictures \ {k} /\ job' = [job EXCEPT ![h] = Idle]
      /\ UNCHANGED <<fixedVars, header, inspector, registered, frozen, minted>>
  BY DEF DropPicture, Done
<1>3. /\ job' \in [Server -> Job] /\ job'[h] = Idle
      /\ \A g \in Server \ {h} : job'[g] = job[g]
  BY <1>1, <1>2, IdleType, JobWrite
<1>4. /\ Alone' = Alone /\ servers' = servers /\ registered' = registered
      /\ minted' = minted /\ frozen' = frozen
  BY <1>2 DEF Alone, fixedVars
<1>5. Alone => NotFrozen(k) /\ job[h].op \in {"register", "sign"} /\ NotRegistered(k)
  <2>1. job[h].op \in {"register", "sign"}
    BY <1>1, JobIsSound DEF StagesOf
  <2> QED BY <1>1, <2>1 DEF SoundJob
<1>6. /\ Idle.op = "none" /\ Idle.stage = "none" /\ Idle.key = NoKey
      /\ Idle.previous = NoKey /\ Idle.rows = << >>
  BY DEF Idle
<1>7. SignaturesTypeOK'
  BY <1>2, <1>3 DEF SignaturesTypeOK, fixedVars
<1>8. RegistrationsDrawn' /\ PointersDrawn'
  BY <1>4 DEF RegistrationsDrawn, PointersDrawn
<1>9. RegistrationsStored'
  BY <1>2, <1>4, <1>5 DEF RegistrationsStored, NotRegistered
<1>10. PointersStored'
  BY <1>2, <1>4, <1>5 DEF PointersStored, NotFrozen
<1>11. ASSUME NEW g \in Server PROVE JobOf(g)'
  <2>1. CASE g # h
    <3>1. SoundJob(g, job[g]) /\ job'[g] = job[g]
      BY <1>3, <2>1 DEF JobOf
    <3>2. job[g].op = "sign" => k # job[g].key
      BY <1>1, <2>1 DEF SigningApart
    <3>3. Alone => job[g] = Idle
      BY <1>1, <2>1, AloneIsOne
    <3>4. SoundRows(job[g].rows)'
      BY <1>2, <1>4, <1>6, <3>1, <3>3 DEF SoundJob, SoundRows
    <3>5. Alone => job[g].op = "none" /\ job[g].stage = "none"
      BY <1>6, <3>3
    <3> QED BY <1>2, <1>4, <3>1, <3>2, <3>4, <3>5 DEF JobOf, SoundJob, NotRegistered
  <2>2. CASE g = h
    <3>1. SoundJob(h, Idle)
      BY IdleIsSound
    <3> QED BY <1>3, <1>4, <1>6, <2>2, <3>1 DEF JobOf, SoundJob, SoundRows
  <2> QED BY <2>1, <2>2
<1>12. SigningApart'
  <2>1. \A g \in Server : job[g].op = "sign" => job[g].key # NoKey
    BY DEF JobOf, SoundJob
  <2> QED BY <1>3, <1>6, <2>1 DEF SigningApart
<1>13. CustomerRows'
  <2> SUFFICES ASSUME NEW i \in DOMAIN frozen, frozen[i].slot \in CustomerField
               PROVE  CustomerRow(i)'
    BY <1>4 DEF CustomerRows
  <2>1. CustomerRow(i)
    BY DEF CustomerRows
  <2>2. k # frozen[i].key
    BY <1>1, <2>1 DEF CustomerRow
  <2> QED BY <1>2, <1>3, <1>4, <1>6, <2>1, <2>2 DEF CustomerRow, NotRegistered
<1> QED BY <1>7, <1>8, <1>9, <1>10, <1>11, <1>12, <1>13

----------------------------------------------------------------------------

LEMMA PictureInit == SignaturesInit => PictureInvariant
<1> SUFFICES ASSUME SignaturesInit PROVE PictureInvariant
  OBVIOUS
<1>1. << >> \in Seq(Pointer) /\ DOMAIN frozen = {}
  BY DEF SignaturesInit
<1>2. header \in Header
  BY DEF SignaturesInit, Header, AnyStatus, Account, ReportStatus
<1>3. SignaturesTypeOK
  BY <1>1, <1>2, IdleType DEF SignaturesInit, SignaturesTypeOK, NoKey
<1>4. /\ \A h \in Server : job[h] = Idle
      /\ \A u \in User : registered[u] = NoKey
      /\ minted = 0
  BY DEF SignaturesInit
<1>5. ASSUME NEW h \in Server PROVE JobOf(h)
  BY <1>4 DEF JobOf, SoundJob, SoundRows, Idle, StagesOf, NoKey
<1>6. SigningApart
  BY <1>4 DEF SigningApart, Idle
<1> QED BY <1>1, <1>3, <1>4, <1>5, <1>6
    DEF PictureInvariant, RegistrationsDrawn, RegistrationsStored, PointersDrawn,
        PointersStored, CustomerRows, NoKey

LEMMA PictureNext == PictureInvariant /\ [SignaturesNext]_signatureVars => PictureInvariant'
<1> SUFFICES ASSUME PictureInvariant, [SignaturesNext]_signatureVars
             PROVE  PictureInvariant'
  OBVIOUS
<1>1. ASSUME NEW h \in Server, NEW u \in User, BeginRegistration(h, u)
      PROVE  PictureInvariant'
  BY <1>1, BeginRegistrationStep
<1>2. ASSUME NEW h \in Server, NEW u \in User, BeginBatchApproval(h, u)
      PROVE  PictureInvariant'
  BY <1>2, BeginBatchApprovalStep
<1>3. ASSUME NEW h \in Server, NEW u \in User, NEW f \in CustomerField,
             BeginSigning(h, u, f)
      PROVE  PictureInvariant'
  BY <1>3, BeginSigningStep
<1>4. ASSUME NEW h \in Server, NEW u \in User, NEW to \in ReportStatus,
             BeginTransition(h, u, to)
      PROVE  PictureInvariant'
  BY <1>4, BeginTransitionStep
<1>5. ASSUME NEW h \in Server, BeginExport(h) PROVE PictureInvariant'
  BY <1>5, BeginExportStep
<1>6. ASSUME NEW h \in Server, PutPicture(h) PROVE PictureInvariant'
  BY <1>6, PutPictureStep
<1>7. ASSUME NEW h \in Server, PointAtPicture(h) PROVE PictureInvariant'
  BY <1>7, PointAtPictureStep
<1>8. ASSUME NEW h \in Server, CountPointers(h) PROVE PictureInvariant'
  BY <1>8, CountPointersStep
<1>9. ASSUME NEW h \in Server, DropPicture(h) PROVE PictureInvariant'
  BY <1>9, DropPictureStep
<1>10. ASSUME NEW h \in Server, CheckUnsigned(h) PROVE PictureInvariant'
  BY <1>10, CheckUnsignedStep
<1>11. ASSUME NEW h \in Server, InsertSigned(h) PROVE PictureInvariant'
  BY <1>11, InsertSignedStep
<1>12. ASSUME NEW h \in Server, WriteReport(h) PROVE PictureInvariant'
  BY <1>12, WriteReportStep
<1>13. ASSUME NEW h \in Server, FreezeInTransaction(h) PROVE PictureInvariant'
  BY <1>13, FreezeInTransactionStep
<1>14. ASSUME NEW h \in Server, CommitReport(h) PROVE PictureInvariant'
  BY <1>14, CommitReportStep
<1>15. ASSUME NEW h \in Server, AdoptSignature(h) PROVE PictureInvariant'
  BY <1>15, AdoptSignatureStep
<1>16. ASSUME NEW h \in Server, InsertAdopted(h) PROVE PictureInvariant'
  BY <1>16, InsertAdoptedStep
<1>17. ASSUME NEW h \in Server, FinishExport(h) PROVE PictureInvariant'
  BY <1>17, FinishExportStep
<1>18. ASSUME NEW u \in User, WorkOn(u) PROVE PictureInvariant'
  <2>1. /\ inspector' \in User
        /\ UNCHANGED <<fixedVars, header, registered, frozen, pictures, minted, job>>
    BY <1>18 DEF WorkOn
  <2> QED BY <2>1, InspectorStep
<1>19. ASSUME NEW u \in User, DeleteReport(u) PROVE PictureInvariant'
  BY <1>19, DeleteReportStep
<1>20. CASE Restart
  BY <1>20, RestartStep
<1>21. CASE UNCHANGED signatureVars
  <2>1. /\ inspector' \in User
        /\ UNCHANGED <<fixedVars, header, registered, frozen, pictures, minted, job>>
    BY <1>21 DEF signatureVars, fixedVars, PictureInvariant, SignaturesTypeOK
  <2> QED BY <2>1, InspectorStep
<1> QED BY <1>1, <1>2, <1>3, <1>4, <1>5, <1>6, <1>7, <1>8, <1>9, <1>10, <1>11, <1>12,
           <1>13, <1>14, <1>15, <1>16, <1>17, <1>18, <1>19, <1>20, <1>21
        DEF SignaturesNext

(* Whatever the accounts, handlers, fields, layouts and bounds: served one *)
(* at a time, requests never take the picture from a pointer on the report *)
(* (registerSignature, signField and the clean-ups behind them), and a     *)
(* field a customer signed keeps its picture however requests race, crash  *)
(* or lose the answer to a commit.                                         *)
THEOREM PicturesAreKept == SignaturesSpec => []FrozenPictureKept
<1>1. PictureInvariant => FrozenPictureKept
  BY DEF PictureInvariant, PointersStored, CustomerRows, CustomerRow, FrozenPictureKept
<1> QED BY PictureInit, PictureNext, <1>1, PTL DEF SignaturesSpec

----------------------------------------------------------------------------
(* The newest pointer of a slot and revision.                              *)

(* A set of numbers up to n has a greatest one: of the intervals that      *)
(* reach from its members up to n, one contains no smaller one.            *)
LEMMA GreatestExists ==
  ASSUME NEW n \in Nat, NEW S \in SUBSET (1 .. n), S # {}
  PROVE  Max(S) \in S /\ \A y \in S : Max(S) >= y
<1> DEFINE R == StrictSubsetOrdering(Nat)
           Above(i) == i .. n
           T == {Above(i) : i \in S}
<1>1. IsWellFoundedOn(R, FiniteSubsetsOf(Nat))
  BY FS_StrictSubsetOrderingWellFounded
<1>2. \A i \in S : Above(i) \in FiniteSubsetsOf(Nat)
  BY FS_Interval DEF FiniteSubsetsOf
<1>3. T \subseteq FiniteSubsetsOf(Nat) /\ T # {}
  BY <1>2
<1>4. \E a \in T : \A b \in T : <<b, a>> \notin R
  <2> HIDE DEF R, T
  <2> QED BY <1>1, <1>3, WFMin
<1>5. PICK x \in S : \A y \in S : <<Above(y), Above(x)>> \notin R
  BY <1>4
<1>6. ASSUME NEW y \in S, y > x PROVE FALSE
  <2>1. Above(y) \subseteq Above(x) /\ x \in Above(x) /\ x \notin Above(y)
    BY <1>6
  <2>2. Above(x) \in SUBSET Nat /\ Above(y) \in SUBSET Nat
    OBVIOUS
  <2> HIDE DEF Above
  <2>3. <<Above(y), Above(x)>> \in R
    BY <2>1, <2>2 DEF StrictSubsetOrdering
  <2> QED BY <1>5, <2>3
<1>7. \A y \in S : x >= y
  BY <1>6
<1> QED BY <1>7, Zenon DEF Max

(* It stays what it is while pointers to others are created.               *)
LEMMA AppendKeepsCurrent ==
  ASSUME frozen \in Seq(Pointer), NEW rows \in Seq(Pointer), frozen' = frozen \o rows,
         NEW f, NEW r, PointersOf(f, r) # {},
         \A i \in DOMAIN rows : ~(rows[i].slot = f /\ rows[i].revision = r)
  PROVE  CurrentPointer(f, r)' = CurrentPointer(f, r)
<1>1. \A i \in DOMAIN (frozen \o rows) :
        \/ i \in DOMAIN frozen /\ (frozen \o rows)[i] = frozen[i]
        \/ i \notin DOMAIN frozen /\ i - Len(frozen) \in DOMAIN rows
           /\ (frozen \o rows)[i] = rows[i - Len(frozen)]
  OBVIOUS
<1>2. \A i \in DOMAIN frozen : i \in DOMAIN (frozen \o rows)
                               /\ (frozen \o rows)[i] = frozen[i]
  OBVIOUS
<1>3. PointersOf(f, r)' = PointersOf(f, r)
  BY <1>1, <1>2 DEF PointersOf
<1>4. Max(PointersOf(f, r)) \in PointersOf(f, r)
  <2>1. Len(frozen) \in Nat /\ DOMAIN frozen = 1 .. Len(frozen)
    OBVIOUS
  <2>2. PointersOf(f, r) \in SUBSET (1 .. Len(frozen))
    BY <2>1 DEF PointersOf
  <2> QED BY <2>1, <2>2, GreatestExists
<1>5. frozen'[Max(PointersOf(f, r))] = frozen[Max(PointersOf(f, r))]
  BY <1>2, <1>4 DEF PointersOf
<1>6. CurrentPointer(f, r) = frozen[Max(PointersOf(f, r))]
  BY DEF CurrentPointer
<1>7. CurrentPointer(f, r)' = frozen'[Max(PointersOf(f, r)')]
  BY <1>3 DEF CurrentPointer
<1> QED BY <1>3, <1>5, <1>6, <1>7

(* Of the pointers a transaction appends, the newest of a slot and         *)
(* revision is one of that slot and revision.                              *)
LEMMA AppendedIsCurrent ==
  ASSUME frozen \in Seq(Pointer), NEW rows \in Seq(Pointer), frozen' = frozen \o rows,
         NEW f, NEW r, NEW n \in DOMAIN rows, rows[n].slot = f, rows[n].revision = r
  PROVE  \E i \in DOMAIN rows : CurrentPointer(f, r)' = rows[i]
<1> DEFINE S == {i \in DOMAIN (frozen \o rows) :
                   (frozen \o rows)[i].slot = f /\ (frozen \o rows)[i].revision = r}
           m == n + Len(frozen)
<1>1. S = PointersOf(f, r)'
  BY DEF PointersOf
<1>2. Len(frozen \o rows) \in Nat /\ DOMAIN (frozen \o rows) = 1 .. Len(frozen \o rows)
  OBVIOUS
<1>3. m \in DOMAIN (frozen \o rows) /\ (frozen \o rows)[m] = rows[n]
  OBVIOUS
<1>4. m \in S
  BY <1>3
<1>5. S \in SUBSET (1 .. Len(frozen \o rows)) /\ S # {}
  BY <1>2, <1>4
<1> HIDE DEF S
<1>6. Max(S) \in S /\ Max(S) >= m
  BY <1>2, <1>4, <1>5, GreatestExists
<1>7. CurrentPointer(f, r)' = (frozen \o rows)[Max(S)]
  <2>1. CurrentPointer(f, r)' = IF PointersOf(f, r)' = {} THEN NoPointer
                                ELSE frozen'[Max(PointersOf(f, r)')]
    BY DEF CurrentPointer
  <2> QED BY <1>1, <1>4, <2>1
<1>8. Max(S) \in DOMAIN (frozen \o rows)
  BY <1>6 DEF S
<1>9. Max(S) - Len(frozen) \in DOMAIN rows
      /\ (frozen \o rows)[Max(S)] = rows[Max(S) - Len(frozen)]
  <2> DEFINE x == Max(S)
  <2>1. x \in 1 .. Len(frozen) + Len(rows) /\ x >= m /\ n \in 1 .. Len(rows)
    BY <1>2, <1>6, <1>8
  <2> HIDE DEF x
  <2>2. x - Len(frozen) \in 1 .. Len(rows)
    BY <2>1
  <2>3. (frozen \o rows)[x] = rows[x - Len(frozen)]
    BY <2>1, <2>2
  <2> QED BY <2>2, <2>3 DEF x
<1> QED BY <1>7, <1>9

----------------------------------------------------------------------------
(* Which stages a step of a handler leads to.                              *)
Reaches(h, stages) ==
    /\ h \in servers
    /\ job'[h].stage \in stages
    /\ \A g \in Server \ {h} : job'[g] = job[g]

LEMMA WriteReaches ==
  ASSUME PictureInvariant, NEW h \in Server, h \in servers, NEW R,
         job' = [job EXCEPT ![h] = R], NEW stages, R.stage \in stages
  PROVE  Reaches(h, stages)
BY DEF PictureInvariant, SignaturesTypeOK, Reaches

LEMMA GoReaches ==
  ASSUME PictureInvariant, NEW h \in Server, job[h].stage # "none", NEW stage, Go(h, stage)
  PROVE  Reaches(h, {stage})
<1>1. h \in servers /\ job \in [Server -> Job] /\ job[h] \in Job
  BY JobIsSound
<1>2. job' = [job EXCEPT ![h] = [job[h] EXCEPT !.stage = stage]]
  BY <1>1 DEF Go
<1>3. [job[h] EXCEPT !.stage = stage].stage = stage
  BY <1>1 DEF Job
<1> QED BY <1>1, <1>2, <1>3, WriteReaches

LEMMA DoneReaches ==
  ASSUME PictureInvariant, NEW h \in Server, job[h].stage # "none", Done(h)
  PROVE  Reaches(h, {"none"})
<1>1. h \in servers /\ Idle.stage = "none"
  BY JobIsSound DEF Idle
<1> QED BY <1>1, WriteReaches DEF Done

LEMMA BeginReaches ==
  ASSUME PictureInvariant, NEW h \in Server
  PROVE  /\ \A u \in User : BeginRegistration(h, u) => Reaches(h, {"put"})
         /\ \A u \in User, f \in CustomerField :
               BeginSigning(h, u, f) => Reaches(h, {"put"})
         /\ \A u \in User, to \in ReportStatus :
               BeginTransition(h, u, to) => Reaches(h, {"write"})
         /\ \A u \in User : BeginBatchApproval(h, u) => Reaches(h, {"write"})
         /\ BeginExport(h) => Reaches(h, {"fields"})
<1>1. job \in [Server -> Job]
  BY JobIsSound
<1>2. \A u \in User : BeginRegistration(h, u) => Reaches(h, {"put"})
  BY <1>1 DEF BeginRegistration, Serves, Reaches, Idle
<1>3. \A u \in User, f \in CustomerField : BeginSigning(h, u, f) => Reaches(h, {"put"})
  BY <1>1 DEF BeginSigning, Serves, Reaches, Idle
<1>4. \A u \in User, to \in ReportStatus :
        BeginTransition(h, u, to) => Reaches(h, {"write"})
  BY <1>1 DEF BeginTransition, Serves, Reaches, Idle
<1>5. \A u \in User : BeginBatchApproval(h, u) => Reaches(h, {"write"})
  BY <1>1 DEF BeginBatchApproval, Serves, Reaches, Idle
<1>6. BeginExport(h) => Reaches(h, {"fields"})
  BY <1>1 DEF BeginExport, Serves, Reaches, Idle
<1> QED BY <1>2, <1>3, <1>4, <1>5, <1>6

LEMMA StepReaches ==
  ASSUME PictureInvariant, NEW h \in Server
  PROVE  /\ PutPicture(h) => Reaches(h, {"point", "check"})
         /\ PointAtPicture(h) => Reaches(h, {"none", "count"})
         /\ CountPointers(h) => Reaches(h, {"none", "drop"})
         /\ DropPicture(h) => Reaches(h, {"none"})
         /\ InsertSigned(h) => Reaches(h, {"none", "count"})
         /\ WriteReport(h) => Reaches(h, {"none", "freeze"})
         /\ CommitReport(h) => Reaches(h, {"none"})
         /\ InsertAdopted(h) => Reaches(h, {"none", "fields"})
         /\ FinishExport(h) => Reaches(h, {"none"})
         /\ FreezeInTransaction(h) => Reaches(h, {"none", "commit"})
         /\ AdoptSignature(h) => Reaches(h, {"adopt"})
<1> DEFINE Goes(s) == job[h].stage # "none" /\ Go(h, s)
           Ends == job[h].stage # "none" /\ Done(h)
<1>1. \A s : Goes(s) => Reaches(h, {s})
  BY GoReaches
<1>2. Ends => Reaches(h, {"none"})
  BY DoneReaches
<1>3. PutPicture(h) => Goes("point") \/ Goes("check")
  BY DEF PutPicture
<1>4. CountPointers(h) => Ends \/ Goes("drop")
  BY DEF CountPointers
<1>5. DropPicture(h) => Ends
  BY DEF DropPicture
<1>6. InsertSigned(h) => Ends \/ Goes("count")
  BY Zenon DEF InsertSigned, At
<1>7. WriteReport(h) => Ends \/ Goes("freeze")
  BY DEF WriteReport
<1>8. CommitReport(h) => Ends
  BY DEF CommitReport
<1>9. InsertAdopted(h) => Ends \/ Goes("fields")
  BY DEF InsertAdopted, At
<1>10. FinishExport(h) => Ends
  BY DEF FinishExport, At
<1>11. PointAtPicture(h) => Reaches(h, {"none", "count"})
  <2> SUFFICES ASSUME PointAtPicture(h) PROVE Reaches(h, {"none", "count"})
    OBVIOUS
  <2>1. CASE Done(h)
    BY <1>2, <2>1 DEF PointAtPicture, At, Reaches
  <2>2. CASE job' = [job EXCEPT ![h].stage = "count", ![h].key = job[h].previous]
    <3>1. job \in [Server -> Job] /\ job[h] \in Job /\ h \in servers
      BY JobIsSound DEF PointAtPicture, At
    <3>2. job' = [job EXCEPT ![h] = [job[h] EXCEPT !.stage = "count",
                                                  !.key = job[h].previous]]
      BY <2>2, <3>1
    <3>3. [job[h] EXCEPT !.stage = "count", !.key = job[h].previous].stage = "count"
      BY <3>1 DEF Job
    <3> QED BY <3>1, <3>2, <3>3, WriteReaches
  <2> QED BY <2>1, <2>2 DEF PointAtPicture
<1>12. ASSUME NEW s, NEW rows, job[h].stage # "none",
              job' = [job EXCEPT ![h].stage = s, ![h].rows = rows]
       PROVE  Reaches(h, {s})
  <2>1. job \in [Server -> Job] /\ job[h] \in Job /\ h \in servers
    BY <1>12, JobIsSound
  <2>2. job' = [job EXCEPT ![h] = [job[h] EXCEPT !.stage = s, !.rows = rows]]
    BY <1>12, <2>1
  <2>3. [job[h] EXCEPT !.stage = s, !.rows = rows].stage = s
    BY <2>1 DEF Job
  <2> QED BY <2>1, <2>2, <2>3, WriteReaches
<1>13. FreezeInTransaction(h) => Reaches(h, {"none", "commit"})
  <2> SUFFICES ASSUME FreezeInTransaction(h) PROVE Reaches(h, {"none", "commit"})
    OBVIOUS
  <2>1. /\ job[h].stage # "none"
        /\ \/ Done(h)
           \/ \E rows : job' = [job EXCEPT ![h].stage = "commit", ![h].rows = rows]
    BY Zenon DEF FreezeInTransaction
  <2> QED BY <1>2, <1>12, <2>1 DEF Reaches
<1>14. AdoptSignature(h) => Reaches(h, {"adopt"})
  <2> SUFFICES ASSUME AdoptSignature(h) PROVE Reaches(h, {"adopt"})
    OBVIOUS
  <2>1. /\ job[h].stage # "none"
        /\ \E rows : job' = [job EXCEPT ![h].stage = "adopt", ![h].rows = rows]
    BY Zenon DEF AdoptSignature, At
  <2> QED BY <1>12, <2>1
<1> HIDE DEF Goes, Ends
<1> QED BY <1>1, <1>2, <1>3, <1>4, <1>5, <1>6, <1>7, <1>8, <1>9, <1>10, <1>11, <1>13, <1>14
        DEF Reaches

(* The steps, by the stage they lead to and what they do to the rows.      *)
LEMMA StepKinds ==
  ASSUME PictureInvariant, [SignaturesNext]_signatureVars
  PROVE  \/ job' = job /\ frozen' \in {frozen, << >>}
         \/ job' = [h \in Server |-> Idle]
         \/ \E h \in Server : CheckUnsigned(h)
         \/ \E h \in Server : h \in servers /\ job'[h].stage # "insert"
                              /\ \A g \in Server \ {h} : job'[g] = job[g]
<1>1. ASSUME NEW h \in Server, NEW stages, Reaches(h, stages), "insert" \notin stages
      PROVE  h \in servers /\ job'[h].stage # "insert"
             /\ \A g \in Server \ {h} : job'[g] = job[g]
  BY <1>1 DEF Reaches
<1>2. CASE \E u \in User : WorkOn(u) \/ DeleteReport(u)
  BY <1>2 DEF WorkOn, DeleteReport
<1>3. CASE Restart
  BY <1>3 DEF Restart
<1>4. CASE UNCHANGED signatureVars
  BY <1>4 DEF signatureVars
<1>5. ASSUME NEW h \in Server,
             \/ \E u \in User :
                   \/ BeginRegistration(h, u)
                   \/ BeginBatchApproval(h, u)
                   \/ \E f \in CustomerField : BeginSigning(h, u, f)
                   \/ \E to \in ReportStatus : BeginTransition(h, u, to)
             \/ BeginExport(h)
      PROVE  \E stages : Reaches(h, stages) /\ "insert" \notin stages
  <2>1. Reaches(h, {"put"}) \/ Reaches(h, {"write"}) \/ Reaches(h, {"fields"})
    BY <1>5, BeginReaches, Zenon
  <2> QED BY <2>1
<1>6. ASSUME NEW h \in Server,
             \/ PutPicture(h) \/ PointAtPicture(h) \/ CountPointers(h) \/ DropPicture(h)
             \/ InsertSigned(h) \/ WriteReport(h) \/ FreezeInTransaction(h)
             \/ CommitReport(h) \/ AdoptSignature(h) \/ InsertAdopted(h) \/ FinishExport(h)
      PROVE  \E stages : Reaches(h, stages) /\ "insert" \notin stages
  <2>1. \/ Reaches(h, {"point", "check"}) \/ Reaches(h, {"none", "count"})
        \/ Reaches(h, {"none", "drop"}) \/ Reaches(h, {"none"})
        \/ Reaches(h, {"none", "freeze"}) \/ Reaches(h, {"none", "commit"})
        \/ Reaches(h, {"adopt"}) \/ Reaches(h, {"none", "fields"})
    BY <1>6, StepReaches, Zenon
  <2> QED BY <2>1
<1> QED BY <1>1, <1>2, <1>3, <1>4, <1>5, <1>6, Zenon DEF SignaturesNext

LEMMA FixedKept == [SignaturesNext]_signatureVars => UNCHANGED fixedVars
<1>1. ASSUME NEW h \in Server,
             \/ \E u \in User :
                   \/ BeginRegistration(h, u)
                   \/ BeginBatchApproval(h, u)
                   \/ \E f \in CustomerField : BeginSigning(h, u, f)
                   \/ \E to \in ReportStatus : BeginTransition(h, u, to)
             \/ BeginExport(h)
      PROVE  UNCHANGED fixedVars
  BY <1>1 DEF BeginRegistration, BeginBatchApproval, BeginSigning, BeginTransition,
              BeginExport
<1>2. ASSUME NEW h \in Server,
             \/ PutPicture(h) \/ PointAtPicture(h) \/ CountPointers(h) \/ DropPicture(h)
             \/ CheckUnsigned(h) \/ InsertSigned(h) \/ WriteReport(h)
      PROVE  UNCHANGED fixedVars
  BY <1>2 DEF PutPicture, PointAtPicture, CountPointers, DropPicture, CheckUnsigned,
              InsertSigned, WriteReport
<1>3. ASSUME NEW h \in Server,
             \/ FreezeInTransaction(h) \/ CommitReport(h) \/ AdoptSignature(h)
             \/ InsertAdopted(h) \/ FinishExport(h)
      PROVE  UNCHANGED fixedVars
  BY <1>3, Zenon DEF FreezeInTransaction, CommitReport, AdoptSignature, InsertAdopted,
                     FinishExport
<1>4. ASSUME (\E u \in User : WorkOn(u) \/ DeleteReport(u)) \/ Restart
             \/ UNCHANGED signatureVars
      PROVE  UNCHANGED fixedVars
  BY <1>4 DEF WorkOn, DeleteReport, Restart, signatureVars, fixedVars
<1> QED BY <1>1, <1>2, <1>3, <1>4, Zenon DEF SignaturesNext

(* Served one at a time, a signing about to create its row still finds the *)
(* field unsigned.                                                         *)
UnsignedYet ==
    Alone => \A h \in Server : job[h].op = "sign" /\ job[h].stage = "insert" =>
        PointersOf(job[h].slot, job[h].revision) = {}

LEMMA UnsignedYetNext ==
  PictureInvariant /\ UnsignedYet /\ [SignaturesNext]_signatureVars => UnsignedYet'
<1> SUFFICES ASSUME PictureInvariant, UnsignedYet, [SignaturesNext]_signatureVars, Alone',
                    NEW h \in Server, job'[h].op = "sign", job'[h].stage = "insert"
             PROVE  PointersOf(job[h].slot, job[h].revision)' = {}
  BY DEF UnsignedYet
<1>1. servers' = servers /\ Alone
  BY FixedKept DEF Alone, fixedVars
<1>2. CASE job' = job /\ frozen' \in {frozen, << >>}
  <2>1. PointersOf(job[h].slot, job[h].revision) = {}
    BY <1>1, <1>2 DEF UnsignedYet
  <2> QED BY <1>2, <2>1 DEF PointersOf
<1>3. CASE job' = [g \in Server |-> Idle]
  BY <1>3 DEF Idle
<1>4. ASSUME NEW g \in Server, CheckUnsigned(g)
      PROVE  PointersOf(job[h].slot, job[h].revision)' = {}
  <2>1. /\ job \in [Server -> Job] /\ job[g] \in Job /\ g \in servers
        /\ job[g].stage = "check" /\ frozen' = frozen
    BY <1>4, JobIsSound DEF CheckUnsigned, At
  <2>2. g = h
    <3> SUFFICES ASSUME g # h PROVE FALSE
      OBVIOUS
    <3>1. job'[h] = job[h]
      BY <1>4, <2>1 DEF CheckUnsigned, Go
    <3>2. job[h] = Idle
      BY <1>1, <2>1, AloneIsOne
    <3> QED BY <3>1, <3>2 DEF Idle
  <2>3. CASE Go(h, "count")
    BY <2>1, <2>2, <2>3 DEF Go, Job
  <2>4. CASE /\ Unsigned(h)
             /\ job' = [job EXCEPT ![h].stage = "insert", ![h].revision = header.revision]
    <3>1. job'[h].slot = job[h].slot /\ job'[h].revision = header.revision
      BY <2>1, <2>2, <2>4 DEF Job
    <3> QED BY <2>1, <2>4, <3>1 DEF Unsigned, PointersOf
  <2> QED BY <1>4, <2>2, <2>3, <2>4 DEF CheckUnsigned
<1>5. ASSUME NEW g \in Server, g \in servers, job'[g].stage # "insert",
             \A k \in Server \ {g} : job'[k] = job[k]
      PROVE  FALSE
  <2>1. g # h /\ job'[h] = job[h]
    BY <1>5
  <2>2. job[h] = Idle
    BY <1>1, <1>5, <2>1, AloneIsOne
  <2> QED BY <2>1, <2>2 DEF Idle
<1> QED BY <1>2, <1>3, <1>4, <1>5, StepKinds

(* How the rows of the report change.                                      *)
LEMMA RowKinds ==
  ASSUME PictureInvariant, [SignaturesNext]_signatureVars
  PROVE  \/ UNCHANGED frozen
         \/ header'.status = "DELETED"
         \/ \E h \in Server :
               /\ job[h].op = "sign" /\ job[h].stage = "insert"
               /\ frozen' = Append(frozen,
                              [slot |-> job[h].slot, signer |-> job[h].user,
                               key |-> job[h].key, revision |-> job[h].revision])
         \/ \E h \in Server : frozen' = frozen \o job[h].rows
<1>1. ASSUME NEW h \in Server,
             \/ \E u \in User :
                   \/ BeginRegistration(h, u)
                   \/ BeginBatchApproval(h, u)
                   \/ \E f \in CustomerField : BeginSigning(h, u, f)
                   \/ \E to \in ReportStatus : BeginTransition(h, u, to)
             \/ BeginExport(h)
      PROVE  UNCHANGED frozen
  BY <1>1 DEF BeginRegistration, BeginBatchApproval, BeginSigning, BeginTransition,
              BeginExport
<1>2. ASSUME NEW h \in Server,
             \/ PutPicture(h) \/ PointAtPicture(h) \/ CountPointers(h) \/ DropPicture(h)
             \/ CheckUnsigned(h) \/ WriteReport(h) \/ FinishExport(h)
      PROVE  UNCHANGED frozen
  BY <1>2 DEF PutPicture, PointAtPicture, CountPointers, DropPicture, CheckUnsigned,
              WriteReport, FinishExport
<1>3. ASSUME NEW h \in Server, FreezeInTransaction(h) \/ AdoptSignature(h)
      PROVE  UNCHANGED frozen
  BY <1>3, Zenon DEF FreezeInTransaction, AdoptSignature
<1>4. ASSUME NEW h \in Server, InsertSigned(h)
      PROVE  \/ UNCHANGED frozen
             \/ /\ job[h].op = "sign" /\ job[h].stage = "insert"
                /\ frozen' = Append(frozen,
                              [slot |-> job[h].slot, signer |-> job[h].user,
                               key |-> job[h].key, revision |-> job[h].revision])
  BY <1>4, Zenon DEF InsertSigned, At
<1>5. ASSUME NEW h \in Server, CommitReport(h) \/ InsertAdopted(h)
      PROVE  UNCHANGED frozen \/ frozen' = frozen \o job[h].rows
  BY <1>5, Zenon DEF CommitReport, InsertAdopted
<1>6. ASSUME NEW u \in User, DeleteReport(u)
      PROVE  header'.status = "DELETED" \/ UNCHANGED frozen
  <2>1. header' = [header EXCEPT !.status = "DELETED", !.version = @ + 1]
    BY <1>6 DEF DeleteReport
  <2> QED BY <2>1 DEF PictureInvariant, SignaturesTypeOK, Header
<1>7. ASSUME (\E u \in User : WorkOn(u)) \/ Restart \/ UNCHANGED signatureVars
      PROVE  UNCHANGED frozen
  BY <1>7 DEF WorkOn, Restart, signatureVars
<1> QED BY <1>1, <1>2, <1>3, <1>4, <1>5, <1>6, <1>7, Zenon DEF SignaturesNext

(* A step that leaves a report served one at a time keeps what a customer  *)
(* signed on it.                                                           *)
LEMMA SignedFieldStep ==
  ASSUME PictureInvariant, UnsignedYet, [SignaturesNext]_signatureVars,
         NEW f \in CustomerField, NEW r, Alone, header'.status # "DELETED",
         CurrentPointer(f, r) # NoPointer
  PROVE  CurrentPointer(f, r)' = CurrentPointer(f, r)
<1>1. PointersOf(f, r) # {} /\ frozen \in Seq(Pointer)
  BY DEF CurrentPointer, PictureInvariant, SignaturesTypeOK
<1>2. CASE UNCHANGED frozen
  BY <1>2 DEF CurrentPointer, PointersOf
<1>3. ASSUME NEW h \in Server, job[h].op = "sign", job[h].stage = "insert",
             frozen' = Append(frozen, [slot |-> job[h].slot, signer |-> job[h].user,
                                       key |-> job[h].key, revision |-> job[h].revision])
      PROVE  CurrentPointer(f, r)' = CurrentPointer(f, r)
  <2> DEFINE row == [slot |-> job[h].slot, signer |-> job[h].user,
                     key |-> job[h].key, revision |-> job[h].revision]
             rows == <<row>>
  <2>1. job[h] \in Job
    BY JobIsSound
  <2>2. row \in Pointer /\ row.slot = job[h].slot /\ row.revision = job[h].revision
    BY <2>1 DEF Pointer, Job
  <2>3. frozen' = Append(frozen, row)
    BY <1>3
  <2>4. ~(row.slot = f /\ row.revision = r)
    BY <1>1, <1>3, <2>2 DEF UnsignedYet
  <2> HIDE DEF row
  <2>5. rows \in Seq(Pointer) /\ frozen' = frozen \o rows
        /\ \A i \in DOMAIN rows : rows[i] = row
    BY <1>1, <2>2, <2>3
  <2>6. \A i \in DOMAIN rows : ~(rows[i].slot = f /\ rows[i].revision = r)
    BY <2>4, <2>5
  <2> HIDE DEF rows
  <2> QED BY <1>1, <2>5, <2>6, AppendKeepsCurrent
<1>4. ASSUME NEW h \in Server, frozen' = frozen \o job[h].rows
      PROVE  CurrentPointer(f, r)' = CurrentPointer(f, r)
  <2> DEFINE rows == job[h].rows
  <2>1. rows \in Seq(Pointer) /\ SoundRows(rows)
    BY JobIsSound DEF Job, SoundJob
  <2>2. frozen' = frozen \o rows
    BY <1>4
  <2> HIDE DEF rows
  <2>3. \A i \in DOMAIN rows : ~(rows[i].slot = f /\ rows[i].revision = r)
    BY <2>1, SignatureAssumption DEF SoundRows, RoleSlot
  <2> QED BY <1>1, <2>1, <2>2, <2>3, AppendKeepsCurrent
<1> QED BY <1>2, <1>3, <1>4, RowKinds

(* Served one at a time, no request changes what a customer signed for a   *)
(* revision: the absence of a signature, read before the transaction that  *)
(* inserts one, still holds in it.                                         *)
THEOREM SignedFieldIsFinal == SignaturesSpec => SignedFieldNeverOverwritten
<1>1. SignaturesInit => UnsignedYet
  BY DEF SignaturesInit, UnsignedYet, Idle
<1>2. PictureInvariant /\ UnsignedYet /\ [SignaturesNext]_signatureVars =>
        [\A f \in CustomerField, r \in 0 .. MaxReportVersion :
          Alone /\ header'.status # "DELETED" /\ CurrentPointer(f, r) # NoPointer
          => CurrentPointer(f, r)' = CurrentPointer(f, r)]_signatureVars
  BY SignedFieldStep
<1> QED BY PictureInit, PictureNext, UnsignedYetNext, <1>1, <1>2, PTL
        DEF SignaturesSpec, SignedFieldNeverOverwritten

----------------------------------------------------------------------------
(* Approvals and the signatures they leave behind.                         *)

LEMMA SetToSeqCovers ==
  ASSUME NEW S, IsFiniteSet(S), NEW x \in S
  PROVE  \E i \in DOMAIN SetToSeq(S) : SetToSeq(S)[i] = x
<1> DEFINE n == Cardinality(S)
           f == SetToSeq(S)
<1>1. n \in Nat /\ ExistsBijection(1 .. n, S)
  BY FS_CardinalityType
<1>2. \E g \in [1 .. n -> S] : IsInjective(g)
  BY <1>1, Zenon DEF ExistsBijection, Bijection, Injection
<1>3. f \in [1 .. n -> S] /\ IsInjective(f)
  BY <1>2, Zenon DEF SetToSeq
<1>4. f \in Injection(1 .. n, S)
  BY <1>3, Zenon DEF Injection
<1>5. Cardinality(1 .. n) = n
  BY <1>1, FS_Interval
<1> HIDE DEF f
<1>6. f \in Surjection(1 .. n, S)
  BY <1>4, <1>5, FS_Injection
<1>7. \E i \in DOMAIN f : f[i] = x
  BY <1>3, <1>6 DEF Surjection
<1> QED BY <1>7 DEF f

(* An account that is registered signs every slot of a freeze.             *)
LEMMA FreezeNowCovers ==
  ASSUME NEW slots, IsFiniteSet(slots), NEW user, NEW revision, registered[user] # NoKey
  PROVE  /\ \A i \in DOMAIN FreezeNow(slots, user, revision) :
               FreezeNow(slots, user, revision)[i].signer = user
         /\ \A s \in slots : \E i \in DOMAIN FreezeNow(slots, user, revision) :
               /\ FreezeNow(slots, user, revision)[i].slot = s
               /\ FreezeNow(slots, user, revision)[i].revision = revision
<1> DEFINE Made(s) == [slot |-> s, signer |-> user, key |-> registered[user],
                       revision |-> revision]
           S == {Made(s) : s \in slots}
           f == [s \in slots |-> Made(s)]
<1>1. f \in Surjection(slots, S)
  BY DEF Surjection
<1>2. IsFiniteSet(S)
  BY <1>1, FS_Surjection
<1>3. FreezeNow(slots, user, revision) = SetToSeq(S)
  BY DEF FreezeNow
<1>4. \A r \in S : r.signer = user /\ r.revision = revision
  OBVIOUS
<1>5. \A s \in slots : \E r \in S : r.slot = s
  <2>1. \A s \in slots : Made(s) \in S /\ Made(s).slot = s
    OBVIOUS
  <2> QED BY <2>1
<1> HIDE DEF S
<1>6. SetToSeq(S) \in Seq(S)
  BY <1>2, SetToSeqEnumerates
<1>7. \A r \in S : \E i \in DOMAIN SetToSeq(S) : SetToSeq(S)[i] = r
  BY <1>2, SetToSeqCovers
<1>8. \A i \in DOMAIN SetToSeq(S) : SetToSeq(S)[i] \in S
  BY <1>6
<1> QED BY <1>3, <1>4, <1>5, <1>7, <1>8

(* The pointers of an approval that must be signed.                        *)
ApprovalFrozen(h) ==
    /\ \A i \in DOMAIN job[h].rows : job[h].rows[i].signer = job[h].user
    /\ \A s \in ApprovalSlots : \E i \in DOMAIN job[h].rows :
          job[h].rows[i].slot = s /\ job[h].rows[i].revision = RevisionAfter(h)

(* One transaction at a time writes the report; the approver of one that   *)
(* must be signed is registered until its pointers are made, and then they *)
(* carry the revision it will commit.                                      *)
OneWriter ==
    \A g, h \in Server : {job[g].stage, job[h].stage} \subseteq {"freeze", "commit"} => g = h
ApprovalJob(h) ==
    Approves(h) /\ MustSign =>
        /\ job[h].op = "transition" /\ job[h].stage \in {"write", "freeze"} =>
              registered[job[h].user] # NoKey
        /\ job[h].stage = "commit" => ApprovalFrozen(h)
ApprovalInvariant == OneWriter /\ \A h \in Server : ApprovalJob(h)

(* Registrations are replaced, never withdrawn.                            *)
StillRegistered == \A u \in User : registered[u] # NoKey => registered'[u] # NoKey

(* A job that does not change stays sound while its revision stands.       *)
LEMMA SameApproval ==
  ASSUME PictureInvariant, NEW g \in Server, ApprovalJob(g), UNCHANGED fixedVars,
         StillRegistered, job'[g] = job[g],
         job[g].stage = "commit" => header'.revision = header.revision
  PROVE  ApprovalJob(g)'
<1>1. (Approves(g)' <=> Approves(g)) /\ (MustSign' <=> MustSign)
      /\ ApprovalSlots' = ApprovalSlots
  BY DEF Approves, MustSign, ApprovalSlots, fixedVars
<1>2. job[g].stage = "commit" => RevisionAfter(g)' = RevisionAfter(g)
  BY DEF RevisionAfter, IsReopen
<1>3. job[g].stage = "commit" /\ ApprovalFrozen(g) => ApprovalFrozen(g)'
  BY <1>1, <1>2 DEF ApprovalFrozen
<1>4. job[g].op = "transition" => job[g].user \in User
  BY JobIsSound DEF SoundJob
<1> QED BY <1>1, <1>3, <1>4 DEF ApprovalJob, StillRegistered

(* A handler takes a step that leaves no approval about.                   *)
LEMMA ElsewhereStep ==
  ASSUME PictureInvariant, ApprovalInvariant, NEW h \in Server, NEW stages,
         Reaches(h, stages), stages \cap {"write", "freeze", "commit"} = {},
         UNCHANGED fixedVars, StillRegistered,
         header'.revision = header.revision \/ job[h].stage = "commit"
  PROVE  ApprovalInvariant'
<1>1. OneWriter'
  BY DEF ApprovalInvariant, OneWriter, Reaches
<1>2. ASSUME NEW g \in Server PROVE ApprovalJob(g)'
  <2>1. CASE g = h
    BY <2>1 DEF ApprovalJob, Reaches
  <2>2. CASE g # h
    <3>1. job'[g] = job[g]
      BY <2>2 DEF Reaches
    <3>2. job[g].stage = "commit" => header'.revision = header.revision
      BY <2>2 DEF ApprovalInvariant, OneWriter
    <3> QED BY <3>1, <3>2, SameApproval DEF ApprovalInvariant
  <2> QED BY <2>1, <2>2
<1> QED BY <1>1, <1>2 DEF ApprovalInvariant

(* A step about the approval itself.                                       *)
LEMMA ApprovalStep ==
  ASSUME PictureInvariant, ApprovalInvariant, NEW h \in Server, NEW stages,
         Reaches(h, stages), UNCHANGED <<fixedVars, header, registered>>, ApprovalJob(h)',
         \/ stages \cap {"freeze", "commit"} = {}
         \/ job[h].stage = "freeze"
         \/ ~RowLocked
  PROVE  ApprovalInvariant'
<1>1. OneWriter'
  BY DEF ApprovalInvariant, OneWriter, Reaches, RowLocked
<1>2. ASSUME NEW g \in Server PROVE ApprovalJob(g)'
  <2>1. CASE g # h
    BY <2>1, SameApproval DEF ApprovalInvariant, Reaches, StillRegistered
  <2> QED BY <2>1
<1> QED BY <1>1, <1>2 DEF ApprovalInvariant

LEMMA BeginTransitionApproval ==
  ASSUME PictureInvariant, ApprovalInvariant, NEW h \in Server, NEW u \in User,
         NEW to \in ReportStatus, BeginTransition(h, u, to)
  PROVE  ApprovalInvariant'
<1> DEFINE R == [Idle EXCEPT !.op = "transition", !.stage = "write", !.user = u,
                             !.from = header.status, !.to = to,
                             !.version = header.version, !.revision = header.revision]
<1>1. /\ UNCHANGED <<fixedVars, header, registered>> /\ job' = [job EXCEPT ![h] = R]
      /\ to = "APPROVED" /\ header.status # "ON_HOLD" => MaySign(u)
  BY Zenon DEF BeginTransition
<1>2. /\ R.op = "transition" /\ R.stage = "write" /\ R.user = u /\ R.from = header.status
      /\ R.to = to
  BY DEF Idle
<1>3. job'[h] = R
  BY <1>1, JobIsSound
<1> HIDE DEF R
<1>4. Approves(h)' /\ MustSign' => registered'[u] # NoKey
  BY <1>1, <1>2, <1>3 DEF Approves, MaySign, MustSign, fixedVars
<1>5. ApprovalJob(h)'
  BY <1>2, <1>3, <1>4 DEF ApprovalJob
<1>6. Reaches(h, {"write"})
  BY BeginReaches
<1> QED BY <1>1, <1>5, <1>6, ApprovalStep

LEMMA BeginBatchApprovalApproval ==
  ASSUME PictureInvariant, ApprovalInvariant, NEW h \in Server, NEW u \in User,
         BeginBatchApproval(h, u)
  PROVE  ApprovalInvariant'
<1> DEFINE R == [Idle EXCEPT !.op = "batch", !.stage = "write", !.user = u,
                             !.from = header.status, !.to = "APPROVED",
                             !.version = header.version, !.revision = header.revision]
<1>1. UNCHANGED <<fixedVars, header, registered>> /\ job' = [job EXCEPT ![h] = R]
  BY Zenon DEF BeginBatchApproval
<1>2. R.op = "batch" /\ R.stage = "write"
  BY DEF Idle
<1>3. job'[h] = R
  BY <1>1, JobIsSound
<1> HIDE DEF R
<1>4. ApprovalJob(h)'
  BY <1>2, <1>3 DEF ApprovalJob
<1>5. Reaches(h, {"write"})
  BY BeginReaches
<1> QED BY <1>1, <1>4, <1>5, ApprovalStep

LEMMA WriteReportApproval ==
  ASSUME PictureInvariant, ApprovalInvariant, NEW h \in Server, WriteReport(h)
  PROVE  ApprovalInvariant'
<1>1. /\ job \in [Server -> Job] /\ job[h] \in Job /\ job[h].stage = "write" /\ ~RowLocked
      /\ UNCHANGED <<fixedVars, header, registered>>
      /\ Done(h) \/ Go(h, "freeze")
  BY JobIsSound DEF WriteReport
<1>2. ApprovalJob(h)'
  <2>1. CASE Done(h)
    BY <1>1, <2>1 DEF Done, ApprovalJob, Idle
  <2>2. CASE Go(h, "freeze")
    <3>1. /\ job'[h].op = job[h].op /\ job'[h].stage = "freeze"
          /\ job'[h].user = job[h].user /\ job'[h].from = job[h].from
          /\ job'[h].to = job[h].to
      BY <1>1, <2>2 DEF Go, Job
    <3>2. (Approves(h)' <=> Approves(h)) /\ (MustSign' <=> MustSign)
      BY <1>1, <3>1 DEF Approves, MustSign, fixedVars
    <3> QED BY <1>1, <3>1, <3>2 DEF ApprovalInvariant, ApprovalJob
  <2> QED BY <1>1, <2>1, <2>2
<1>3. Reaches(h, {"none", "freeze"})
  BY StepReaches
<1> QED BY <1>1, <1>2, <1>3, ApprovalStep

(* The pointers made under the lock carry the revision of the commit.      *)
LEMMA FreezeApproval ==
  ASSUME PictureInvariant, ApprovalInvariant, NEW h \in Server, FreezeInTransaction(h)
  PROVE  ApprovalInvariant'
<1> DEFINE submits == job[h].op = "transition" /\ job[h].to = "PENDING_APPROVAL"
           a == IF submits THEN FreezeNow({InspectorSlot}, inspector, 0) ELSE << >>
           b == IF Approves(h) THEN FreezeNow(ApprovalSlots, job[h].user, RevisionTagged(h))
                ELSE << >>
           frozenNow == FreezeNow(ApprovalSlots, job[h].user, RevisionTagged(h))
<1>1. /\ job \in [Server -> Job] /\ job[h] \in Job /\ job[h].stage = "freeze"
      /\ UNCHANGED <<fixedVars, header, registered>>
      /\ IF job[h].op = "batch" /\ Approves(h) /\ ~MaySign(job[h].user)
         THEN Done(h)
         ELSE job' = [job EXCEPT ![h].stage = "commit", ![h].rows = a \o b]
  <2>1. /\ job[h].stage = "freeze" /\ UNCHANGED <<fixedVars, header, registered>>
        /\ IF job[h].op = "batch" /\ Approves(h) /\ ~MaySign(job[h].user)
           THEN Done(h)
           ELSE job' = [job EXCEPT ![h].stage = "commit", ![h].rows = a \o b]
    BY Zenon DEF FreezeInTransaction
  <2> QED BY <2>1, JobIsSound
<1>2. /\ job[h].op \in {"transition", "batch"} /\ job[h].user \in User
  <2>1. job[h].op \in {"transition", "batch"}
    BY <1>1, JobIsSound, StagesFollow
  <2> QED BY <2>1, JobIsSound DEF SoundJob
<1>3. ApprovalJob(h)'
  <2>1. CASE Done(h)
    BY <1>1, <2>1 DEF Done, ApprovalJob, Idle
  <2>2. CASE /\ ~(job[h].op = "batch" /\ Approves(h) /\ ~MaySign(job[h].user))
             /\ job' = [job EXCEPT ![h].stage = "commit", ![h].rows = a \o b]
    <3> DEFINE rows == a \o b
    <3>1. job' = [job EXCEPT ![h].stage = "commit", ![h].rows = rows]
      BY <2>2
    <3> HIDE DEF rows
    <3>2. /\ job'[h].op = job[h].op /\ job'[h].stage = "commit" /\ job'[h].rows = rows
          /\ job'[h].user = job[h].user /\ job'[h].from = job[h].from
          /\ job'[h].to = job[h].to /\ job'[h].revision = job[h].revision
      BY <1>1, <3>1 DEF Job
    <3>3. (Approves(h)' <=> Approves(h)) /\ (MustSign' <=> MustSign)
          /\ ApprovalSlots' = ApprovalSlots
      BY <1>1, <3>2 DEF Approves, MustSign, ApprovalSlots, fixedVars
    <3>4. RevisionAfter(h)' = RevisionAfter(h)
      BY <1>1, <3>2 DEF RevisionAfter, IsReopen
    <3> SUFFICES ASSUME Approves(h), MustSign PROVE ApprovalFrozen(h)'
      BY <3>2, <3>3 DEF ApprovalJob
    <3>5. registered[job[h].user] # NoKey
      BY <1>1, <1>2, <2>2 DEF ApprovalInvariant, ApprovalJob, MaySign
    <3>6. IsFiniteSet(ApprovalSlots)
      <4>1. IsFiniteSet({SupervisorSlot})
        BY FS_Singleton
      <4>2. layout.slots \cap {SupervisorSlot} \in SUBSET {SupervisorSlot}
        OBVIOUS
      <4>3. IsFiniteSet(layout.slots \cap {SupervisorSlot})
        BY <4>1, <4>2, FS_Subset
      <4> QED BY <4>3, FS_Union, SignatureAssumption DEF ApprovalSlots
    <3>7. ApprovalSlots \in SUBSET (SupervisorField \cup RoleSlot) /\ RevisionTagged(h) \in Nat
      BY DEF ApprovalSlots, RoleSlot, RevisionTagged, RevisionAfter, PictureInvariant,
             SignaturesTypeOK, Header
    <3>8. rows = frozenNow
      <4>1. ~submits
        BY DEF Approves
      <4>2. frozenNow \in Seq(Pointer)
        BY <1>2, <3>6, <3>7, FreezeNowSound
      <4>3. rows = << >> \o frozenNow
        BY <4>1 DEF rows
      <4> HIDE DEF frozenNow
      <4> QED BY <4>2, <4>3
    <3>9. /\ \A i \in DOMAIN rows : rows[i].signer = job[h].user
          /\ \A s \in ApprovalSlots : \E i \in DOMAIN rows :
                rows[i].slot = s /\ rows[i].revision = RevisionAfter(h)
      <4>1. /\ \A i \in DOMAIN frozenNow : frozenNow[i].signer = job[h].user
            /\ \A s \in ApprovalSlots : \E i \in DOMAIN frozenNow :
                  frozenNow[i].slot = s /\ frozenNow[i].revision = RevisionTagged(h)
        BY <3>5, <3>6, FreezeNowCovers
      <4> HIDE DEF frozenNow
      <4> QED BY <3>8, <4>1 DEF RevisionTagged
    <3> QED BY <3>2, <3>3, <3>4, <3>9 DEF ApprovalFrozen
  <2> QED BY <1>1, <2>1, <2>2
<1>4. Reaches(h, {"none", "commit"})
  BY StepReaches
<1> QED BY <1>1, <1>3, <1>4, ApprovalStep

LEMMA ApprovalInit == SignaturesInit => ApprovalInvariant
BY DEF SignaturesInit, ApprovalInvariant, OneWriter, ApprovalJob, Idle

LEMMA ApprovalNext ==
  PictureInvariant /\ ApprovalInvariant /\ [SignaturesNext]_signatureVars
  => ApprovalInvariant'
<1> SUFFICES ASSUME PictureInvariant, ApprovalInvariant, [SignaturesNext]_signatureVars
             PROVE  ApprovalInvariant'
  OBVIOUS
<1>1. UNCHANGED fixedVars
  BY FixedKept
<1>2. ASSUME NEW h \in Server, NEW u \in User, BeginBatchApproval(h, u)
      PROVE  ApprovalInvariant'
  BY <1>2, BeginBatchApprovalApproval
<1>3. ASSUME NEW h \in Server, NEW u \in User, NEW to \in ReportStatus,
             BeginTransition(h, u, to)
      PROVE  ApprovalInvariant'
  BY <1>3, BeginTransitionApproval
<1>4. ASSUME NEW h \in Server, WriteReport(h) PROVE ApprovalInvariant'
  BY <1>4, WriteReportApproval
<1>5. ASSUME NEW h \in Server, FreezeInTransaction(h) PROVE ApprovalInvariant'
  BY <1>5, FreezeApproval
<1>6. ASSUME NEW h \in Server, NEW stages, Reaches(h, stages),
             stages \cap {"write", "freeze", "commit"} = {},
             header' = header, registered' = registered
      PROVE  ApprovalInvariant'
  BY <1>1, <1>6, ElsewhereStep DEF StillRegistered
<1>7. ASSUME NEW h \in Server,
             \/ \E u \in User :
                   \/ BeginRegistration(h, u)
                   \/ \E f \in CustomerField : BeginSigning(h, u, f)
             \/ BeginExport(h)
      PROVE  ApprovalInvariant'
  <2>1. header' = header /\ registered' = registered
    BY <1>7 DEF BeginRegistration, BeginSigning, BeginExport
  <2>2. Reaches(h, {"put"}) \/ Reaches(h, {"fields"})
    BY <1>7, BeginReaches, Zenon
  <2> QED BY <1>6, <2>1, <2>2
<1>8. ASSUME NEW h \in Server,
             \/ PutPicture(h) \/ CountPointers(h) \/ DropPicture(h) \/ InsertSigned(h)
             \/ AdoptSignature(h) \/ InsertAdopted(h) \/ FinishExport(h)
      PROVE  ApprovalInvariant'
  <2>1. header' = header /\ registered' = registered
    BY <1>8, Zenon DEF PutPicture, CountPointers, DropPicture, InsertSigned,
                       AdoptSignature, InsertAdopted, FinishExport
  <2>2. \/ Reaches(h, {"point", "check"}) \/ Reaches(h, {"none", "count"})
        \/ Reaches(h, {"none", "drop"}) \/ Reaches(h, {"none"})
        \/ Reaches(h, {"adopt"}) \/ Reaches(h, {"none", "fields"})
    BY <1>8, StepReaches, Zenon
  <2> QED BY <1>6, <2>1, <2>2
<1>9. ASSUME NEW h \in Server, CheckUnsigned(h) PROVE ApprovalInvariant'
  <2>1. /\ job \in [Server -> Job] /\ job[h] \in Job /\ h \in servers
        /\ header' = header /\ registered' = registered
    BY <1>9, JobIsSound DEF CheckUnsigned, At
  <2>2. CASE Go(h, "count")
    <3>1. Reaches(h, {"count"})
      BY <1>9, <2>2, GoReaches DEF CheckUnsigned, At
    <3> QED BY <1>6, <2>1, <3>1
  <2>3. CASE job' = [job EXCEPT ![h].stage = "insert", ![h].revision = header.revision]
    <3>1. Reaches(h, {"insert"})
      BY <2>1, <2>3 DEF Reaches, Job
    <3> QED BY <1>6, <2>1, <3>1
  <2> QED BY <1>9, <2>2, <2>3 DEF CheckUnsigned
<1>10. ASSUME NEW h \in Server, PointAtPicture(h) PROVE ApprovalInvariant'
  <2>1. Reaches(h, {"none", "count"}) /\ header' = header
    BY <1>10, StepReaches DEF PointAtPicture
  <2>2. StillRegistered
    <3>1. job[h].key # NoKey /\ registered \in [User -> Nat]
      BY <1>10, JobIsSound DEF PointAtPicture, At, SoundJob, PictureInvariant,
                               SignaturesTypeOK
    <3>2. registered' = [registered EXCEPT ![job[h].user] = job[h].key]
      BY <1>10 DEF PointAtPicture
    <3> QED BY <3>1, <3>2 DEF StillRegistered
  <2> QED BY <1>1, <2>1, <2>2, ElsewhereStep
<1>11. ASSUME NEW h \in Server, CommitReport(h) PROVE ApprovalInvariant'
  <2>1. Reaches(h, {"none"}) /\ StillRegistered /\ job[h].stage = "commit"
    BY <1>11, StepReaches DEF CommitReport, StillRegistered
  <2> QED BY <1>1, <2>1, ElsewhereStep
<1>12. CASE Restart
  <2>1. \A h \in Server : job'[h] = Idle
    BY <1>12 DEF Restart
  <2> QED BY <2>1 DEF ApprovalInvariant, OneWriter, ApprovalJob, Idle
<1>13. CASE (\E u \in User : WorkOn(u) \/ DeleteReport(u)) \/ UNCHANGED signatureVars
  <2>1. job' = job /\ StillRegistered
    BY <1>13 DEF WorkOn, DeleteReport, signatureVars, StillRegistered
  <2>2. header'.revision = header.revision
    <3>1. header' = header \/ header' = [header EXCEPT !.status = "DELETED", !.version = @ + 1]
      BY <1>13 DEF WorkOn, DeleteReport, signatureVars
    <3> QED BY <3>1 DEF PictureInvariant, SignaturesTypeOK, Header
  <2>3. \A g \in Server : ApprovalJob(g)'
    BY <1>1, <2>1, <2>2, SameApproval DEF ApprovalInvariant
  <2> QED BY <2>1, <2>3 DEF ApprovalInvariant, OneWriter
<1> QED BY <1>2, <1>3, <1>4, <1>5, <1>7, <1>8, <1>9, <1>10, <1>11, <1>12, <1>13, Zenon
        DEF SignaturesNext

LEMMA CommitIsSigned ==
  ASSUME PictureInvariant, ApprovalInvariant, NEW h \in Server, CommitReport(h),
         Approves(h), MustSign, NEW s \in ApprovalSlots
  PROVE  CurrentPointer(s, header.revision)'.signer = job[h].user
<1>1. /\ frozen' = frozen \o job[h].rows /\ header'.revision = RevisionAfter(h)
      /\ job[h].stage = "commit"
  BY DEF CommitReport
<1>2. frozen \in Seq(Pointer) /\ job[h].rows \in Seq(Pointer)
  BY JobIsSound DEF PictureInvariant, SignaturesTypeOK, Job
<1>3. ApprovalFrozen(h)
  BY <1>1 DEF ApprovalInvariant, ApprovalJob
<1>4. PICK r : r = RevisionAfter(h)
  OBVIOUS
<1>5. PICK rows : rows = job[h].rows
  OBVIOUS
<1>6. PICK n \in DOMAIN rows : rows[n].slot = s /\ rows[n].revision = r
  BY <1>3, <1>4, <1>5 DEF ApprovalFrozen
<1>7. PICK i \in DOMAIN rows : CurrentPointer(s, r)' = rows[i]
  <2>1. frozen \in Seq(Pointer) /\ rows \in Seq(Pointer) /\ frozen' = frozen \o rows
    BY <1>1, <1>2, <1>5
  <2>2. rows[n].slot = s /\ rows[n].revision = r
    BY <1>6
  <2> QED BY <2>1, <2>2, AppendedIsCurrent
<1>8. CurrentPointer(s, header.revision)' = CurrentPointer(s, r)'
  BY <1>1, <1>4 DEF CurrentPointer, PointersOf
<1> QED BY <1>3, <1>5, <1>7, <1>8 DEF ApprovalFrozen

(* However requests race, an approval of a report whose template asks for  *)
(* the approver's signature leaves it current in every approval slot: the  *)
(* pointers are made under the lock of the row and carry the revision that *)
(* the same transaction commits.                                           *)
THEOREM ApprovalsAreSigned == SignaturesSpec => ApprovalIsSigned
<1>1. PictureInvariant /\ ApprovalInvariant =>
        [\A h \in Server :
          /\ CommitReport(h)
          /\ Approves(h)
          /\ MustSign
          => \A s \in ApprovalSlots :
                CurrentPointer(s, header.revision)'.signer = job[h].user]_signatureVars
  BY CommitIsSigned
<1> QED BY PictureInit, PictureNext, ApprovalInit, ApprovalNext, <1>1, PTL
        DEF SignaturesSpec, ApprovalIsSigned
============================================================================
