------------------------- MODULE CustomerFilesProofs -------------------------
(***************************************************************************)
(* Proofs about CustomerFiles, for every set of customers, attachments and *)
(* handlers and every bound: a logo that nothing points at is in the hands *)
(* of a request; and on a local disk an attachment whose upload was        *)
(* answered is read back as it was uploaded.                               *)
(***************************************************************************)
EXTENDS CustomerFiles, TLAPS

----------------------------------------------------------------------------
(* Logos.                                                                  *)

CustomerRow == [is : {"unborn", "here", "gone"}, active : BOOLEAN, version : Nat, logo : Nat]

Request == {"none", "update", "setActive", "setLogo", "removeLogo", "upload", "deleteReport"}
UploadStage == {"row", "putFile", "link", "log", "clean", "cleanFile"}
LogoStage == {"putLogo", "pointLogo", "dropNew", "dropOld"}
Stage == UploadStage \cup LogoStage \cup {"none", "write", "rows", "objects"}

FileWork == [op : Request, stage : Stage, customer : Customer \cup {NoCustomer}, version : Nat,
             old : Nat, new : Nat, file : Attachment \cup {"none"},
             owner : Customer \cup {NoCustomer}]

FilesTypeOK ==
    /\ customer \in [Customer -> CustomerRow]
    /\ logos \subseteq Customer \X Nat
    /\ logosDrawn \in Nat
    /\ report \in [owner : Customer \cup {NoCustomer}, phase : {"open", "locked", "deleted"}]
    /\ disrupted \subseteq Customer
    /\ work \in [FileServer -> FileWork]

(* A request that is to point the row at a logo, and what it has read: no  *)
(* version is used twice, so the version it judged still has the old logo. *)
LogoJudged(w) ==
    /\ Doing(w, "putLogo") => work[w].op = "setLogo"
    /\ Doing(w, "pointLogo") => work[w].op \in {"setLogo", "removeLogo"}
    /\ Doing(w, "putLogo") \/ Doing(w, "pointLogo") =>
          LET c == work[w].customer IN
          /\ c \in Customer
          /\ work[w].version <= customer[c].version
          /\ work[w].version = customer[c].version => work[w].old = customer[c].logo
    /\ Doing(w, "write") => work[w].customer \in Customer

(* The request that will point at a logo or delete it.                     *)
Holds(w, c, k) ==
    /\ work[w].customer = c
    /\ \/ Doing(w, "pointLogo") /\ work[w].op = "setLogo" /\ work[w].new = k
       \/ Doing(w, "dropNew") /\ work[w].new = k
       \/ Doing(w, "dropOld") /\ work[w].old = k

Accounted(c, k) ==
    \/ c \in disrupted
    \/ customer[c].logo = k
    \/ \E w \in FileServer : Holds(w, c, k)

LogoInvariant ==
    /\ FilesTypeOK
    /\ \A w \in FileServer : LogoJudged(w)
    /\ \A k \in logos : Accounted(k[1], k[2])

LEMMA RestingIsWork ==
    /\ Resting \in FileWork
    /\ Resting.stage = "none" /\ Resting.op = "none" /\ Resting.file = "none"
    /\ Resting.customer = NoCustomer
  BY DEF Resting, FileWork, NoLogo, Request, Stage

LEMMA InitLogos == CustomerFilesInit => LogoInvariant
<1> SUFFICES ASSUME CustomerFilesInit PROVE LogoInvariant
  OBVIOUS
<1>1. customer \in [Customer -> CustomerRow]
  <2> DEFINE First == [is : {"unborn", "here"}, active : {TRUE}, version : {1}, logo : {NoLogo}]
  <2>1. {TRUE} \subseteq BOOLEAN /\ {1} \subseteq Nat /\ {NoLogo} \subseteq Nat
    BY DEF NoLogo
  <2>2. First \subseteq CustomerRow
    BY <2>1 DEF CustomerRow
  <2>3. customer \in [Customer -> First]
    BY DEF CustomerFilesInit
  <2> HIDE DEF First
  <2> QED BY <2>2, <2>3
<1>2. report \in [owner : Customer \cup {NoCustomer}, phase : {"open", "locked", "deleted"}]
  <2>1. PICK o \in Customer \cup {NoCustomer} : report = [owner |-> o, phase |-> "open"]
    BY DEF CustomerFilesInit
  <2> QED BY <2>1
<1>3. \A w \in FileServer : work[w] = Resting
  BY DEF CustomerFilesInit
<1>4. work \in [FileServer -> FileWork]
  BY RestingIsWork DEF CustomerFilesInit
<1>5. FilesTypeOK
  BY <1>1, <1>2, <1>4 DEF CustomerFilesInit, FilesTypeOK, NoLogo
<1>6. \A w \in FileServer : LogoJudged(w)
  BY <1>3, RestingIsWork DEF LogoJudged, Doing
<1> QED BY <1>5, <1>6 DEF LogoInvariant, CustomerFilesInit

LEMMA ProceedIs ==
    ASSUME work \in [FileServer -> FileWork], NEW w \in FileServer, NEW stage \in Stage,
           Proceed(w, stage)
    PROVE  \E job \in FileWork :
              /\ work' = [work EXCEPT ![w] = job]
              /\ job.stage = stage
              /\ job.op = work[w].op /\ job.customer = work[w].customer
              /\ job.version = work[w].version /\ job.old = work[w].old
              /\ job.new = work[w].new /\ job.file = work[w].file
              /\ job.owner = work[w].owner
<1> DEFINE J == [work[w] EXCEPT !.stage = stage]
<1>1. work[w] \in FileWork
  OBVIOUS
<1>2. /\ J \in FileWork /\ J.stage = stage
      /\ J.op = work[w].op /\ J.customer = work[w].customer
      /\ J.version = work[w].version /\ J.old = work[w].old
      /\ J.new = work[w].new /\ J.file = work[w].file /\ J.owner = work[w].owner
  BY <1>1 DEF FileWork
<1>3. work' = [work EXCEPT ![w] = J]
  BY DEF Proceed
<1> QED BY <1>2, <1>3

(* A handler that judged a customer's row remembers what it read.          *)
LEMMA JudgeIs ==
    ASSUME FilesTypeOK, NEW w \in FileServer, NEW c \in Customer,
           NEW op \in Request, NEW stage \in Stage, Judge(w, c, op, stage)
    PROVE  /\ work[w] = Resting
           /\ \E job \in FileWork :
                 /\ work' = [work EXCEPT ![w] = job]
                 /\ job.stage = stage /\ job.op = op /\ job.customer = c
                 /\ job.version = customer[c].version /\ job.old = customer[c].logo
<1> DEFINE J == [Resting EXCEPT !.op = op, !.stage = stage, !.customer = c,
                                !.version = customer[c].version,
                                !.old = customer[c].logo]
<1>1. customer[c].version \in Nat /\ customer[c].logo \in Nat
  BY DEF FilesTypeOK, CustomerRow
<1>2. Resting \in FileWork
  BY RestingIsWork
<1>3. J \in FileWork
  BY <1>1, <1>2 DEF FileWork
<1>4. /\ J.stage = stage /\ J.op = op /\ J.customer = c
      /\ J.version = customer[c].version /\ J.old = customer[c].logo
  BY <1>1, <1>2 DEF FileWork
<1>5. work' = [work EXCEPT ![w] = J] /\ work[w] = Resting
  BY DEF Judge, Rests
<1> QED BY <1>3, <1>4, <1>5

(* A step of one handler w: what the others judged still stands, because   *)
(* a row whose logo changes gets a new version.                            *)
LEMMA JobKeepsJudged ==
    ASSUME LogoInvariant, NEW w \in FileServer, NEW job \in FileWork,
           work' = [work EXCEPT ![w] = job],
           customer' \in [Customer -> CustomerRow],
           logos' \subseteq Customer \X Nat, logosDrawn' \in Nat, disrupted' \subseteq Customer,
           report' \in [owner : Customer \cup {NoCustomer}, phase : {"open", "locked", "deleted"}],
           \A c \in Customer :
              /\ customer[c].version <= customer'[c].version
              /\ customer'[c].version = customer[c].version
                 => customer'[c].logo = customer[c].logo,
           LogoJudged(w)',
           \A k \in logos' : Accounted(k[1], k[2])'
    PROVE  LogoInvariant'
<1>1. work \in [FileServer -> FileWork]
  BY DEF LogoInvariant, FilesTypeOK
<1>2. work' \in [FileServer -> FileWork] /\ \A v \in FileServer \ {w} : work'[v] = work[v]
  BY <1>1
<1>3. FilesTypeOK'
  BY <1>2 DEF FilesTypeOK
<1>4. ASSUME NEW v \in FileServer
      PROVE  LogoJudged(v)'
  <2>1. CASE v = w
    BY <2>1
  <2>2. CASE v # w
    <3>1. LogoJudged(v) /\ work'[v] = work[v]
      BY <1>2, <2>2 DEF LogoInvariant
    <3>2. ASSUME Doing(v, "putLogo") \/ Doing(v, "pointLogo")
          PROVE  /\ work[v].customer \in Customer
                 /\ work[v].version <= customer'[work[v].customer].version
                 /\ work[v].version = customer'[work[v].customer].version
                    => work[v].old = customer'[work[v].customer].logo
      <4> DEFINE c == work[v].customer
      <4>1. /\ c \in Customer /\ work[v].version <= customer[c].version
            /\ work[v].version = customer[c].version => work[v].old = customer[c].logo
        BY <3>1, <3>2 DEF LogoJudged
      <4>2. /\ customer[c].version \in Nat /\ customer'[c].version \in Nat
            /\ work[v].version \in Nat
        BY <1>1, <4>1 DEF LogoInvariant, FilesTypeOK, CustomerRow, FileWork
      <4>3. /\ customer[c].version <= customer'[c].version
            /\ customer'[c].version = customer[c].version
               => customer'[c].logo = customer[c].logo
        BY <4>1
      <4> HIDE DEF c
      <4>4. /\ work[v].version <= customer'[c].version
            /\ work[v].version = customer'[c].version => work[v].old = customer'[c].logo
        BY <4>1, <4>2, <4>3
      <4> QED BY <4>1, <4>4 DEF c
    <3> QED BY <3>1, <3>2 DEF LogoJudged, Doing
  <2> QED BY <2>1, <2>2
<1> QED BY <1>3, <1>4 DEF LogoInvariant

(* A step of one handler that held no object of the store, or still holds  *)
(* it: every object is accounted for as before.                            *)
LEMMA JobKeepsAccounts ==
    ASSUME LogoInvariant, NEW w \in FileServer, NEW job \in FileWork,
           work' = [work EXCEPT ![w] = job],
           disrupted \subseteq disrupted', logos' \subseteq logos,
           \A c \in Customer : customer'[c].logo = customer[c].logo,
           ~Doing(w, "pointLogo") /\ ~Doing(w, "dropNew") /\ ~Doing(w, "dropOld")
    PROVE  \A k \in logos' : Accounted(k[1], k[2])'
<1>1. work \in [FileServer -> FileWork]
  BY DEF LogoInvariant, FilesTypeOK
<1>2. \A v \in FileServer \ {w} : work'[v] = work[v]
  BY <1>1
<1>3. ASSUME NEW k \in logos'
      PROVE  Accounted(k[1], k[2])'
  <2>1. k[1] \in Customer /\ Accounted(k[1], k[2])
    BY DEF LogoInvariant, FilesTypeOK
  <2>2. CASE k[1] \in disrupted \/ customer[k[1]].logo = k[2]
    BY <2>1, <2>2 DEF Accounted
  <2>3. ASSUME NEW v \in FileServer, Holds(v, k[1], k[2])
        PROVE  Accounted(k[1], k[2])'
    <3>1. v # w
      BY <2>3 DEF Holds
    <3>2. Holds(v, k[1], k[2])'
      BY <1>2, <2>3, <3>1 DEF Holds, Doing
    <3> QED BY <3>2 DEF Accounted
  <2> QED BY <2>1, <2>2, <2>3 DEF Accounted
<1> QED BY <1>3

(* A step of a handler that held nothing and touches no customer.          *)
LEMMA JudgingStepKeeps ==
    ASSUME LogoInvariant, NEW w \in FileServer, NEW job \in FileWork,
           work' = [work EXCEPT ![w] = job], LogoJudged(w)',
           ~Doing(w, "pointLogo") /\ ~Doing(w, "dropNew") /\ ~Doing(w, "dropOld"),
           report' \in [owner : Customer \cup {NoCustomer}, phase : {"open", "locked", "deleted"}],
           UNCHANGED customerVars
    PROVE  LogoInvariant'
<1>1. FilesTypeOK /\ work \in [FileServer -> FileWork]
  BY DEF LogoInvariant, FilesTypeOK
<1>4. \A k \in logos' : Accounted(k[1], k[2])'
  BY JobKeepsAccounts DEF customerVars
<1>5. \A c \in Customer : customer[c].version \in Nat
  BY <1>1 DEF FilesTypeOK, CustomerRow
<1>6. /\ customer' \in [Customer -> CustomerRow]
      /\ logos' \subseteq Customer \X Nat /\ logosDrawn' \in Nat /\ disrupted' \subseteq Customer
      /\ \A c \in Customer :
            /\ customer[c].version <= customer'[c].version
            /\ customer'[c].version = customer[c].version
               => customer'[c].logo = customer[c].logo
  BY <1>1, <1>5 DEF FilesTypeOK, customerVars
<1> QED BY <1>4, <1>6, JobKeepsJudged

(* A step that neither begins nor goes on with a request about a customer. *)
LEMMA OtherStepKeeps ==
    ASSUME LogoInvariant, NEW w \in FileServer, NEW job \in FileWork,
           work' = [work EXCEPT ![w] = job],
           job.stage \notin {"putLogo", "pointLogo", "write"},
           ~Doing(w, "pointLogo") /\ ~Doing(w, "dropNew") /\ ~Doing(w, "dropOld"),
           report' \in [owner : Customer \cup {NoCustomer}, phase : {"open", "locked", "deleted"}],
           UNCHANGED customerVars
    PROVE  LogoInvariant'
<1>1. work'[w] = job
  BY DEF LogoInvariant, FilesTypeOK
<1>2. LogoJudged(w)'
  BY <1>1 DEF LogoJudged, Doing
<1> QED BY <1>2, JudgingStepKeeps

LEMMA RestingHoldsNothing ==
    ASSUME NEW w, work[w] = Resting
    PROVE  ~Doing(w, "pointLogo") /\ ~Doing(w, "dropNew") /\ ~Doing(w, "dropOld")
  BY RestingIsWork DEF Doing

LEMMA RestIs ==
    ASSUME NEW w, Rest(w)
    PROVE  work' = [work EXCEPT ![w] = Resting] /\ Resting \in FileWork
  BY RestingIsWork DEF Rest

LEMMA JudgedRow ==
    ASSUME FilesTypeOK, NEW c \in Customer
    PROVE  customer[c].version \in Nat /\ customer[c].logo \in Nat
  BY DEF FilesTypeOK, CustomerRow

LEMMA JudgeUpdateKeepsLogos ==
    ASSUME LogoInvariant, NEW w \in FileServer, NEW c \in Customer, JudgeUpdate(w, c)
    PROVE  LogoInvariant'
<1>1. PICK op \in {"update", "setActive"} : Judge(w, c, op, "write")
  BY DEF JudgeUpdate
<1>2. /\ UNCHANGED customerVars /\ UNCHANGED report
  BY DEF JudgeUpdate, attachmentVars
<1>3. FilesTypeOK /\ op \in Request /\ "write" \in Stage
  BY DEF LogoInvariant, Request, Stage
<1>4. /\ work[w] = Resting
      /\ \E job \in FileWork :
            /\ work' = [work EXCEPT ![w] = job]
            /\ job.stage = "write" /\ job.op = op /\ job.customer = c
            /\ job.version = customer[c].version /\ job.old = customer[c].logo
  BY <1>1, <1>3, JudgeIs
<1>5. PICK job \in FileWork : /\ work' = [work EXCEPT ![w] = job]
                              /\ job.stage = "write" /\ job.customer = c
  BY <1>4
<1>6. ~Doing(w, "pointLogo") /\ ~Doing(w, "dropNew") /\ ~Doing(w, "dropOld")
  BY <1>4, RestingHoldsNothing
<1>7. report' \in [owner : Customer \cup {NoCustomer}, phase : {"open", "locked", "deleted"}]
  BY <1>2, <1>3 DEF FilesTypeOK
<1>8. LogoJudged(w)'
  <2>1. work'[w] = job
    BY <1>3, <1>5 DEF FilesTypeOK
  <2> QED BY <1>5, <2>1 DEF LogoJudged, Doing
<1> QED BY <1>2, <1>5, <1>6, <1>7, <1>8, JudgingStepKeeps

(* A request to set or remove a logo has read the row as it is.            *)
LEMMA JudgeForLogoKeeps ==
    ASSUME LogoInvariant, NEW w \in FileServer, NEW c \in Customer,
           NEW op \in {"setLogo", "removeLogo"}, NEW stage \in {"putLogo", "pointLogo"},
           stage = "putLogo" => op = "setLogo",
           stage = "pointLogo" => op = "removeLogo",
           Judge(w, c, op, stage), UNCHANGED customerVars, UNCHANGED report
    PROVE  LogoInvariant'
<1>1. FilesTypeOK /\ op \in Request /\ stage \in Stage
  BY DEF LogoInvariant, Request, Stage, LogoStage
<1>2. /\ work[w] = Resting
      /\ \E job \in FileWork :
            /\ work' = [work EXCEPT ![w] = job]
            /\ job.stage = stage /\ job.op = op /\ job.customer = c
            /\ job.version = customer[c].version /\ job.old = customer[c].logo
  BY <1>1, JudgeIs
<1>3. PICK job \in FileWork :
            /\ work' = [work EXCEPT ![w] = job]
            /\ job.stage = stage /\ job.op = op /\ job.customer = c
            /\ job.version = customer[c].version /\ job.old = customer[c].logo
  BY <1>2
<1>4. ~Doing(w, "pointLogo") /\ ~Doing(w, "dropNew") /\ ~Doing(w, "dropOld")
  BY <1>2, RestingHoldsNothing
<1>5. report' \in [owner : Customer \cup {NoCustomer}, phase : {"open", "locked", "deleted"}]
  BY <1>1 DEF FilesTypeOK
<1>6. LogoJudged(w)'
  <2>1. work'[w] = job
    BY <1>1, <1>3 DEF FilesTypeOK
  <2>2. customer[c].version \in Nat
    BY <1>1, JudgedRow
  <2>3. customer' = customer
    BY DEF customerVars
  <2> QED BY <1>3, <2>1, <2>2, <2>3 DEF LogoJudged, Doing
<1> QED BY <1>3, <1>4, <1>5, <1>6, JudgingStepKeeps

LEMMA RowWritten ==
    ASSUME NEW row \in CustomerRow, NEW active \in BOOLEAN
    PROVE  LET R == [row EXCEPT !.version = @ + 1, !.active = active]
           IN  R \in CustomerRow /\ R.version = row.version + 1 /\ R.logo = row.logo
<1> DEFINE Q == [row EXCEPT !.version = row.version + 1]
           R == [Q EXCEPT !.active = active]
<1>1. Q \in CustomerRow /\ Q.version = row.version + 1 /\ Q.logo = row.logo
  BY DEF CustomerRow
<1> HIDE DEF Q
<1>2. R \in CustomerRow /\ R.version = Q.version /\ R.logo = Q.logo
  BY <1>1 DEF CustomerRow
<1>3. R = [row EXCEPT !.version = @ + 1, !.active = active]
  BY DEF Q
<1> QED BY <1>1, <1>2, <1>3

(* The new version outdates whatever was judged on the row.                *)
LEMMA WriteKeepsLogos ==
    ASSUME LogoInvariant, NEW w \in FileServer, WriteCustomer(w)
    PROVE  LogoInvariant'
<1> DEFINE c == work[w].customer
<1>1. FilesTypeOK /\ Doing(w, "write") /\ c \in Customer
  BY DEF LogoInvariant, WriteCustomer, LogoJudged
<1>2. work' = [work EXCEPT ![w] = Resting] /\ Resting \in FileWork /\ work'[w] = Resting
  BY <1>1, RestIs DEF WriteCustomer, FilesTypeOK
<1>3. UNCHANGED <<logos, logosDrawn, disrupted, report>>
  BY DEF WriteCustomer, attachmentVars
<1>4. /\ customer' \in [Customer -> CustomerRow]
      /\ \A d \in Customer :
            /\ customer[d].version <= customer'[d].version
            /\ customer'[d].logo = customer[d].logo
  <2>1. \A d \in Customer : customer[d] \in CustomerRow /\ customer[d].version \in Nat
    BY <1>1 DEF FilesTypeOK, CustomerRow
  <2>2. CASE UNCHANGED customer
    BY <1>1, <2>1, <2>2 DEF FilesTypeOK
  <2>3. CASE \E active \in BOOLEAN :
                customer' = [customer EXCEPT ![c].version = @ + 1, ![c].active = active]
    <3>1. PICK active \in BOOLEAN :
             customer' = [customer EXCEPT ![c].version = @ + 1, ![c].active = active]
      BY <2>3
    <3> DEFINE R == [customer[c] EXCEPT !.version = @ + 1, !.active = active]
    <3>2. customer' = [customer EXCEPT ![c] = R]
      BY <1>1, <3>1 DEF FilesTypeOK
    <3>3. R \in CustomerRow /\ R.version = customer[c].version + 1 /\ R.logo = customer[c].logo
      BY <1>1, <2>1, RowWritten
    <3> HIDE DEF R
    <3>4. customer' \in [Customer -> CustomerRow]
      BY <1>1, <3>2, <3>3 DEF FilesTypeOK
    <3>5. customer'[c] = R /\ \A d \in Customer \ {c} : customer'[d] = customer[d]
      BY <1>1, <3>2 DEF FilesTypeOK
    <3> QED BY <1>1, <2>1, <3>3, <3>4, <3>5
  <2>4. \/ UNCHANGED customer
        \/ \E active \in BOOLEAN :
              customer' = [customer EXCEPT ![c].version = @ + 1, ![c].active = active]
    <3>1. customer[c].active \in BOOLEAN
      BY <1>1 DEF FilesTypeOK, CustomerRow
    <3> QED BY <3>1 DEF WriteCustomer
  <2> QED BY <2>2, <2>3, <2>4
<1>5. LogoJudged(w)'
  BY <1>2, RestingIsWork DEF LogoJudged, Doing
<1>6. \A k \in logos' : Accounted(k[1], k[2])'
  BY <1>1, <1>2, <1>3, <1>4, JobKeepsAccounts DEF Doing
<1>7. /\ logos' \subseteq Customer \X Nat /\ logosDrawn' \in Nat /\ disrupted' \subseteq Customer
      /\ report' \in [owner : Customer \cup {NoCustomer}, phase : {"open", "locked", "deleted"}]
  BY <1>1, <1>3 DEF FilesTypeOK
<1> QED BY <1>2, <1>4, <1>5, <1>6, <1>7, JobKeepsJudged

LEMMA PutLogoKeepsLogos ==
    ASSUME LogoInvariant, NEW w \in FileServer, PutLogo(w)
    PROVE  LogoInvariant'
<1> DEFINE c == work[w].customer
<1>1. /\ FilesTypeOK /\ Doing(w, "putLogo") /\ c \in Customer /\ work[w].op = "setLogo"
      /\ work[w].version <= customer[c].version
      /\ work[w].version = customer[c].version => work[w].old = customer[c].logo
  BY DEF LogoInvariant, PutLogo, LogoJudged
<1>2. logosDrawn' \in Nat /\ logosDrawn \in Nat
  BY <1>1 DEF PutLogo, FilesTypeOK
<1>3. UNCHANGED <<customer, disrupted, report>>
  BY DEF PutLogo, attachmentVars
<1>4. /\ customer' \in [Customer -> CustomerRow] /\ disrupted' \subseteq Customer
      /\ report' \in [owner : Customer \cup {NoCustomer}, phase : {"open", "locked", "deleted"}]
      /\ \A d \in Customer : /\ customer[d].version <= customer'[d].version
                             /\ customer'[d].logo = customer[d].logo
  BY <1>1, <1>3, JudgedRow DEF FilesTypeOK
<1>5. CASE /\ logos' = logos \cup {<<c, logosDrawn'>>}
           /\ work' = [work EXCEPT ![w].stage = "pointLogo", ![w].new = logosDrawn']
  <2> DEFINE J == [work[w] EXCEPT !.stage = "pointLogo", !.new = logosDrawn']
  <2>1. work[w] \in FileWork
    BY <1>1 DEF FilesTypeOK
  <2>2. /\ J.stage = "pointLogo" /\ J.new = logosDrawn' /\ J.op = "setLogo" /\ J.customer = c
        /\ J.version = work[w].version /\ J.old = work[w].old
    BY <1>1, <2>1 DEF FileWork
  <2>3. J \in FileWork
    BY <1>2, <2>1 DEF FileWork, Stage, LogoStage
  <2>4. work' = [work EXCEPT ![w] = J]
    BY <1>1, <1>5 DEF FilesTypeOK
  <2> HIDE DEF J
  <2>5. work'[w] = J /\ \A v \in FileServer \ {w} : work'[v] = work[v]
    BY <1>1, <2>4 DEF FilesTypeOK
  <2>6. LogoJudged(w)'
    BY <1>1, <1>3, <2>2, <2>5 DEF LogoJudged, Doing
  <2>7. ASSUME NEW k \in logos'
        PROVE  Accounted(k[1], k[2])'
    <3>1. CASE k \in logos
      <4>1. Accounted(k[1], k[2]) /\ k[1] \in Customer
        BY <1>1, <3>1 DEF LogoInvariant, FilesTypeOK
      <4>2. ASSUME NEW v \in FileServer, Holds(v, k[1], k[2])
            PROVE  Holds(v, k[1], k[2])'
        <5>1. v # w
          BY <1>1, <4>2 DEF Holds, Doing
        <5> QED BY <2>5, <4>2, <5>1 DEF Holds, Doing
      <4> QED BY <1>3, <4>1, <4>2 DEF Accounted
    <3>2. CASE k = <<c, logosDrawn'>>
      <4>1. Holds(w, k[1], k[2])'
        BY <2>2, <2>5, <3>2 DEF Holds, Doing
      <4> QED BY <4>1 DEF Accounted
    <3> QED BY <1>5, <3>1, <3>2
  <2>8. logos' \subseteq Customer \X Nat
    BY <1>1, <1>2, <1>5 DEF FilesTypeOK
  <2> QED BY <1>2, <1>4, <2>3, <2>4, <2>6, <2>7, <2>8, JobKeepsJudged
<1>6. CASE UNCHANGED logos /\ Rest(w)
  <2>1. work' = [work EXCEPT ![w] = Resting] /\ Resting \in FileWork /\ work'[w] = Resting
    BY <1>1, <1>6, RestIs DEF FilesTypeOK
  <2>2. LogoJudged(w)'
    BY <2>1, RestingIsWork DEF LogoJudged, Doing
  <2>3. \A k \in logos' : Accounted(k[1], k[2])'
    BY <1>1, <1>3, <1>4, <1>6, <2>1, JobKeepsAccounts DEF Doing
  <2> QED BY <1>1, <1>2, <1>4, <1>6, <2>1, <2>2, <2>3, JobKeepsJudged DEF FilesTypeOK
<1> QED BY <1>5, <1>6 DEF PutLogo

LEMMA RowPointed ==
    ASSUME NEW row \in CustomerRow, NEW logo \in Nat
    PROVE  LET R == [row EXCEPT !.version = @ + 1, !.logo = logo]
           IN  R \in CustomerRow /\ R.version = row.version + 1 /\ R.logo = logo
<1> DEFINE Q == [row EXCEPT !.version = row.version + 1]
           R == [Q EXCEPT !.logo = logo]
<1>1. Q \in CustomerRow /\ Q.version = row.version + 1
  BY DEF CustomerRow
<1> HIDE DEF Q
<1>2. R \in CustomerRow /\ R.version = Q.version /\ R.logo = logo
  BY <1>1 DEF CustomerRow
<1>3. R = [row EXCEPT !.version = @ + 1, !.logo = logo]
  BY DEF Q
<1> QED BY <1>1, <1>2, <1>3

(* The writer that won holds the old object, the one that lost the new one *)
(* it has put; one that never learnt which has disrupted its customer.     *)
LEMMA PointKeepsLogos ==
    ASSUME LogoInvariant, NEW w \in FileServer, PointAtLogo(w)
    PROVE  LogoInvariant'
<1> DEFINE c == work[w].customer
<1>1. /\ FilesTypeOK /\ Doing(w, "pointLogo") /\ c \in Customer
      /\ work[w].op \in {"setLogo", "removeLogo"}
      /\ work[w].version = customer[c].version => work[w].old = customer[c].logo
  BY DEF LogoInvariant, PointAtLogo, LogoJudged
<1>2. work[w] \in FileWork /\ customer[c] \in CustomerRow
      /\ \A d \in Customer : customer[d].version \in Nat
  BY <1>1 DEF FilesTypeOK, CustomerRow
<1>3. UNCHANGED <<logos, logosDrawn, report>>
  BY DEF PointAtLogo, attachmentVars
<1>4. /\ logos' \subseteq Customer \X Nat /\ logosDrawn' \in Nat
      /\ report' \in [owner : Customer \cup {NoCustomer}, phase : {"open", "locked", "deleted"}]
  BY <1>1, <1>3 DEF FilesTypeOK
<1>5. PICK job \in FileWork :
         /\ work' = [work EXCEPT ![w] = job]
         /\ job.stage \notin {"putLogo", "pointLogo"}
         /\ \/ job.stage = "dropOld" /\ job.customer = c /\ job.old = work[w].old
               /\ GuardedRow(c, work[w].version) /\ disrupted' = disrupted
            \/ /\ work[w].op = "setLogo"
                  => job.stage = "dropNew" /\ job.customer = c /\ job.new = work[w].new
               /\ \/ GuardedRow(c, work[w].version) /\ disrupted' = disrupted \cup {c}
                  \/ ~GuardedRow(c, work[w].version) /\ disrupted' = disrupted
  <2>1. ASSUME Proceed(w, "dropOld"), GuardedRow(c, work[w].version), disrupted' = disrupted
        PROVE  \E job \in FileWork :
                  /\ work' = [work EXCEPT ![w] = job]
                  /\ job.stage = "dropOld" /\ job.customer = c /\ job.old = work[w].old
    <3>1. "dropOld" \in Stage
      BY DEF Stage, LogoStage
    <3> QED BY <1>1, <2>1, <3>1, ProceedIs DEF FilesTypeOK
  <2>2. ASSUME work[w].op = "setLogo", Proceed(w, "dropNew")
        PROVE  \E job \in FileWork :
                  /\ work' = [work EXCEPT ![w] = job]
                  /\ job.stage = "dropNew" /\ job.customer = c /\ job.new = work[w].new
    <3>1. "dropNew" \in Stage
      BY DEF Stage, LogoStage
    <3> QED BY <1>1, <2>2, <3>1, ProceedIs DEF FilesTypeOK
  <2>3. ASSUME work[w].op # "setLogo", Rest(w)
        PROVE  \E job \in FileWork : work' = [work EXCEPT ![w] = job] /\ job.stage = "none"
    BY <2>3, RestIs, RestingIsWork
  <2>4. CASE GuardedRow(c, work[w].version)
    BY <2>1, <2>2, <2>3, <2>4 DEF PointAtLogo
  <2>5. CASE ~GuardedRow(c, work[w].version)
    BY <2>2, <2>3, <2>5 DEF PointAtLogo
  <2> QED BY <2>4, <2>5
<1>6. work'[w] = job /\ \A v \in FileServer \ {w} : work'[v] = work[v]
  BY <1>1, <1>5 DEF FilesTypeOK
<1>7. LogoJudged(w)'
  <2>1. job.stage \notin {"putLogo", "pointLogo"}
    BY <1>5
  <2>2. job.stage # "write"
    <3>1. \/ Proceed(w, "dropOld") \/ Proceed(w, "dropNew") \/ Rest(w)
      BY DEF PointAtLogo
    <3>2. work'[w].stage \in {"dropOld", "dropNew", "none"}
      BY <1>1, <3>1, RestingIsWork DEF Proceed, Rest, FilesTypeOK, FileWork
    <3> QED BY <1>6, <3>2
  <2> QED BY <1>6, <2>1, <2>2 DEF LogoJudged, Doing
<1>8. disrupted \subseteq disrupted' /\ disrupted' \subseteq Customer
  BY <1>1, <1>5 DEF FilesTypeOK
(* The holders of the objects but w are the ones there were.               *)
<1>9. ASSUME NEW k \in logos, NEW v \in FileServer \ {w}, Holds(v, k[1], k[2])
      PROVE  Holds(v, k[1], k[2])'
  BY <1>6, <1>9 DEF Holds, Doing
<1>10. ASSUME NEW k \in logos
       PROVE  /\ k[1] \in Customer
              /\ \/ k[1] \in disrupted \/ customer[k[1]].logo = k[2]
                 \/ \E v \in FileServer \ {w} : Holds(v, k[1], k[2])
                 \/ k[1] = c /\ work[w].op = "setLogo" /\ work[w].new = k[2]
  <2>1. k[1] \in Customer /\ Accounted(k[1], k[2])
    BY <1>1 DEF LogoInvariant, FilesTypeOK
  <2> QED BY <1>1, <2>1 DEF Accounted, Holds, Doing
<1>11. CASE ~GuardedRow(c, work[w].version)
  <2>1. customer' = customer
    BY <1>11 DEF PointAtLogo
  <2>2. ASSUME NEW k \in logos'
        PROVE  Accounted(k[1], k[2])'
    <3>1. CASE k[1] = c /\ work[w].op = "setLogo" /\ work[w].new = k[2]
      <4>1. Holds(w, k[1], k[2])'
        BY <1>5, <1>6, <1>11, <3>1 DEF Holds, Doing
      <4> QED BY <4>1 DEF Accounted
    <3> QED BY <1>3, <1>8, <1>9, <1>10, <2>1, <3>1 DEF Accounted
  <2>3. /\ customer' \in [Customer -> CustomerRow]
        /\ \A d \in Customer : /\ customer[d].version <= customer'[d].version
                               /\ customer'[d].logo = customer[d].logo
    BY <1>1, <1>2, <2>1 DEF FilesTypeOK
  <2> QED BY <1>4, <1>5, <1>7, <1>8, <2>2, <2>3, JobKeepsJudged
<1>12. CASE GuardedRow(c, work[w].version)
  <2> DEFINE R == [customer[c] EXCEPT !.version = @ + 1, !.logo = work[w].new]
  <2>1. customer' = [customer EXCEPT ![c] = R]
    <3>1. customer' = [customer EXCEPT ![c].version = @ + 1, ![c].logo = work[w].new]
      BY <1>12 DEF PointAtLogo
    <3> QED BY <1>1, <3>1 DEF FilesTypeOK
  <2>2. R \in CustomerRow /\ R.version = customer[c].version + 1 /\ R.logo = work[w].new
    <3>1. work[w].new \in Nat
      BY <1>2 DEF FileWork
    <3> QED BY <1>2, <3>1, RowPointed
  <2> HIDE DEF R
  <2>3. /\ customer' \in [Customer -> CustomerRow]
        /\ customer'[c] = R /\ \A d \in Customer \ {c} : customer'[d] = customer[d]
    BY <1>1, <2>1, <2>2 DEF FilesTypeOK
  <2>4. \A d \in Customer : /\ customer[d].version <= customer'[d].version
                            /\ customer'[d].version = customer[d].version
                               => customer'[d].logo = customer[d].logo
    BY <1>1, <1>2, <2>2, <2>3
  <2>5. work[w].old = customer[c].logo
    BY <1>1, <1>12 DEF GuardedRow
  <2>6. ASSUME NEW k \in logos'
        PROVE  Accounted(k[1], k[2])'
    <3>1. CASE k[1] \in disrupted \/ \E v \in FileServer \ {w} : Holds(v, k[1], k[2])
      BY <1>3, <1>8, <1>9, <3>1 DEF Accounted
    <3>2. CASE k[1] = c /\ work[w].new = k[2]
      BY <2>2, <2>3, <1>1, <3>2 DEF Accounted
    <3>3. CASE k[1] # c /\ customer[k[1]].logo = k[2]
      BY <1>3, <1>10, <2>3, <3>3 DEF Accounted
    <3>4. CASE k[1] = c /\ customer[c].logo = k[2]
      <4>1. CASE c \in disrupted'
        BY <3>4, <4>1 DEF Accounted
      <4>2. CASE c \notin disrupted'
        <5>1. job.stage = "dropOld" /\ job.customer = c /\ job.old = work[w].old
          BY <1>5, <1>12, <4>2
        <5>2. Holds(w, k[1], k[2])'
          BY <1>6, <2>5, <3>4, <5>1 DEF Holds, Doing
        <5> QED BY <5>2 DEF Accounted
      <4> QED BY <4>1, <4>2
    <3> QED BY <1>3, <1>10, <3>1, <3>2, <3>3, <3>4
  <2> QED BY <1>4, <1>5, <1>7, <1>8, <2>3, <2>4, <2>6, JobKeepsJudged
<1> QED BY <1>11, <1>12

(* The object a request drops is the one it held.                          *)
LEMMA DropKeepsLogos ==
    ASSUME LogoInvariant, NEW w \in FileServer, DropLogo(w)
    PROVE  LogoInvariant'
<1>1. FilesTypeOK /\ (Doing(w, "dropNew") \/ Doing(w, "dropOld"))
  BY DEF LogoInvariant, DropLogo
<1>2. work' = [work EXCEPT ![w] = Resting] /\ Resting \in FileWork
  BY RestIs DEF DropLogo
<1>3. work'[w] = Resting /\ \A v \in FileServer \ {w} : work'[v] = work[v]
  BY <1>1, <1>2 DEF FilesTypeOK
<1>4. UNCHANGED <<customer, logosDrawn, disrupted, report>>
  BY DEF DropLogo, attachmentVars
<1>5. LogoJudged(w)'
  BY <1>3, RestingIsWork DEF LogoJudged, Doing
<1>6. ASSUME NEW k \in logos'
      PROVE  Accounted(k[1], k[2])'
  <2>1. k \in logos /\ k # <<work[w].customer, DropsOf(w)>>
    BY DEF DropLogo
  <2>2. k = <<k[1], k[2]>> /\ Accounted(k[1], k[2])
    BY <1>1, <2>1 DEF LogoInvariant, FilesTypeOK
  <2>3. ~Holds(w, k[1], k[2])
    BY <1>1, <2>1, <2>2 DEF Holds, Doing, DropsOf
  <2>4. ASSUME NEW v \in FileServer, Holds(v, k[1], k[2])
        PROVE  Holds(v, k[1], k[2])'
    <3>1. v # w
      BY <2>3, <2>4
    <3> QED BY <1>3, <2>4, <3>1 DEF Holds, Doing
  <2> QED BY <1>4, <2>2, <2>4 DEF Accounted
<1>7. /\ customer' \in [Customer -> CustomerRow]
      /\ logos' \subseteq Customer \X Nat /\ logosDrawn' \in Nat /\ disrupted' \subseteq Customer
      /\ report' \in [owner : Customer \cup {NoCustomer}, phase : {"open", "locked", "deleted"}]
      /\ \A d \in Customer : /\ customer[d].version <= customer'[d].version
                             /\ customer'[d].logo = customer[d].logo
  <2>1. \A d \in Customer : customer[d].version \in Nat
    BY <1>1, JudgedRow
  <2> QED BY <1>1, <1>4, <2>1 DEF FilesTypeOK, DropLogo
<1> QED BY <1>2, <1>5, <1>6, <1>7, JobKeepsJudged

(* ----------------------- the rows, without a handler ------------------- *)

LEMMA RowsKeepLogos ==
    ASSUME LogoInvariant,
           customer' \in [Customer -> CustomerRow],
           \A c \in Customer : /\ customer'[c].version = customer[c].version
                               /\ customer'[c].logo = customer[c].logo,
           report' \in [owner : Customer \cup {NoCustomer}, phase : {"open", "locked", "deleted"}],
           UNCHANGED <<logos, logosDrawn, disrupted, work>>
    PROVE  LogoInvariant'
<1>1. FilesTypeOK'
  BY DEF LogoInvariant, FilesTypeOK
<1>2. ASSUME NEW w \in FileServer
      PROVE  LogoJudged(w)'
  <2>1. LogoJudged(w)
    BY DEF LogoInvariant
  <2> QED BY <2>1 DEF LogoJudged, Doing
<1>3. ASSUME NEW k \in logos'
      PROVE  Accounted(k[1], k[2])'
  <2>1. k[1] \in Customer /\ Accounted(k[1], k[2])
    BY DEF LogoInvariant, FilesTypeOK
  <2> QED BY <2>1 DEF Accounted, Holds, Doing
<1> QED BY <1>1, <1>2, <1>3 DEF LogoInvariant

LEMMA RowIs ==
    ASSUME FilesTypeOK, NEW c \in Customer, NEW is \in {"here", "gone"},
           customer' = [customer EXCEPT ![c].is = is]
    PROVE  /\ customer' \in [Customer -> CustomerRow]
           /\ \A d \in Customer : /\ customer'[d].version = customer[d].version
                                  /\ customer'[d].logo = customer[d].logo
<1> DEFINE R == [customer[c] EXCEPT !.is = is]
<1>1. customer[c] \in CustomerRow
  BY DEF FilesTypeOK
<1>2. R \in CustomerRow /\ R.version = customer[c].version /\ R.logo = customer[c].logo
  BY <1>1 DEF CustomerRow
<1>3. customer' = [customer EXCEPT ![c] = R]
  OBVIOUS
<1> HIDE DEF R
<1> QED BY <1>2, <1>3 DEF FilesTypeOK

(* A restart forgets the requests, and disrupts the customers they were    *)
(* about: no object is left without an account.                            *)
LEMMA RestartKeepsLogos ==
    ASSUME LogoInvariant, RestartFiles
    PROVE  LogoInvariant'
<1>1. FilesTypeOK /\ NoCustomer \notin Customer
  BY CustomerFilesAssumption DEF LogoInvariant
<1>2. /\ UNCHANGED <<customer, logos, logosDrawn, report>>
      /\ work' = [w \in FileServer |-> Resting]
      /\ disrupted' = disrupted \cup ({work[w].customer : w \in FileServer} \ {NoCustomer})
  BY DEF RestartFiles
<1>3. \A w \in FileServer : work[w].customer \in Customer \cup {NoCustomer}
  BY <1>1 DEF FilesTypeOK, FileWork
<1>4. disrupted' \subseteq Customer
  BY <1>1, <1>2, <1>3 DEF FilesTypeOK
<1>5. FilesTypeOK'
  BY <1>1, <1>2, <1>4, RestingIsWork DEF FilesTypeOK
<1>6. \A w \in FileServer : LogoJudged(w)'
  BY <1>2, RestingIsWork DEF LogoJudged, Doing
<1>7. ASSUME NEW k \in logos'
      PROVE  Accounted(k[1], k[2])'
  <2>1. k[1] \in Customer /\ Accounted(k[1], k[2])
    BY <1>1, <1>2 DEF LogoInvariant, FilesTypeOK
  <2>2. CASE k[1] \in disrupted \/ customer[k[1]].logo = k[2]
    BY <1>2, <2>2 DEF Accounted
  <2>3. ASSUME NEW v \in FileServer, Holds(v, k[1], k[2])
        PROVE  k[1] \in disrupted'
    BY <1>1, <1>2, <2>1, <2>3 DEF Holds
  <2> QED BY <2>1, <2>2, <2>3 DEF Accounted
<1> QED BY <1>5, <1>6, <1>7 DEF LogoInvariant

(* ------------------ uploads, deletions and the report ------------------ *)

FileStep(w) ==
    \/ \E a \in Attachment : BeginUpload(w, a)
    \/ CreateRow(w) \/ PutFile(w) \/ LinkRow(w) \/ LogUpload(w)
    \/ UndoRow(w) \/ UndoFile(w)
    \/ BeginDeletion(w) \/ DeleteRows(w) \/ DeleteObjects(w)

LEMMA BeginUploadIs ==
    ASSUME FilesTypeOK, NEW w \in FileServer, NEW a \in Attachment, BeginUpload(w, a)
    PROVE  /\ work[w] = Resting
           /\ \E job \in FileWork : /\ work' = [work EXCEPT ![w] = job]
                                    /\ job.op = "upload" /\ job.stage = "row" /\ job.file = a
<1> DEFINE J == [Resting EXCEPT !.op = "upload", !.stage = "row", !.file = a,
                                !.owner = report.owner]
<1>1. Resting \in FileWork /\ report.owner \in Customer \cup {NoCustomer}
      /\ "upload" \in Request /\ "row" \in Stage
  BY RestingIsWork DEF FilesTypeOK, Request, Stage, UploadStage
<1>2. J \in FileWork /\ J.op = "upload" /\ J.stage = "row" /\ J.file = a
  BY <1>1 DEF FileWork
<1>3. work' = [work EXCEPT ![w] = J] /\ work[w] = Resting
  BY DEF BeginUpload, Rests
<1> QED BY <1>2, <1>3

LEMMA BeginDeletionIs ==
    ASSUME FilesTypeOK, NEW w \in FileServer, BeginDeletion(w)
    PROVE  /\ work[w] = Resting
           /\ \E job \in FileWork : /\ work' = [work EXCEPT ![w] = job]
                                    /\ job.op = "deleteReport" /\ job.stage = "rows"
<1> DEFINE J == [Resting EXCEPT !.op = "deleteReport", !.stage = "rows",
                                !.owner = report.owner]
<1>1. Resting \in FileWork /\ report.owner \in Customer \cup {NoCustomer}
      /\ "deleteReport" \in Request /\ "rows" \in Stage
  BY RestingIsWork DEF FilesTypeOK, Request, Stage
<1>2. J \in FileWork /\ J.op = "deleteReport" /\ J.stage = "rows"
  BY <1>1 DEF FileWork
<1>3. work' = [work EXCEPT ![w] = J] /\ work[w] = Resting
  BY DEF BeginDeletion, Rests
<1> QED BY <1>2, <1>3

(* What a step of an upload or a deletion does to the handler, and to the  *)
(* variables the customers' steps depend on.                               *)
LEMMA FileStepIs ==
    ASSUME FilesTypeOK, NEW w \in FileServer, FileStep(w)
    PROVE  /\ UNCHANGED customerVars
           /\ work[w].stage \in UploadStage \cup {"none", "rows", "objects"}
           /\ \E job \in FileWork : /\ work' = [work EXCEPT ![w] = job]
                                    /\ job.stage \in UploadStage \cup {"none", "rows", "objects"}
           /\ report' = report \/ report' = [report EXCEPT !.phase = "deleted"]
<1> DEFINE Own == UploadStage \cup {"none", "rows", "objects"}
           Goes == \E job \in FileWork : work' = [work EXCEPT ![w] = job] /\ job.stage \in Own
<1>1. work \in [FileServer -> FileWork] /\ Own \subseteq Stage
  BY DEF FilesTypeOK, Stage
<1>2. ASSUME NEW stage \in Own, Proceed(w, stage)
      PROVE  Goes
  BY <1>1, <1>2, ProceedIs
<1>3. ASSUME Rest(w)
      PROVE  Goes
  BY <1>3, RestIs, RestingIsWork
<1>4. ASSUME NEW a \in Attachment, BeginUpload(w, a)
      PROVE  Goes /\ UNCHANGED customerVars /\ UNCHANGED report /\ work[w].stage \in Own
  <2>1. work[w] = Resting /\ "row" \in Own
    BY <1>4, BeginUploadIs DEF UploadStage
  <2>2. Goes
    BY <1>4, <2>1, BeginUploadIs
  <2> QED BY <1>4, <2>1, <2>2, RestingIsWork DEF BeginUpload, attachmentVars
<1>5. ASSUME BeginDeletion(w)
      PROVE  Goes /\ UNCHANGED customerVars /\ UNCHANGED report /\ work[w].stage \in Own
  <2>1. work[w] = Resting /\ Goes
    BY <1>5, BeginDeletionIs
  <2> QED BY <1>5, <2>1, RestingIsWork DEF BeginDeletion, attachmentVars
<1>6. ASSUME CreateRow(w) \/ PutFile(w) \/ LinkRow(w)
      PROVE  Goes /\ UNCHANGED customerVars /\ UNCHANGED report /\ work[w].stage \in Own
  <2>1. {"putFile", "link", "clean", "log"} \subseteq Own
    BY DEF UploadStage
  <2>2. Goes
    BY <1>2, <1>3, <1>6, <2>1 DEF CreateRow, PutFile, LinkRow
  <2> QED BY <1>6, <2>2 DEF CreateRow, PutFile, LinkRow, Doing, UploadStage
<1>7. ASSUME LogUpload(w) \/ UndoRow(w) \/ UndoFile(w)
      PROVE  Goes /\ UNCHANGED customerVars /\ UNCHANGED report /\ work[w].stage \in Own
  <2>1. {"clean", "cleanFile"} \subseteq Own
    BY DEF UploadStage
  <2>2. Goes
    BY <1>2, <1>3, <1>7, <2>1 DEF LogUpload, UndoRow, UndoFile
  <2> QED BY <1>7, <2>2 DEF LogUpload, UndoRow, UndoFile, Doing, UploadStage
<1>8. ASSUME DeleteRows(w) \/ DeleteObjects(w)
      PROVE  /\ Goes /\ UNCHANGED customerVars /\ work[w].stage \in Own
             /\ report' = report \/ report' = [report EXCEPT !.phase = "deleted"]
  <2>1. Goes
    BY <1>2, <1>3, <1>8 DEF DeleteRows, DeleteObjects
  <2> QED BY <1>8, <2>1 DEF DeleteRows, DeleteObjects, Doing
<1> QED BY <1>4, <1>5, <1>6, <1>7, <1>8 DEF FileStep

LEMMA FileStepKeepsLogos ==
    ASSUME LogoInvariant, NEW w \in FileServer, FileStep(w)
    PROVE  LogoInvariant'
<1>1. FilesTypeOK
  BY DEF LogoInvariant
<1>2. /\ UNCHANGED customerVars
      /\ work[w].stage \in UploadStage \cup {"none", "rows", "objects"}
      /\ \E job \in FileWork : /\ work' = [work EXCEPT ![w] = job]
                               /\ job.stage \in UploadStage \cup {"none", "rows", "objects"}
      /\ report' = report \/ report' = [report EXCEPT !.phase = "deleted"]
  BY <1>1, FileStepIs
<1>3. PICK job \in FileWork : /\ work' = [work EXCEPT ![w] = job]
                              /\ job.stage \in UploadStage \cup {"none", "rows", "objects"}
  BY <1>2
<1>4. report' \in [owner : Customer \cup {NoCustomer}, phase : {"open", "locked", "deleted"}]
  BY <1>1, <1>2 DEF FilesTypeOK
<1>5. /\ job.stage \notin {"putLogo", "pointLogo", "write"}
      /\ ~Doing(w, "pointLogo") /\ ~Doing(w, "dropNew") /\ ~Doing(w, "dropOld")
  BY <1>2, <1>3 DEF UploadStage, Doing
<1> QED BY <1>2, <1>3, <1>4, <1>5, OtherStepKeeps

LEMMA StepKeepsLogos ==
    ASSUME LogoInvariant, [CustomerFilesNext]_fileVars
    PROVE  LogoInvariant'
<1>0. FilesTypeOK
  BY DEF LogoInvariant
<1>1. CASE UNCHANGED fileVars
  BY <1>0, <1>1, RowsKeepLogos DEF fileVars, FilesTypeOK
<1>2. ASSUME NEW w \in FileServer, NEW c \in Customer, JudgeLogo(w, c) \/ JudgeRemoval(w, c)
      PROVE  LogoInvariant'
  BY <1>2, JudgeForLogoKeeps DEF JudgeLogo, JudgeRemoval, attachmentVars
<1>3. ASSUME NEW c \in Customer, CreateCustomer(c)
      PROVE  LogoInvariant'
  BY <1>0, <1>3, RowIs, RowsKeepLogos DEF CreateCustomer, attachmentVars, FilesTypeOK
<1>4. ASSUME NEW c \in Customer, DeleteCustomer(c)
      PROVE  LogoInvariant'
  <2>1. report' \in [owner : Customer \cup {NoCustomer}, phase : {"open", "locked", "deleted"}]
    BY <1>0, <1>4 DEF DeleteCustomer, FilesTypeOK
  <2> QED BY <1>0, <1>4, <2>1, RowIs, RowsKeepLogos DEF DeleteCustomer
<1>5. CASE LockOrUnlock
  <2>1. report' \in [owner : Customer \cup {NoCustomer}, phase : {"open", "locked", "deleted"}]
    BY <1>0, <1>5 DEF LockOrUnlock, FilesTypeOK
  <2> QED BY <1>0, <1>5, <2>1, RowsKeepLogos DEF LockOrUnlock, customerVars, FilesTypeOK
<1>6. ASSUME NEW w \in FileServer, FileStep(w)
      PROVE  LogoInvariant'
  BY <1>6, FileStepKeepsLogos
<1> QED BY <1>1, <1>2, <1>3, <1>4, <1>5, <1>6, JudgeUpdateKeepsLogos, WriteKeepsLogos,
           PutLogoKeepsLogos, PointKeepsLogos, DropKeepsLogos, RestartKeepsLogos
        DEF CustomerFilesNext, FileStep

(* When every request has ended, an object that its customer does not      *)
(* point at belongs to a customer with a request whose outcome nobody      *)
(* learnt (CustomersService.uploadLogo and removeLogo).                    *)
THEOREM LogosAreAccountedFor == CustomerFilesSpec => []LostRaceLeavesNoLogo
<1>1. CustomerFilesInit => LogoInvariant
  BY InitLogos
<1>2. LogoInvariant /\ [CustomerFilesNext]_fileVars => LogoInvariant'
  BY StepKeepsLogos
<1>3. LogoInvariant => LostRaceLeavesNoLogo
  <2> SUFFICES ASSUME LogoInvariant, \A w \in FileServer : Rests(w), NEW k \in logos
               PROVE  k[1] \in disrupted \/ customer[k[1]].logo = k[2]
    BY DEF LostRaceLeavesNoLogo
  <2>1. Accounted(k[1], k[2])
    BY DEF LogoInvariant
  <2>2. \A w \in FileServer : ~Holds(w, k[1], k[2])
    BY RestingIsWork DEF Holds, Rests, Doing
  <2> QED BY <2>1, <2>2 DEF Accounted
<1> QED BY <1>1, <1>2, <1>3, PTL DEF CustomerFilesSpec

----------------------------------------------------------------------------
(* Attachments on a local disk, where a location is the attachment's id.   *)

Place(a) == [id |-> a, under |-> NoCustomer]
HasBytes(a) == \E f \in files : f.at = Place(a) /\ f.content = "bytes"
Uploads(w) == work[w].op = "upload"

(* What an upload has done so far for its file, which no other upload has. *)
UploadSound(w) ==
    LET a == work[w].file IN
    /\ Uploads(w) <=> work[w].stage \in UploadStage
    /\ Uploads(w) =>
          /\ a \in Attachment /\ a \notin answered
          /\ attachment[a] = "unused" <=> Doing(w, "row")
          /\ Doing(w, "log") => attachment[a] \in {"linked", "gone"}
          /\ Doing(w, "cleanFile") => attachment[a] = "gone"
          /\ (Doing(w, "link") \/ Doing(w, "log")) /\ attachment[a] # "gone" => HasBytes(a)

AnswerStands(a) ==
    /\ attachment[a] \in {"linked", "gone"}
    /\ attachment[a] = "linked" => HasBytes(a)

RowState == {"unused", "unlinked", "linked", "gone"}

UploadInvariant ==
    /\ attachment \in [Attachment -> RowState]
    /\ answered \subseteq Attachment
    /\ \A w \in FileServer : UploadSound(w)
    /\ \A v, w \in FileServer : v # w /\ Uploads(v) /\ Uploads(w) => work[v].file # work[w].file
    /\ \A a \in answered : AnswerStands(a)

LEMMA LocalPlace ==
    ASSUME Driver = "local", NEW a, NEW owner
    PROVE  Location(a, owner) = Place(a)
  BY DEF Location, Place

LEMMA PlacesDiffer ==
    ASSUME NEW a, NEW b, a # b
    PROVE  Place(a) # Place(b)
<1>1. Place(a).id = a /\ Place(b).id = b
  BY DEF Place
<1> QED BY <1>1

LEMMA PutHasBytes ==
    ASSUME Driver = "local", NEW a, NEW owner, files' = With(a, owner, "bytes")
    PROVE  /\ HasBytes(a)'
           /\ \A b : b # a /\ HasBytes(b) => HasBytes(b)'
<1>1. files' = {f \in files : f.at # Place(a)} \cup {[at |-> Place(a), content |-> "bytes"]}
  BY LocalPlace DEF With, Without
<1> DEFINE G == [at |-> Place(a), content |-> "bytes"]
<1>2. G.at = Place(a) /\ G.content = "bytes" /\ G \in files'
  BY <1>1
<1>3. HasBytes(a)'
  BY <1>2 DEF HasBytes
<1>4. ASSUME NEW b, b # a, HasBytes(b)
      PROVE  HasBytes(b)'
  <2>1. PICK f \in files : f.at = Place(b) /\ f.content = "bytes"
    BY <1>4 DEF HasBytes
  <2>2. f \in files'
    BY <1>1, <1>4, <2>1, PlacesDiffer
  <2> QED BY <2>1, <2>2 DEF HasBytes
<1> QED BY <1>3, <1>4

LEMMA WithoutKeepsBytes ==
    ASSUME Driver = "local", NEW a, NEW owner, files' = Without(a, owner),
           NEW b, b # a, HasBytes(b)
    PROVE  HasBytes(b)'
<1>1. PICK f \in files : f.at = Place(b) /\ f.content = "bytes"
  BY DEF HasBytes
<1>2. f \in files'
  BY <1>1, LocalPlace, PlacesDiffer DEF Without
<1> QED BY <1>1, <1>2 DEF HasBytes

LEMMA InitUploads == CustomerFilesInit => UploadInvariant
<1> SUFFICES ASSUME CustomerFilesInit PROVE UploadInvariant
  OBVIOUS
<1>1. attachment \in [Attachment -> RowState] /\ answered = {}
  BY DEF CustomerFilesInit, RowState
<1>2. \A w \in FileServer : work[w] = Resting
  BY DEF CustomerFilesInit
<1>3. \A w \in FileServer : ~Uploads(w) /\ work[w].stage \notin UploadStage
  BY <1>2, RestingIsWork DEF Uploads, UploadStage
<1> QED BY <1>1, <1>3 DEF UploadInvariant, UploadSound

(* A step of a handler that does not upload afterwards, and leaves the     *)
(* attachments alone.                                                      *)
LEMMA OtherStepKeepsUploads ==
    ASSUME FilesTypeOK, UploadInvariant, NEW w \in FileServer, NEW job \in FileWork,
           work' = [work EXCEPT ![w] = job],
           job.op # "upload", job.stage \notin UploadStage,
           UNCHANGED <<attachment, files, answered>>
    PROVE  UploadInvariant'
<1>1. work'[w] = job /\ \A v \in FileServer \ {w} : work'[v] = work[v]
  BY DEF FilesTypeOK
<1>2. ASSUME NEW v \in FileServer
      PROVE  UploadSound(v)'
  <2>1. CASE v = w
    BY <1>1, <2>1 DEF UploadSound, Uploads
  <2>2. CASE v # w
    <3>1. UploadSound(v) /\ work'[v] = work[v]
      BY <1>1, <2>2 DEF UploadInvariant
    <3> QED BY <3>1 DEF UploadSound, Uploads, Doing, HasBytes
  <2> QED BY <2>1, <2>2
<1>3. \A u, v \in FileServer :
         u # v /\ Uploads(u)' /\ Uploads(v)' => work'[u].file # work'[v].file
  BY <1>1 DEF UploadInvariant, Uploads
<1>4. \A a \in answered' : AnswerStands(a)'
  BY DEF UploadInvariant, AnswerStands, HasBytes
<1> QED BY <1>2, <1>3, <1>4 DEF UploadInvariant

(* A step of an upload concerns its own file only.                         *)
LEMMA UploadStep ==
    ASSUME FilesTypeOK, UploadInvariant, NEW w \in FileServer, Uploads(w),
           NEW file, file = work[w].file, NEW job \in FileWork, work' = [work EXCEPT ![w] = job],
           job.op = "upload" => job.file = file,
           UploadSound(w)',
           attachment' \in [Attachment -> RowState], answered' \subseteq Attachment,
           \A a \in Attachment \ {file} :
              /\ attachment'[a] = attachment[a]
              /\ HasBytes(a) => HasBytes(a)'
              /\ a \in answered' <=> a \in answered,
           file \in answered' => AnswerStands(file)'
    PROVE  UploadInvariant'
<1>1. work'[w] = job /\ \A v \in FileServer \ {w} : work'[v] = work[v]
  BY DEF FilesTypeOK
<1>2. ASSUME NEW v \in FileServer
      PROVE  UploadSound(v)'
  <2>1. CASE v = w
    BY <2>1
  <2>2. CASE v # w
    <3>1. UploadSound(v) /\ work'[v] = work[v]
      BY <1>1, <2>2 DEF UploadInvariant
    <3>2. CASE ~Uploads(v)
      BY <3>1, <3>2 DEF UploadSound, Uploads
    <3>3. CASE Uploads(v)
      <4> DEFINE a == work[v].file
      <4>1. a \in Attachment \ {work[w].file}
        BY <2>2, <3>1, <3>3 DEF UploadInvariant, UploadSound
      <4>2. /\ attachment'[a] = attachment[a] /\ (HasBytes(a) => HasBytes(a)')
            /\ a \notin answered'
        BY <3>1, <3>3, <4>1 DEF UploadSound
      <4> QED BY <3>1, <3>3, <4>1, <4>2 DEF UploadSound, Uploads, Doing
    <3> QED BY <3>2, <3>3
  <2> QED BY <2>1, <2>2
<1>3. ASSUME NEW u \in FileServer, NEW v \in FileServer, u # v, Uploads(u)', Uploads(v)'
      PROVE  work'[u].file # work'[v].file
  <2>1. \A x \in FileServer : Uploads(x)' => Uploads(x) /\ work'[x].file = work[x].file
    BY <1>1 DEF Uploads
  <2> QED BY <1>3, <2>1 DEF UploadInvariant
<1>4. ASSUME NEW a \in answered'
      PROVE  AnswerStands(a)'
  <2>1. CASE a = file
    BY <2>1
  <2>2. CASE a # file
    <3>1. /\ attachment'[a] = attachment[a] /\ (HasBytes(a) => HasBytes(a)')
          /\ AnswerStands(a)
      BY <2>2 DEF UploadInvariant
    <3> QED BY <3>1 DEF AnswerStands
  <2> QED BY <2>1, <2>2
<1> QED BY <1>2, <1>3, <1>4 DEF UploadInvariant

(* How far an upload has come, before a step of it.                        *)
LEMMA UploadAt ==
    ASSUME FilesTypeOK, UploadInvariant, NEW w \in FileServer, NEW stage \in UploadStage,
           Doing(w, stage)
    PROVE  /\ Uploads(w) /\ work[w].file \in Attachment /\ work[w].file \notin answered
           /\ attachment[work[w].file] \in RowState
           /\ attachment[work[w].file] = "unused" <=> stage = "row"
           /\ stage = "log" => attachment[work[w].file] \in {"linked", "gone"}
           /\ stage = "cleanFile" => attachment[work[w].file] = "gone"
           /\ stage \in {"link", "log"} /\ attachment[work[w].file] # "gone"
              => HasBytes(work[w].file)
  BY DEF UploadInvariant, UploadSound, Doing

(* An upload that has ended is judged no longer.                           *)
LEMMA EndedIsSound ==
    ASSUME FilesTypeOK, NEW w \in FileServer, Rest(w)
    PROVE  /\ work' = [work EXCEPT ![w] = Resting]
           /\ Resting \in FileWork /\ Resting.op # "upload"
           /\ UploadSound(w)'
<1>1. work' = [work EXCEPT ![w] = Resting] /\ Resting \in FileWork
  BY RestIs
<1>2. work'[w] = Resting
  BY <1>1 DEF FilesTypeOK
<1> QED BY <1>1, <1>2, RestingIsWork DEF UploadSound, Uploads, UploadStage

(* An upload that goes on, with what its next stage asks for.              *)
LEMMA GoesOnSound ==
    ASSUME FilesTypeOK, NEW w \in FileServer, Uploads(w),
           NEW file \in Attachment, file = work[w].file, file \notin answered',
           NEW stage \in UploadStage, Proceed(w, stage),
           stage # "row", attachment'[file] # "unused",
           stage = "log" => attachment'[file] \in {"linked", "gone"},
           stage = "cleanFile" => attachment'[file] = "gone",
           stage \in {"link", "log"} /\ attachment'[file] # "gone" => HasBytes(file)'
    PROVE  \E job \in FileWork : /\ work' = [work EXCEPT ![w] = job]
                                 /\ job.file = file
                                 /\ UploadSound(w)'
<1>1. work \in [FileServer -> FileWork] /\ stage \in Stage
  BY DEF FilesTypeOK, Stage
<1>2. PICK job \in FileWork : /\ work' = [work EXCEPT ![w] = job]
                              /\ job.stage = stage /\ job.op = work[w].op
                              /\ job.file = work[w].file
  BY <1>1, ProceedIs
<1>3. work'[w] = job
  BY <1>1, <1>2
<1>4. UploadSound(w)'
  <2>1. work'[w].file = file /\ work'[w].stage = stage /\ work'[w].op = "upload"
    BY <1>2, <1>3 DEF Uploads
  <2>2. Uploads(w)' /\ work'[w].stage \in UploadStage
    BY <2>1 DEF Uploads
  <2> QED BY <2>1, <2>2 DEF UploadSound, Doing, HasBytes
<1> QED BY <1>2, <1>4

LEMMA RowStateIs ==
    ASSUME UploadInvariant, NEW a \in Attachment, NEW state \in RowState,
           attachment' = [attachment EXCEPT ![a] = state]
    PROVE  /\ attachment' \in [Attachment -> RowState]
           /\ attachment'[a] = state
           /\ \A b \in Attachment \ {a} : attachment'[b] = attachment[b]
  BY DEF UploadInvariant

LEMMA CreateRowKeepsUploads ==
    ASSUME FilesTypeOK, UploadInvariant, NEW w \in FileServer, CreateRow(w)
    PROVE  UploadInvariant'
<1>1. "row" \in UploadStage /\ "putFile" \in UploadStage /\ "unlinked" \in RowState
  BY DEF UploadStage, RowState
<1>2. PICK file \in Attachment : file = work[w].file /\ Uploads(w) /\ file \notin answered
  BY <1>1, UploadAt DEF CreateRow
<1>3. UNCHANGED <<files, answered>>
  BY DEF CreateRow
<1>4. \A a : HasBytes(a) => HasBytes(a)'
  BY <1>3 DEF HasBytes
<1>5. CASE UNCHANGED attachment /\ Rest(w)
  BY <1>2, <1>3, <1>4, <1>5, EndedIsSound, UploadStep DEF UploadInvariant
<1>6. CASE attachment' = [attachment EXCEPT ![file] = "unlinked"] /\ Proceed(w, "putFile")
  <2>1. /\ attachment' \in [Attachment -> RowState] /\ attachment'[file] = "unlinked"
        /\ \A b \in Attachment \ {file} : attachment'[b] = attachment[b]
    BY <1>1, <1>6, RowStateIs
  <2>2. \E job \in FileWork : /\ work' = [work EXCEPT ![w] = job]
                              /\ job.file = file /\ UploadSound(w)'
    BY <1>1, <1>2, <1>3, <1>6, <2>1, GoesOnSound
  <2> QED BY <1>2, <1>3, <1>4, <2>1, <2>2, UploadStep DEF UploadInvariant
<1> QED BY <1>2, <1>5, <1>6 DEF CreateRow

LEMMA PutFileKeepsUploads ==
    ASSUME Driver = "local", FilesTypeOK, UploadInvariant, NEW w \in FileServer, PutFile(w)
    PROVE  UploadInvariant'
<1>1. {"putFile", "link", "clean"} \subseteq UploadStage
  BY DEF UploadStage
<1>2. PICK file \in Attachment : /\ file = work[w].file /\ Uploads(w) /\ file \notin answered
                                 /\ attachment[file] # "unused"
  BY <1>1, UploadAt DEF PutFile
<1>3. UNCHANGED <<attachment, answered>>
  BY DEF PutFile
<1>4. CASE files' = With(file, work[w].owner, "bytes") /\ Proceed(w, "link")
  <2>1. HasBytes(file)' /\ \A b : b # file /\ HasBytes(b) => HasBytes(b)'
    BY <1>4, PutHasBytes
  <2>2. \E job \in FileWork : /\ work' = [work EXCEPT ![w] = job]
                              /\ job.file = file /\ UploadSound(w)'
    BY <1>1, <1>2, <1>3, <1>4, <2>1, GoesOnSound
  <2> QED BY <1>2, <1>3, <2>1, <2>2, UploadStep DEF UploadInvariant
<1>5. CASE UNCHANGED files /\ Proceed(w, "clean")
  <2>1. \A b : HasBytes(b) => HasBytes(b)'
    BY <1>5 DEF HasBytes
  <2>2. \E job \in FileWork : /\ work' = [work EXCEPT ![w] = job]
                              /\ job.file = file /\ UploadSound(w)'
    BY <1>1, <1>2, <1>3, <1>5, GoesOnSound
  <2> QED BY <1>2, <1>3, <2>1, <2>2, UploadStep DEF UploadInvariant
<1> QED BY <1>2, <1>4, <1>5 DEF PutFile

LEMMA LinkRowKeepsUploads ==
    ASSUME FilesTypeOK, UploadInvariant, NEW w \in FileServer, LinkRow(w)
    PROVE  UploadInvariant'
<1>1. {"link", "log", "clean"} \subseteq UploadStage /\ "linked" \in RowState
  BY DEF UploadStage, RowState
<1>2. PICK file \in Attachment : /\ file = work[w].file /\ Uploads(w) /\ file \notin answered
                                 /\ attachment[file] # "unused"
                                 /\ attachment[file] # "gone" => HasBytes(file)
  BY <1>1, UploadAt DEF LinkRow
<1>3. UNCHANGED <<files, answered>>
  BY DEF LinkRow
<1>4. \A b : HasBytes(b) => HasBytes(b)'
  BY <1>3 DEF HasBytes
<1>5. CASE UNCHANGED attachment /\ Proceed(w, "clean")
  <2>1. \E job \in FileWork : /\ work' = [work EXCEPT ![w] = job]
                              /\ job.file = file /\ UploadSound(w)'
    BY <1>1, <1>2, <1>3, <1>5, GoesOnSound
  <2> QED BY <1>2, <1>3, <1>4, <1>5, <2>1, UploadStep DEF UploadInvariant
<1>6. CASE /\ attachment[file] # "gone" /\ Proceed(w, "log")
           /\ attachment' = [attachment EXCEPT ![file] = "linked"]
  <2>1. /\ attachment' \in [Attachment -> RowState] /\ attachment'[file] = "linked"
        /\ \A b \in Attachment \ {file} : attachment'[b] = attachment[b]
    BY <1>1, <1>6, RowStateIs
  <2>2. HasBytes(file)'
    BY <1>2, <1>4, <1>6
  <2>3. \E job \in FileWork : /\ work' = [work EXCEPT ![w] = job]
                              /\ job.file = file /\ UploadSound(w)'
    BY <1>1, <1>2, <1>3, <1>6, <2>1, <2>2, GoesOnSound
  <2> QED BY <1>2, <1>3, <1>4, <2>1, <2>3, UploadStep DEF UploadInvariant
<1> QED BY <1>2, <1>5, <1>6 DEF LinkRow

(* An upload is answered when its row is linked and its object in place,   *)
(* or when the report's deletion has taken the row.                        *)
LEMMA LogUploadKeepsUploads ==
    ASSUME FilesTypeOK, UploadInvariant, NEW w \in FileServer, LogUpload(w)
    PROVE  UploadInvariant'
<1>1. {"log", "clean"} \subseteq UploadStage
  BY DEF UploadStage
<1>2. PICK file \in Attachment : /\ file = work[w].file /\ Uploads(w) /\ file \notin answered
                                 /\ attachment[file] \in {"linked", "gone"}
                                 /\ attachment[file] # "gone" => HasBytes(file)
  BY <1>1, UploadAt DEF LogUpload
<1>3. UNCHANGED <<files, attachment>>
  BY DEF LogUpload
<1>4. \A b : HasBytes(b) => HasBytes(b)'
  BY <1>3 DEF HasBytes
<1>5. CASE answered' = answered \cup {file} /\ Rest(w)
  <2>1. AnswerStands(file)'
    BY <1>2, <1>3, <1>4 DEF AnswerStands
  <2>2. answered' \subseteq Attachment /\ attachment' \in [Attachment -> RowState]
    BY <1>3, <1>5 DEF UploadInvariant
  <2> QED BY <1>2, <1>3, <1>4, <1>5, <2>1, <2>2, EndedIsSound, UploadStep
<1>6. CASE UNCHANGED answered /\ Proceed(w, "clean")
  <2>1. attachment'[file] # "unused" /\ file \notin answered'
    BY <1>2, <1>3, <1>6
  <2>2. \E job \in FileWork : /\ work' = [work EXCEPT ![w] = job]
                              /\ job.file = file /\ UploadSound(w)'
    BY <1>1, <1>2, <1>6, <2>1, GoesOnSound
  <2> QED BY <1>2, <1>3, <1>4, <1>6, <2>2, UploadStep DEF UploadInvariant
<1> QED BY <1>2, <1>5, <1>6 DEF LogUpload

LEMMA UndoRowKeepsUploads ==
    ASSUME FilesTypeOK, UploadInvariant, NEW w \in FileServer, UndoRow(w)
    PROVE  UploadInvariant'
<1>1. {"clean", "cleanFile"} \subseteq UploadStage /\ "gone" \in RowState
  BY DEF UploadStage, RowState
<1>2. PICK file \in Attachment : file = work[w].file /\ Uploads(w) /\ file \notin answered
  BY <1>1, UploadAt DEF UndoRow
<1>3. UNCHANGED <<files, answered>>
  BY DEF UndoRow
<1>4. \A b : HasBytes(b) => HasBytes(b)'
  BY <1>3 DEF HasBytes
<1>5. CASE UNCHANGED attachment /\ Rest(w)
  BY <1>2, <1>3, <1>4, <1>5, EndedIsSound, UploadStep DEF UploadInvariant
<1>6. CASE attachment' = [attachment EXCEPT ![file] = "gone"] /\ Proceed(w, "cleanFile")
  <2>1. /\ attachment' \in [Attachment -> RowState] /\ attachment'[file] = "gone"
        /\ \A b \in Attachment \ {file} : attachment'[b] = attachment[b]
    BY <1>1, <1>6, RowStateIs
  <2>2. \E job \in FileWork : /\ work' = [work EXCEPT ![w] = job]
                              /\ job.file = file /\ UploadSound(w)'
    BY <1>1, <1>2, <1>3, <1>6, <2>1, GoesOnSound
  <2> QED BY <1>2, <1>3, <1>4, <2>1, <2>2, UploadStep DEF UploadInvariant
<1> QED BY <1>2, <1>5, <1>6 DEF UndoRow

LEMMA UndoFileKeepsUploads ==
    ASSUME Driver = "local", FilesTypeOK, UploadInvariant, NEW w \in FileServer, UndoFile(w)
    PROVE  UploadInvariant'
<1>1. "cleanFile" \in UploadStage
  BY DEF UploadStage
<1>2. PICK file \in Attachment : file = work[w].file /\ Uploads(w) /\ file \notin answered
  BY <1>1, UploadAt DEF UndoFile
<1>3. UNCHANGED <<attachment, answered>> /\ Rest(w)
  BY DEF UndoFile
<1>4. \A b \in Attachment \ {file} : HasBytes(b) => HasBytes(b)'
  BY <1>2, WithoutKeepsBytes DEF UndoFile
<1> QED BY <1>2, <1>3, <1>4, EndedIsSound, UploadStep DEF UploadInvariant

(* A file id is drawn for one upload only.                                 *)
LEMMA BeginUploadKeepsUploads ==
    ASSUME FilesTypeOK, UploadInvariant, NEW w \in FileServer, NEW a \in Attachment,
           BeginUpload(w, a)
    PROVE  UploadInvariant'
<1>1. PICK job \in FileWork : /\ work' = [work EXCEPT ![w] = job]
                              /\ job.op = "upload" /\ job.stage = "row" /\ job.file = a
  BY BeginUploadIs
<1>2. work'[w] = job /\ \A v \in FileServer \ {w} : work'[v] = work[v]
  BY <1>1 DEF FilesTypeOK
<1>3. /\ UNCHANGED <<attachment, files, answered>>
      /\ attachment[a] = "unused" /\ \A v \in FileServer : work[v].file # a
  BY DEF BeginUpload, attachmentVars
<1>4. a \notin answered
  BY <1>3 DEF UploadInvariant, AnswerStands
<1>5. ASSUME NEW v \in FileServer
      PROVE  UploadSound(v)'
  <2>1. CASE v = w
    <3>1. work'[v].file = a /\ work'[v].stage = "row" /\ Uploads(v)'
      BY <1>1, <1>2, <2>1 DEF Uploads
    <3> QED BY <1>3, <1>4, <3>1 DEF UploadSound, Doing, UploadStage
  <2>2. CASE v # w
    <3>1. UploadSound(v) /\ work'[v] = work[v]
      BY <1>2, <2>2 DEF UploadInvariant
    <3> QED BY <1>3, <3>1 DEF UploadSound, Uploads, Doing, HasBytes
  <2> QED BY <2>1, <2>2
<1>6. ASSUME NEW u \in FileServer, NEW v \in FileServer, u # v, Uploads(u)', Uploads(v)'
      PROVE  work'[u].file # work'[v].file
  BY <1>1, <1>2, <1>3, <1>6 DEF UploadInvariant, Uploads
<1>7. \A b \in answered' : AnswerStands(b)'
  BY <1>3 DEF UploadInvariant, AnswerStands, HasBytes
<1> QED BY <1>3, <1>5, <1>6, <1>7 DEF UploadInvariant

(* The rows that go leave the uploads of their files to clean up.          *)
LEMMA DeleteRowsKeepsUploads ==
    ASSUME FilesTypeOK, UploadInvariant, NEW w \in FileServer, DeleteRows(w)
    PROVE  UploadInvariant'
<1>1. ~Uploads(w) /\ work[w].op # "upload" /\ Doing(w, "rows")
  BY DEF DeleteRows, UploadInvariant, UploadSound, Doing, UploadStage, Uploads
<1>2. CASE UNCHANGED attachment /\ Rest(w)
  BY <1>2, RestIs, RestingIsWork, OtherStepKeepsUploads DEF DeleteRows, UploadStage
<1>3. CASE /\ attachment' = [a \in Attachment |->
                               IF attachment[a] = "unused" THEN "unused" ELSE "gone"]
           /\ Proceed(w, "objects")
  <2>1. "objects" \in Stage /\ "objects" \notin UploadStage
    BY DEF Stage, UploadStage
  <2>2. PICK job \in FileWork : /\ work' = [work EXCEPT ![w] = job]
                                /\ job.stage = "objects" /\ job.op = work[w].op
    BY <1>3, <2>1, ProceedIs DEF FilesTypeOK
  <2>3. work'[w] = job /\ \A v \in FileServer \ {w} : work'[v] = work[v]
    BY <2>2 DEF FilesTypeOK
  <2>4. UNCHANGED <<files, answered>>
    BY DEF DeleteRows
  <2>5. /\ attachment' \in [Attachment -> RowState]
        /\ \A a \in Attachment :
              /\ attachment'[a] \in {"unused", "gone"}
              /\ attachment'[a] = "unused" <=> attachment[a] = "unused"
    BY <1>3 DEF RowState
  <2>6. ASSUME NEW v \in FileServer
        PROVE  UploadSound(v)'
    <3>1. CASE v = w
      BY <1>1, <2>1, <2>2, <2>3, <3>1 DEF UploadSound, Uploads
    <3>2. CASE v # w
      <4>1. UploadSound(v) /\ work'[v] = work[v]
        BY <2>3, <3>2 DEF UploadInvariant
      <4>2. CASE ~Uploads(v)
        BY <4>1, <4>2 DEF UploadSound, Uploads
      <4>3. CASE Uploads(v)
        <5> DEFINE a == work[v].file
        <5>1. a \in Attachment /\ a \notin answered
              /\ (attachment[a] = "unused" <=> Doing(v, "row"))
          BY <4>1, <4>3 DEF UploadSound
        <5>2. /\ attachment'[a] \in {"unused", "gone"}
              /\ attachment'[a] = "unused" <=> work[v].stage = "row"
          BY <2>5, <5>1 DEF Doing
        <5> QED BY <2>4, <4>1, <4>3, <5>1, <5>2 DEF UploadSound, Uploads, Doing
      <4> QED BY <4>2, <4>3
    <3> QED BY <3>1, <3>2
  <2>7. \A u, v \in FileServer :
           u # v /\ Uploads(u)' /\ Uploads(v)' => work'[u].file # work'[v].file
    BY <1>1, <2>2, <2>3 DEF UploadInvariant, Uploads
  <2>8. \A b \in answered' : AnswerStands(b)'
    BY <2>4, <2>5 DEF UploadInvariant, AnswerStands
  <2> QED BY <2>4, <2>5, <2>6, <2>7, <2>8 DEF UploadInvariant
<1> QED BY <1>2, <1>3 DEF DeleteRows

(* No step but a clean-up takes the object of a row that is there.         *)
LEMMA ObjectsKeepUploads ==
    ASSUME FilesTypeOK, UploadInvariant, NEW w \in FileServer, NEW job \in FileWork,
           work' = [work EXCEPT ![w] = job],
           job.op # "upload", job.stage \notin UploadStage,
           UNCHANGED <<attachment, answered>>,
           \A a \in Attachment : attachment[a] # "gone" /\ HasBytes(a) => HasBytes(a)'
    PROVE  UploadInvariant'
<1>1. work'[w] = job /\ \A v \in FileServer \ {w} : work'[v] = work[v]
  BY DEF FilesTypeOK
<1>2. ASSUME NEW v \in FileServer
      PROVE  UploadSound(v)'
  <2>1. CASE v = w
    BY <1>1, <2>1 DEF UploadSound, Uploads
  <2>2. CASE v # w
    <3>1. UploadSound(v) /\ work'[v] = work[v]
      BY <1>1, <2>2 DEF UploadInvariant
    <3>2. CASE ~Uploads(v)
      BY <3>1, <3>2 DEF UploadSound, Uploads
    <3>3. CASE Uploads(v)
      <4> DEFINE a == work[v].file
      <4>1. a \in Attachment
        BY <3>1, <3>3 DEF UploadSound
      <4>2. attachment[a] # "gone" /\ HasBytes(a) => HasBytes(a)'
        BY <3>1, <4>1
      <4> QED BY <3>1, <3>3, <4>1, <4>2 DEF UploadSound, Uploads, Doing
    <3> QED BY <3>2, <3>3
  <2> QED BY <2>1, <2>2
<1>3. \A u, v \in FileServer :
         u # v /\ Uploads(u)' /\ Uploads(v)' => work'[u].file # work'[v].file
  BY <1>1 DEF UploadInvariant, Uploads
<1>4. \A b \in answered' : AnswerStands(b)'
  BY DEF UploadInvariant, AnswerStands
<1> QED BY <1>2, <1>3, <1>4 DEF UploadInvariant

LEMMA DeleteObjectsKeepsUploads ==
    ASSUME Driver = "local", FilesTypeOK, UploadInvariant,
           NEW w \in FileServer, DeleteObjects(w)
    PROVE  UploadInvariant'
<1>1. PICK A \in SUBSET {a \in Attachment : attachment[a] = "gone"} :
         files' = {f \in files : \A a \in A : f.at # Location(a, work[w].owner)}
  BY DEF DeleteObjects
<1>2. ASSUME NEW b \in Attachment, attachment[b] # "gone", HasBytes(b)
      PROVE  HasBytes(b)'
  <2>1. PICK f \in files : f.at = Place(b) /\ f.content = "bytes"
    BY <1>2 DEF HasBytes
  <2>2. \A a \in A : a # b
    BY <1>1, <1>2
  <2>3. \A a \in A : f.at # Location(a, work[w].owner)
    BY <2>1, <2>2, LocalPlace, PlacesDiffer
  <2> QED BY <1>1, <2>1, <2>3 DEF HasBytes
<1>3. UNCHANGED <<attachment, answered>> /\ Rest(w)
  BY DEF DeleteObjects
<1> QED BY <1>2, <1>3, RestIs, RestingIsWork, ObjectsKeepUploads DEF UploadStage

(* The boot writes a placeholder only where there is no object.            *)
LEMMA RestartKeepsUploads ==
    ASSUME Driver = "local", FilesTypeOK, UploadInvariant, RestartFiles
    PROVE  UploadInvariant'
<1> DEFINE bare == {Location(a, report.owner) :
                       a \in {b \in Attachment : NeedsPlaceholder(b)}}
<1>1. /\ work' = [w \in FileServer |-> Resting] /\ UNCHANGED answered
      /\ files' = {f \in files : f.at \notin bare}
                  \cup {[at |-> l, content |-> "placeholder"] : l \in bare}
      /\ attachment' = [a \in Attachment |->
                          IF attachment[a] = "unlinked" THEN "linked" ELSE attachment[a]]
  BY DEF RestartFiles
<1>2. ASSUME NEW a \in Attachment, HasBytes(a)
      PROVE  HasBytes(a)'
  <2>1. PICK f \in files : f.at = Place(a) /\ f.content = "bytes"
    BY <1>2 DEF HasBytes
  <2>2. ~NeedsPlaceholder(a)
    BY <2>1, LocalPlace DEF NeedsPlaceholder, ContentAt
  <2>3. ASSUME NEW b \in Attachment, NeedsPlaceholder(b)
        PROVE  Location(b, report.owner) # f.at
    BY <2>1, <2>2, <2>3, LocalPlace, PlacesDiffer
  <2>4. f \in files'
    BY <1>1, <2>1, <2>3
  <2> QED BY <2>1, <2>4 DEF HasBytes
<1> HIDE DEF bare
<1>3. /\ attachment' \in [Attachment -> RowState]
      /\ \A a \in Attachment : attachment[a] \in {"linked", "gone"}
                               => attachment'[a] = attachment[a]
  BY <1>1 DEF UploadInvariant, RowState
<1>4. \A w \in FileServer : ~Uploads(w)' /\ work'[w].stage \notin UploadStage
  BY <1>1, RestingIsWork DEF Uploads, UploadStage
<1>5. ASSUME NEW a \in answered'
      PROVE  AnswerStands(a)'
  <2>1. a \in Attachment /\ AnswerStands(a)
    BY <1>1 DEF UploadInvariant
  <2> QED BY <1>2, <1>3, <2>1 DEF AnswerStands
<1> QED BY <1>1, <1>3, <1>4, <1>5 DEF UploadInvariant, UploadSound

CustomerStep(w) ==
    \/ \E c \in Customer : JudgeUpdate(w, c) \/ JudgeLogo(w, c) \/ JudgeRemoval(w, c)
    \/ WriteCustomer(w) \/ PutLogo(w) \/ PointAtLogo(w) \/ DropLogo(w)

(* A request about a customer is no upload, before the step and after it.  *)
LEMMA CustomerStepKeepsUploads ==
    ASSUME LogoInvariant, UploadInvariant, NEW w \in FileServer, CustomerStep(w)
    PROVE  UploadInvariant'
<1> DEFINE Goes == \E job \in FileWork : /\ work' = [work EXCEPT ![w] = job]
                                         /\ job.op # "upload" /\ job.stage \notin UploadStage
<1>1. FilesTypeOK /\ work[w] \in FileWork
  BY DEF LogoInvariant, FilesTypeOK
<1>2. ASSUME NEW c \in Customer, NEW op \in Request, NEW stage \in Stage,
             op # "upload", stage \notin UploadStage, Judge(w, c, op, stage)
      PROVE  Goes
  BY <1>1, <1>2, JudgeIs
<1>3. ASSUME NEW c \in Customer, JudgeUpdate(w, c) \/ JudgeLogo(w, c) \/ JudgeRemoval(w, c)
      PROVE  Goes /\ UNCHANGED attachmentVars
  <2>1. /\ {"update", "setActive", "setLogo", "removeLogo"} \subseteq Request
        /\ {"write", "putLogo", "pointLogo"} \subseteq Stage
        /\ "write" \notin UploadStage /\ "putLogo" \notin UploadStage
        /\ "pointLogo" \notin UploadStage
    BY DEF Request, Stage, UploadStage, LogoStage
  <2>2. \/ \E op \in {"update", "setActive"} : Judge(w, c, op, "write")
        \/ Judge(w, c, "setLogo", "putLogo") \/ Judge(w, c, "removeLogo", "pointLogo")
    BY <1>3 DEF JudgeUpdate, JudgeLogo, JudgeRemoval
  <2>3. Goes
    BY <1>2, <2>1, <2>2
  <2> QED BY <1>3, <2>3 DEF JudgeUpdate, JudgeLogo, JudgeRemoval
<1>4. ASSUME Rest(w)
      PROVE  Goes
  BY <1>4, RestIs, RestingIsWork DEF UploadStage
<1>5. CASE WriteCustomer(w) \/ DropLogo(w)
  <2>1. Goes /\ UNCHANGED attachmentVars
    BY <1>4, <1>5 DEF WriteCustomer, DropLogo
  <2> QED BY <1>1, <2>1, OtherStepKeepsUploads DEF attachmentVars
<1>6. CASE PutLogo(w)
  <2>1. work[w].op = "setLogo" /\ logosDrawn' \in Nat
    BY <1>1, <1>6 DEF PutLogo, LogoInvariant, LogoJudged, FilesTypeOK
  <2>2. CASE work' = [work EXCEPT ![w].stage = "pointLogo", ![w].new = logosDrawn']
    <3> DEFINE J == [work[w] EXCEPT !.stage = "pointLogo", !.new = logosDrawn']
    <3>1. J \in FileWork /\ J.op = work[w].op /\ J.stage = "pointLogo"
      BY <1>1, <2>1 DEF FileWork, Stage, LogoStage
    <3>2. work' = [work EXCEPT ![w] = J]
      BY <1>1, <2>2 DEF FilesTypeOK
    <3>3. Goes
      BY <2>1, <3>1, <3>2 DEF UploadStage
    <3> QED BY <1>1, <1>6, <3>3, OtherStepKeepsUploads DEF PutLogo, attachmentVars
  <2>3. CASE Rest(w)
    BY <1>1, <1>4, <1>6, <2>3, OtherStepKeepsUploads DEF PutLogo, attachmentVars
  <2> QED BY <1>6, <2>2, <2>3 DEF PutLogo
<1>7. CASE PointAtLogo(w)
  <2>1. work[w].op \in {"setLogo", "removeLogo"}
    BY <1>7 DEF PointAtLogo, LogoInvariant, LogoJudged
  <2>2. ASSUME NEW stage \in {"dropNew", "dropOld"}, Proceed(w, stage)
        PROVE  Goes
    <3>1. stage \in Stage /\ stage \notin UploadStage
      BY <2>2 DEF Stage, LogoStage, UploadStage
    <3>2. PICK job \in FileWork : /\ work' = [work EXCEPT ![w] = job]
                                  /\ job.stage = stage /\ job.op = work[w].op
      BY <1>1, <2>2, <3>1, ProceedIs DEF FilesTypeOK
    <3> QED BY <2>1, <3>1, <3>2
  <2>3. Goes /\ UNCHANGED attachmentVars
    BY <1>4, <1>7, <2>2 DEF PointAtLogo
  <2> QED BY <1>1, <2>3, OtherStepKeepsUploads DEF attachmentVars
<1> QED BY <1>1, <1>3, <1>5, <1>6, <1>7, OtherStepKeepsUploads DEF CustomerStep, attachmentVars

LEMMA StepKeepsUploads ==
    ASSUME Driver = "local", LogoInvariant, UploadInvariant, [CustomerFilesNext]_fileVars
    PROVE  UploadInvariant'
<1>1. FilesTypeOK
  BY DEF LogoInvariant
<1>2. CASE UNCHANGED <<attachment, files, answered, work>>
  <2>1. \A w \in FileServer : UploadSound(w)'
    BY <1>2 DEF UploadInvariant, UploadSound, Uploads, Doing, HasBytes
  <2>2. \A a \in answered' : AnswerStands(a)'
    BY <1>2 DEF UploadInvariant, AnswerStands, HasBytes
  <2> QED BY <1>2, <2>1, <2>2 DEF UploadInvariant, Uploads
<1>3. ASSUME NEW w \in FileServer, BeginDeletion(w)
      PROVE  UploadInvariant'
  BY <1>1, <1>3, BeginDeletionIs, OtherStepKeepsUploads
     DEF BeginDeletion, attachmentVars, UploadStage
<1>4. ASSUME NEW w \in FileServer, FileStep(w)
      PROVE  UploadInvariant'
  BY <1>1, <1>3, <1>4, BeginUploadKeepsUploads, CreateRowKeepsUploads, PutFileKeepsUploads,
     LinkRowKeepsUploads, LogUploadKeepsUploads, UndoRowKeepsUploads, UndoFileKeepsUploads,
     DeleteRowsKeepsUploads, DeleteObjectsKeepsUploads DEF FileStep
<1>5. CASE \/ UNCHANGED fileVars \/ LockOrUnlock
           \/ \E c \in Customer : CreateCustomer(c) \/ DeleteCustomer(c)
  BY <1>2, <1>5 DEF fileVars, LockOrUnlock, CreateCustomer, DeleteCustomer, attachmentVars
<1>6. \/ \E w \in FileServer : CustomerStep(w) \/ FileStep(w)
      \/ UNCHANGED fileVars \/ LockOrUnlock
      \/ \E c \in Customer : CreateCustomer(c) \/ DeleteCustomer(c)
      \/ RestartFiles
  BY DEF CustomerFilesNext, CustomerStep, FileStep
<1> QED BY <1>1, <1>4, <1>5, <1>6, CustomerStepKeepsUploads, RestartKeepsUploads

(* On a local disk, whatever fails, races or restarts, the row of an       *)
(* answered upload finds the uploaded bytes (AttachmentsService.upload,    *)
(* its undoing, and the back-fill at boot).  The driver is assumed because  *)
(* on S3 the customer is part of the location: a report that loses its     *)
(* customer loses its files.                                               *)
THEOREM AnsweredFilesAreFound ==
    ASSUME Driver = "local"
    PROVE  CustomerFilesSpec => []AttachmentFound
<1>1. CustomerFilesInit => LogoInvariant /\ UploadInvariant
  BY InitLogos, InitUploads
<1>2. LogoInvariant /\ UploadInvariant /\ [CustomerFilesNext]_fileVars
      => LogoInvariant' /\ UploadInvariant'
  BY StepKeepsLogos, StepKeepsUploads
<1>3. UploadInvariant => AttachmentFound
  <2> SUFFICES ASSUME UploadInvariant, NEW a \in answered, attachment[a] = "linked"
               PROVE  "bytes" \in ContentAt(a, report.owner)
    BY DEF AttachmentFound
  <2>1. PICK f \in files : f.at = Place(a) /\ f.content = "bytes"
    BY DEF UploadInvariant, AnswerStands, HasBytes
  <2>2. Location(a, report.owner) = Place(a)
    BY LocalPlace
  <2> QED BY <2>1, <2>2 DEF ContentAt
<1> QED BY <1>1, <1>2, <1>3, PTL DEF CustomerFilesSpec
=============================================================================
