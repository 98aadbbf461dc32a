# OTS web portal: a verification development

This directory models the core of the OTS inspection system in TLA+: the API
that moves an inspection report through receipt, inspection, review and
approval (`src/api`), with the signatures, files and templates around it, and the
offline-first portal (`src/portal`): its session, its cached rows, the outbox in
which it keeps the changes it has yet to send, and the screens on which those
changes are made. TLC checks small instances; TLAPS proves, for every instance,
what keeps the review of serials, the outbox, the cached rows, the session, the signatures,
the files and templates and the work done on the portal's screens correct.

## The system

An **inspection report** belongs to a customer and is bound to a template. A
receiver adds **serial numbers** to it, an inspector saves inspection data on
each, submits serials in **approval batches**, and a supervisor approves or
returns them. The report itself has a status of its own, moved along a role
matrix by **transitions** or set by a **PATCH**. Serials whose data match the
template's rework rule get a second life in a **child report**, which repeats
inspection and review with a row per serial. Approvals and reopens freeze
**revisions** of the report.

Inspectors work offline. The portal saves a change in IndexedDB under a temporary
id, queues it in an **outbox**, and a **synchronisation run** sends the queue in
order when the device is online, replacing temporary ids by the server's.

Every request runs on PostgreSQL at READ COMMITTED. The standing decision
(`docs/adr/0002-optimistic-concurrency.md`) is that each write compares the
version it read, twice. The hard part of the system is that several operations
do not, that checks are often read before the transaction that depends on them,
and that counts decide about completion while other transactions are uncommitted.

| Component | State | Operations | What makes it correct |
|---|---|---|---|
| workflow policy | constant tables | lookups | roles move reports only along the matrix |
| report workflow | status, version, revision, hold log | transition, PATCH | a write overwrites what it judged; leaving a locked status makes a revision |
| serial numbers | serial rows: data, approval status, version | bulk create, save, delete | no lost edits; nothing under review changes |
| approval batches | batches, membership rows | submit, approve, return | no serial stranded or approved without a verdict; completion is noticed |
| child reports | child report, its rows | sync, PATCH, edit of a row, transition | rows follow the match set; review survives syncs |
| approval gate | none | check on entry to PENDING_APPROVAL | incomplete reports do not enter |
| revision snapshots | revision rows | snapshot on approval and reopen | approved content is frozen |
| offline outbox and dispatcher | queued items, temporary ids | enqueue, process, clear | each edit reaches the server once, in order |
| sync orchestrator, connectivity | sync flags, timer | auto sync, manual sync | queued items are eventually sent |
| local repositories, hydration | IndexedDB stores | upsert, remap, hydrate | unsynced work is kept; the cache comes to mirror the server |
| portal session | token pair, tenant database | login, logout, rotation, reload | one tenant's rows for one tenant; a session outlives its own rotation |
| serial drawer | form, draft, saves under way | type, move, flush, save | what was typed is kept, on its serial |
| report and serial screens | cached rows, chosen transition, queue | transition, save, publish, attach, delete, submit, review | what is offered is accepted; nothing unsynced is forgotten |
| portal administration | cached users and customers, queue | make, edit, activate, delete | an edit overwrites only what its author saw |
| portal UI policy | none | choices per role and status | agrees with the API's matrices and reason rules |
| signatures | registered pictures, pointers, signed fields | register, sign, freeze, adopt, clean up | no pointer without its picture; a signature is not replaced |
| customers, attachments, deletion | rows and stored objects | upload, undo, logo, delete, reconcile | rows and objects agree after any failure |
| templates | versions, definitions, workbooks | upload, approve, define, delete | a usable version has its workbook; replaced definitions are kept |
| template wizard | rows described, rework rule, step | claim, release, exclude, prefill, save | what may be saved passes the server's checks |
| users and authentication (API) | users, refresh tokens | rotate, revoke, administer | one use per refresh token |
| export, metrics, views, deployment | | pure transformations, reads | see `PROJECT.json` |

`PROJECT.json` lists every component with its status, and the hazards of the
code at the line where each bites.

## The modules

- `WorkflowPolicy`: the role matrices of report and child report, the moves that
  need a reason, the locked statuses. Constant operators.
- `ReportDatabase`: the tables of one report as variables (`report`, `snapshot`,
  `child`, `approval`, `data`, `rowVersion`, the batch tables and `junction`), the
  requests in flight (`tx`), row locks, what a transaction sees, the gate,
  `TypeOK` and `Init` (a report as `createReport` leaves it).
- `ReportWorkflow`, `SerialNumbers`, `ApprovalBatches`, `ChildReports`: the
  operations of each component, one `Begin...` action for what a request reads
  and validates and one or more actions for its writes, split wherever another
  transaction can come between.
- `InspectionReports`: composes them over the same tables; `Next`, `Spec` and the
  properties.
- `InspectionReportsProofs`: the invariants of `InspectionReports`, and what its steps may
  never do, proved.
- `OutboxSyncProofs`, `ReportSignaturesProofs`, `CustomerFilesProofs`: the theorems about the
  module each is named after; `TemplateProofs`: those about `Templates` and `TemplateWizard`;
  `PortalCacheProofs`: those about `CachePull` and `PortalSession`; `PortalScreensProofs`: those
  about the screens of `MCPortal`, with the invariants of the drawer and the reviews;
  `PortalReportProofs`: the invariants it needs of the report's screen, the list and the
  administration.
- `MCReports`: the instances TLC checks of the reports.
- `OutboxSync`: the portal's outbox, its drain, the dispatcher's remap of temporary
  ids, the orchestrator's runs and timer, connectivity, and the local rows as far as
  they decide which ids a user can edit.
- `CachePull`: the pulls that refresh the cached rows of a report, over edits, their
  delivery, disconnections and changes on the server.
- `PortalSession`: the token pair shared by the tabs of a browser, the interceptor's
  rotation, the API's, and the handle on the tenant's database.
- `SerialDrawer`: the form in which a serial is filled in, its autosave, the saves
  under way and the refreshes behind them, on the screen of a report and of a child
  report.
- `OfflineReview`: submissions, approvals and returns, made online or queued, with the
  temporary batches and the remap of the reviews queued on them.
- `AdminSync`: users and customers as an administrator keeps them.
- `ReportScreen`: the row of a report or child report, the transitions its screen
  offers (the portal's own policy against `WorkflowPolicy`), header, notes,
  publication, attachments and deletion.
- `SerialList`: the serials of a report on a device, and the rework sync that
  follows each save.
- `ReportSignatures`, `CustomerFiles`, `Templates`: the rows of the API that have stored
  objects beside them.
- `TemplateWizard`: the portal's wizard for the definition of a workbook, and the checks of
  roles and signatures the server makes on what it sends.
- `MCContent`, `MCPortal`: one instance for several components that share no state
  (`MCContent`: signatures, files, templates, the wizard, session; `MCPortal`: the five screens). The
  `scene`, drawn with the first state, says which of them runs.
- `DeliveryQueue`: what an outbox promises about each change, without runs, ids or
  signals; `OutboxSync` is shown to implement it (`KeepsDelivery`).

Each operator whose comment starts with "A fault to refute" is a faulty variant of
the definition that follows it. No specification uses one; putting it in the
definition's place makes some run fail, which shows that the run depends on that
line of the code.

### How an operation is modelled

A request in the code reads committed rows, checks them against what the client
sent, and writes in an interactive transaction. In the model a handler `h` does
the same: `Begin...` reads one committed snapshot and keeps in `tx[h]` what the
later steps use, so it may be stale when they run. A guarded write
(`updateMany({ where: { id, version } })`) is a guard of the commit. A client is
taken to send the version that is current when its request is read: any other
is answered 409 with no effect. `Abort` covers every other way a request ends
without effect: a guard that matches nothing, a constraint, a deadlock that
PostgreSQL breaks, the limit of an interactive transaction, a crashed process.

Reviews take row locks in a fixed order (serials, batch, report), and their
counts see committed rows plus their own writes: `WriteRows`, `WriteBatch` and
`CommitReview` are cut at these points. `updateMany` of the serials and the count of
the members left are one step because both are behind the same row locks.
A sync commits the new child report before its rows (`CreateChild`, then
`Reconcile`); inside `Reconcile` the find, the delete and the insert of rows are
merged.

Left out, because no property depends on it: header data, statistics, audit
logs, notes, the label of a serial, the layout of a snapshot. A serial's data is
a disposition or `NoData`, data that fails the gate. These modules know no deletion of the
report (`CustomerFiles`, `ReportSignatures` and `ReportScreen` do), and ids are never
reused.

### How the portal is modelled

The portal is one event loop, so a step is what runs between two awaits: an
IndexedDB or HTTP request together with what follows its result.
`Begin` is the part of an operation of the inspection service up to its first
request, `AskServer` the online attempt, `SaveAndEnqueue` what an offline one
leaves. `TakeItem` reads an item, `GetAnswer` is its request, `UpdateRows`,
`FindDependents` and `PutDependents` are the dispatcher's work after an
acceptance, and `RecordAnswer` or `HoldItem` puts the item back as it was read. A
user can queue, edit or clear between any two of them.

The variables keep the names of the code (`pendingCount`, `hasConflict`,
`isSyncing`); `run` and `drain` say where the calls of `runSyncSequence` and
`processQueue` are, and `drain.step = "idle"` is `isProcessing = false`.
`ProbeServer` tests nothing but reachability, because the code tests `isSyncing` only
before that await, so two runs can pass and the second goes on to hydrate while the
first drains. An id is an entity with `"local"` or `"server"`, and `rows` gives the
report of each id. A deleted item keeps its number with the status `"GONE"`.

That describes `OutboxSync`, which abstracts row versions. The modules of the screens
turn this round: they have row versions, what each step has read, and one run that
drains in order (`StartRun`, `Judge`, then `Deliver`, `Refuse` or `LoseDelivery`, then
the steps that cache the answer and remap), and leave overlapping runs, cooldown
and clearing to `OutboxSync`. Their operations are all built one way: an operation
is a list of steps still to do, `act.todo` (`Answering` when the server answers,
`Locally` when it does not, `SerialList` and `ReportScreen`) or a step name (`OfflineReview`,
`AdminSync`); `Post` asks the server, `LosePost` is a request whose answer does not come
(which may have had its effect), and each read and each write of IndexedDB is a
step of its own. `OthersAct` is another user on the server, `Reload` forgets everything
but IndexedDB. The server's side of each request is an operator (`Answered`, `After`) with
the guards of the API's handler; races between requests inside the server are in the
modules of the API. In `SerialDrawer` a call (`calls`) is one execution of the save
chain and a refresh (`refreshes`) one execution of the renewal of the list; both
may be several at once.

`CachePull` gives the pull of a report its steps: the answer of the list
(`GetReports`), the rows read (`SeeReports`), the writes decided by them (`PutReport`,
`PruneReport`), and the same for its parts. Where other modules have a pull, it is
that of their own rows.

The API's modules beside the reports follow the same idea: a handler's request is a
sequence of steps, cut wherever the database, the store or another request can come
between; a restart forgets the requests under way and keeps rows and objects.

Merged into one step in `OutboxSync`, because nothing between them tells: the count and the conflict
query of `rehydrateCount`; the several rows a remap changes, and the several
items it puts back; the row and the item of a change. Row versions are abstracted:
a conditional change may be answered with a conflict at any time. The server
refuses a temporary id, always, and a lost answer (no response or a 5xx) may
follow a change that was made.

## The runs

The runs of the reports use `MCReports`. Deadlock is not checked: a report whose version reached the
bound accepts no further request, and the instance stops there. Handlers are
interchangeable, and so are serials where a run's symmetry says so; no
liveness property is checked under symmetry.

| Run | Instance | What it asks |
|---|---|---|
| `batches_concurrent` | 2 handlers, 2 serials, 2 batches; submit, approve, return | is a serial ever stranded in a closed batch, or approved without a verdict |
| `lifecycle` | 2 handlers, 1 serial, all statuses; transitions, PATCH, serial requests from an empty DRAFT | do guarded writes keep their promise when nothing unguarded runs |
| `sequential` | 1 handler, 1 serial, 1 child report, 2 batches; every operation | do the review rules hold when requests do not overlap |
| `child_review` | 2 handlers, 1 serial, 1 child report, 2 batches; review, edits, syncs; from a serial just received or from a child report under inspection | can a late edit take a serial out of review, does a child report's review survive syncs that remove its rows or delete it |
| `outbox_drain` | 1 report, 1 serial, 2 runs, 2 queued changes, 1 fault | does the outbox keep the promises of `DeliveryQueue`, send each entity's changes in order, count them, and decide each |
| `content_steps` | `MCContent`: 2 requests (templates: 1), restarts, two layouts of signature fields; the wizard: 3 tokens, 1 header role; 1.6 million states | can a picture vanish that a report points at, a logo outlive a lost race, a usable version lack its workbook, a form be saved that the server refuses, a tenant read another's cache |
| `cache_pull` | 1 serial, 2 overlapping pulls, 1 edit, 1 loss; 1.3 million states | does a pull keep the unsynced work it saw, and does the cache come to mirror the server |
| `portal_work` | `MCPortal`: the five screens; 4.4 million states | are drafts, reviews, deletions, edits and transitions what the user meant, when requests are lost, pages reloaded and rows pulled or changed in between |
| `missed_autoapproval` | 2 handlers, 2 serials | violated: see below |
| `offline_review` | 1 device, 2 serials, nothing lost, nobody else | violated |
| `rework_sync` | 1 device, 2 serials, nothing lost, nobody else | violated |
| `concurrent_definitions` | 2 requests, 1 version, 3 definitions | violated |

`outbox_drain`, `cache_pull`, `offline_review`, `rework_sync` and `concurrent_definitions` use the
modules themselves. Deadlock is not checked in any of them, nor in `content_steps` and
`portal_work`: with no work left and the bounds reached, there is nothing to do.

Bounds. `MaxVersion` bounds the requests that write the report (a report under
inspection starts at version 5, so 8 leaves three), `MaxBatches` the batches and
`MaxRevision` the revisions of a child report. Two overlapping requests show every
race in which one request invalidates what another read. Two serials and two batches are what partial reviews, a serial in two
batches and "the last two batches" need. `InspectionInit`, `ReceivedInit` and `ReworkInit` start at
states reached by the ordinary forward path, which `lifecycle` walks, so that
the bounds are spent on review.

In `outbox_drain` two changes are a create with a dependent, an edit after an edit,
or a deletion after a creation, which is what order, dependency and remap
relate; two runs overlap in every way the code allows, because a third meets the
same `isSyncing`. One fault is a lost answer, a failed probe, a failed hydration
or a disconnection; it is what leaves an item pending with an error.

In `content_steps`, two requests race in each part: `MaxReportVersion` bounds the writes of
a report by one request at a time, `MaxRacedVersion` those by two; `MaxObjects`,
`MaxFrozen`, `MaxLogos`, `MaxUploads` and `MaxDefinitions` leave room for one replacement of
everything stored. `TemplateServer` has one member and `Driver` is the local disk: with
two requests on templates, and with the S3 driver, properties of this run do not hold
(weak points). Two tabs, two
calls and two tenants are what sharing a rotation and changing tenants need.

In the wizard, a row is in conflict with at most two others: the one that has its
role, and the one that the default marker goes to. Three tokens are a marker, a field of
one role and a field that may take either; header roles differ only in name, so one stands
for all. The theorems are for any number of both.

In `cache_pull`, two versions of each row tell old from new; overlapping pulls are
explored with one (`MaxOverlapVersion`), since an overlap needs only a row that
comes or goes.

In `portal_work`, every screen has two operations (the report's screen one, at each
role and status, and two for the inspector at work), because a queued change matters to
the one after it, and one lost request, reload or disconnection (`MaxFaults`, `MaxLost`).
One pull and one change by others is what makes a cached row stale. `MaxUpsets`
bounds faults, pulls and changes by others together, where their product is too
large: one for reviews, two for serials, which is a lost answer with what
happens before it is sent again. `MaxEvents` does this for the drawer: five inputs, moves,
losses and turns read-only together. Two serials are what moving between them needs.
A scene starts at every state the screen can be opened in (`ScreenStarts`), `ADMIN`
standing for `SUPERVISOR` too, whose choices are the same.

Fairness. `QueuedIsDecided` assumes that the event loop goes on with a drain and
with a run whose await has ended (`ProcessQueue`, `ProbeServer`, `EndRun`: a promise
that settles is continued), that a device comes online again, and that a user
who can press the synchronise button eventually does. Nothing is assumed of the timer:
a run refused by the cooldown is not scheduled again by the code, so automatic runs
alone decide nothing. Faults are bounded, so answers are not lost forever. `CacheConverges` assumes that a
pull or an edit that was started goes on (`PullStep`, `EditStep`: the same promises), that the
timer and the signals call `hydrateAll` again and the outbox is drained (`HydrateAll`,
`DispatchEdit`), and that a device comes online again. Its premise `<>[]OnePullRuns` is
needed: pulls that keep overlapping can keep putting older answers over newer ones.

The four violated properties are statements of the documentation or of comments that
the code does not keep; `PROJECT.json` quotes each with the line of the code.

- `missed_autoapproval`: two approvals of the last two batches count before either
  commits, and neither approves the report. `sequential` shows the same property
  holding when requests do not overlap.
- `offline_review`: two changes to a report's review made offline carry the same
  cached version of the report; delivering the first advances it, so the second
  is refused and ends in conflict, with nobody else at work.
- `rework_sync`: a rework sync that waits in the queue keeps the next save from
  queueing another, and goes out before that save, so the second serial is not
  folded into the child report.
- `concurrent_definitions`: the transaction that replaces a template's definition reads the
  definition it is about to preserve, and the last number of a revision, without locking
  the row. The second of two requests preserves what was there before the first, and the
  definition of the first is gone.

`KeepsDelivery` says less than one would like, and what it leaves out is what the
code does: `DeliveryQueue` has an action `Restore`, because a drain that read an item
before it was cleared puts it back. For the same reason `PendingCountIsExact` allows the
count to be off until the answer is recorded.

### Weak points

What a careful reader would expect and the model shows not to hold. The first seven are
formulas of their modules that TLC refutes, at the instance named where another one
holds; the others follow from an action as the code has it, and the properties above
are worded to leave them out.

- `CreatePrecedesDependents` (`OutboxSync`): the edit of a serial names no report, so it is
  sent under its temporary id while the creation of the serial waits for a retry
  (`docs/adr/0006-offline-sync-core.md:27-28`).
- `DraftAlwaysKept` (`SerialDrawer`): a draft typed while a save is under way can be lost when
  the list is renewed, and one whose save fails when the drawer closes. `DraftKept` names
  these cases in `excused`.
- `NoTemporaryReference` (`AdminSync`): a user made offline for a customer made offline is
  sent with the customer's temporary id, which the remap of a customer does not
  look for in users; the request fails and stays pending.
- `RefreshResolves` (`AdminSync`): a customer in conflict stays so, because a pull does not
  replace such a row, though `admin-customers.component.ts` asks the user to refresh.
- `TriggerIsRecorded` (`TemplateWizard`): the rework rule keeps its trigger field by name. The
  default marker can land on that field, and the author can go back and claim it for the
  header or exclude it; nothing resets the rule, and the server checks only its form. A
  stored rule with such a field never fires.
- `UsableWorkbookStored`, `SupervisorKeepsForm` (`Templates`) with two
  members in `TemplateServer`: a deletion under way drops the workbook of the version that
  has taken its number; a definition begun on a rejected version takes it back to
  PENDING_APPROVAL after it was approved.
- `AttachmentFound` (`CustomerFiles`) with `Driver = "s3"`: the location of an attachment
  in the bucket is computed from the report's customer, so the attachments of a report
  are no longer found once its customer is deleted.
- In the wizard the default marker is put on the first included row while an excluded
  row keeps its own; included again, the form has two markers, which only the check on
  saving stops.
- Batch requests write the report's version without a guard, so one that read
  version *n* can put *n+1* back after it was passed; a transition that read *n+1*
  then commits over a status it never judged (`lifecycle` leaves batch requests out).
- A submission does not change a serial's version, so an edit read before it still
  commits after it; an approved report on hold can be edited; a closed report whose
  last batch is approved becomes APPROVED without a reopen or a revision.
- A report's header is merged with what its screen last showed: of two saves, the second
  puts the fields of the first back. `EditOverSeen` is claimed for customers only.
- A review through an older batch takes the serials that a newer batch submitted, and leaves
  them pending in the newer one; a serial pending in two batches is thus possible, though
  not without a third that reviewed it (`ResubmittedAfterReview`). It takes three batches.
- Transitions of a child report carry no version. When those queued offline have moved the
  cached row from DRAFT to APPROVED and the user, connected again, reopens it before they are
  delivered, the request goes out directly, and the server, still in DRAFT, takes it for the
  start of the inspection. `TransitionOnOfferedStatus` allows this, from no status but DRAFT and
  only for a row that had changed or was not synced when the user confirmed. It takes four
  operations on one child report.
- The release of a hold goes to DRAFT when the device has no log of the hold
  (`OfferedIsAccepted` leaves releases out); a report published offline and then moved
  online is published on the server after its move.
- A deleted serial comes back when the answer of its own edit, or a pull read before, is
  cached over its deletion; an edit under way can bring back the temporary row of a
  serial, beside the server's.
- A lost answer to a BULK_CREATE is answered 409 ever after; a SN_DELETE of a serial that was
  folded into a child report is answered 500 and stays pending.
- An edit saved between a pull's read of its row and its write is overwritten
  (`PullKeepsSeenWork` speaks of rows that were seen).

## What is proved

`InspectionReportsProofs` proves, for every set of serials, handlers, child reports
and dispositions and every bound satisfying `ConstantsAssumption`:

- `TypeCorrect`: `Spec => []TypeOK`.
- `NoSerialStranded`: a submitted serial is always a member of a batch that is
  still open.
- `ApprovalIsOnRecord`: while no child report was deleted, an approved serial has a
  batch of its scope recording the approval.

All three follow from `ReviewInvariant`, which is inductive. `NoStrandedSerial` alone is
not: a review decides to close its batch (`closes`) before it commits, and in
between another handler may submit a serial of that batch. The invariant says
that the batch holding a submitted row is not about to be closed by a review that
leaves the row submitted (`SubmittedHeldOpen`), which holds because whoever has
decided to close has locked every submitted member (`LocksOK`) and a serial is
submitted only in a new batch. `ApprovedHasRecord` adds that no review is about to
overwrite an approved row's record without holding the row, from
`MembershipLocked` (two reviews that have written share no membership row) and
`ScopesAgree`. The step `Next` is split into one lemma per operation; lemmas about
requests that only begin (`TakeRequest`) or only end (`FinishKeeps`) carry most cases.

`PortalCacheProofs`, of `CachePull`, for every set of rows and pulls satisfying `CachePullAssumption`:

- `CacheTypeCorrect`: `CachePullSpec => []CacheTypeOK`.
- `SeenWorkIsKept`: `CachePullSpec => PullKeepsSeenWork`. A pull reads a copy in one
  transaction and deletes or writes it in another, so the step that destroys a copy says
  nothing about it; the invariant `SeenClean` says that whatever a pull is about to
  delete or put back was clean when the pull read it.

`PortalCacheProofs`, of `PortalSession`, for every set of tabs, calls and tenants satisfying `PortalSessionAssumption`:

- `CacheIsOfTenant`: `PortalSessionSpec => []CacheOfTenant`. An open that was started for
  an earlier tenant may still arrive and set `instance`; the property survives because
  `getDb` takes the promise first, and `ProfileIsOpened` says the promise is always that
  of the tenant asked for last, or that a tab which shows a profile without having
  opened anything has no instance and no open under way.
- `OwnRotationIsKept`: `PortalSessionSpec => OwnRotationKeepsSession`. `RotationInvariant`
  follows each pair: it is stored only while it is unspent, that is, not stored,
  presented or replaced before (`NextIsUnspent`); it is presented by a flight only while
  stored; a tab has one flight, for which all its waiting calls wait (`FlightOfTab`). So
  once a tab has stored a pair's successor, the pair is never stored again and no flight
  of the tab presents it (`ReplacedForGood`). That fresh pairs are fresh rests on
  `IssuedInOrder`: the pairs issued are `1 .. Cardinality(Issued)`.

`InspectionReportsProofs` also proves the action properties of the reports. A step writes what a
request decided earlier, so each needs an invariant about what is still true of the
request when it writes, and which invariant there is depends on who else runs:

- With any requests at once, `EditsSeeRows`: an edit whose row is still at the version it
  read judged a row that was not under review, and every serial named by a review has
  been inspected. `StaleEditIsHarmless` follows: an edit that was read before a
  submission can commit, but does not take the serial out of review.
  `CompletedChildIsApproved` needs that a review of a child report locks the child's row.
- Without batch requests (`NoReviews`, the instance of `lifecycle`), `WritesAreGuarded`: a
  request at the report's version judged the report's status. `TransitionIsJudged` and
  `ReopenIsFrozen` follow. With batch requests both are false, because those write the report
  unguarded (weak points).
- With one handler (`OneAtATime`, the instance of `sequential`), `ReadsAreCurrent`: what a
  request was judged on still holds, and what it counted is the count.
  `LoneApprovalIsNoticed`, `LoneApprovalIsComplete`, `LoneEntryPassesGate`,
  `LoneEditsSpareReview` and `LoneSubmitMovesChild` follow; `missed_autoapproval` shows that
  the first is false with two.

`OutboxSyncProofs`, for every set of reports and serials and every number
of runs, items and faults (`BoundsAssumption`: the bounds are naturals; `NoIdAssumption`: the
absence of an id is no id):

- `DrainIsSound`: `Spec => []DrainInvariant`. A user may queue, edit or clear between
  any two steps of a drain, and the drain writes back an item as it was read. So the
  invariant relates the two: the item at hand was pending when read and is at most
  cleared since, an answer "ok" means the server made the change, what is still to be
  taken comes later, and whenever entities are skipped some item in trouble accounts
  for it. Without the last conjunct an item could be held back for no reason.
- `CountIsExact`: `pendingCount` is the number of pending items, from the invariant and
  lemmas on how one write changes that number.
- `OutboxKeepsDelivery`: `KeepsDelivery`, the refinement of `DeliveryQueue` under the mapping of
  each item to its fate and its mark. One lemma per action names the abstract action it
  is, or that it is none.
- `OrderIsKept` and `OutboxIsFifo`: `DispatchInOrder`. A failed item goes back to pending
  behind the drain, and a remap changes the entity of items and of what is skipped in
  several steps. `OrderInvariant` says that whatever the drain has passed by and left
  pending belongs to an entity it skips, under the id it has now; and, because a remap
  could bring together two entities, that nothing older than the change that makes a
  temporary id names it.

`ReportSignaturesProofs`, for every set of accounts, handlers and fields and every layout
satisfying `SignatureAssumption` (the fields are finite in number, and a role's slot is no
field's: `signature-slots.ts` gives the fields' slots a prefix):

- `PicturesAreKept`: `SignaturesSpec => []FrozenPictureKept`. A clean-up counts the pointers to a
  picture and drops it later; in between, a request may be about to make one.
  `PictureInvariant` follows a picture from its key on: drawn once, stored before it is
  pointed at, and for a field a customer signed in no one's hands but the request's that
  drew it; while requests are served one at a time, no job but the last has anything to drop.
- `SignedFieldIsFinal`: a signing about to insert still finds the field unsigned
  (`UnsignedYet`), so what is current stays current.
- `ApprovalsAreSigned`: the transaction that approves holds the report's lock from its
  first write on (`OneWriter`), so the pointers it froze are the newest ones of the
  revision it commits (`ApprovalJob`).

`CustomerFilesProofs`, for every set of customers, attachments and handlers and every
bound satisfying `CustomerFilesAssumption` (the absence of a customer is no customer):

- `LogosAreAccountedFor`: `CustomerFilesSpec => []LostRaceLeavesNoLogo`. The property speaks
  of moments when no request is under way; the invariant (`Accounted`) says of every other
  moment who will point at an object or delete it. The request that won holds the
  old object, which is the one it read because every change of a row's logo changes its
  version (`LogoJudged`); the one that lost holds the object it has put. With the
  unguarded write (`UnguardedRow`) a winner drops the wrong object.
- `AnsweredFilesAreFound`: with `Driver = "local"`, `CustomerFilesSpec => []AttachmentFound`.
  `UploadInvariant` follows each upload by its stage: what its row is, that its object is in
  place from the link on unless the row was deleted, that no other upload has its file, and
  that only an upload that is not answered is undone. The driver is a hypothesis
  because on S3 the property is false (weak points).

`TemplateProofs`, of the templates, for every number of handlers, versions, definitions and
reports, under `OneTemplateRequest` (`TemplateServer` has at most one member, as in
`content_steps`: with two, all three are false; crashes may still end a request anywhere):

- `UsableFormsHaveWorkbooks`: `TemplatesSpec => []UsableWorkbookStored`. By
  `TemplatesInvariant` a version's workbook is its row's own or none, unless the deletion of
  the row is about to drop it, and what has a definition has a workbook (`WorkbookOf`). A
  request in progress still finds what it read (`JobFresh`). Versions are numbered past the
  greatest one, so a number drawn is not in use (`NumberIsNew`, from `MaxIsGreatest`).
- `FormStaysInService`: `TemplatesSpec => SupervisorKeepsForm`. An approved version stays approved
  when it is defined, because the approval written back is the one the row still has.
- `LoneDefinitionsKeepHistory`: `TemplatesSpec => DefinitionHistoryKept`, the property
  `concurrent_definitions` refutes for two requests: the prior definition a request has read is
  still the row's when it commits.

Of the wizard, for every number of tokens and every set of header roles satisfying
`WizardAssumption` (the marker and the absence of a role are not header roles):

- `RowsStaySound`: `WizardInvariant`, that a role is on at most one row, of its own scope, and that
  a signature is on a header row without a role, after every control in any order.
- `SavedFormsPassTheGate`: what may be saved passes the server's checks of roles and
  signatures; the invariant is what `canSave` does not itself check.

`PortalScreensProofs`, with `PortalReportProofs`, of the five screens as `portal_work` composes
them, for every list of serials, every set of fields and every bound (`PortalAssumption`: the
serials are numbered from 1, `MaxBatches` is a natural). One screen is open at a time, so
`PortalInvariant` has an invariant for each, and every property of `portal_work` is proved. All
the proofs meet the same difficulty: an operation, a delivery and a pull each read rows, wait,
and write back what they read. The invariants therefore speak of every copy under way, not
only of what is stored.

Of the drawer (`SerialDrawer`):

- `DraftsAreKept`: `PortalSpec => []DraftKept`. The property has four places for what was typed,
  and a step may take it out of one only once it is in another, while answers of older calls
  arrive. `DraftIs` follows the draft of a serial that is not excused as one content: what is
  typed, in every call for the serial, in the form while it is open, and the latest stored
  unless the form is pending or a call is under way. Two conjuncts are about what the
  form knows: an open form whose drafts are not excused was opened when no call was under way,
  so that all calls are its own (`OnlyFrom`), and with no call under way what it believes
  saved is the latest stored. Without the second, the form could forget a draft because it equals
  what it saved last while something else is stored.
- `DraftsStayApart`: `PortalSpec => []DraftForItsSerial`, because every copy - of rows read for a
  refresh, of an answer, of a call, of the form's seed - is labelled with its serial
  (`DrawerSound`).
- `AutosavesFollowOneAnother`: `PortalSpec => []AutosavesReadNewVersions`: a call that has
  begun has no autosave before it, also after calls before it have been removed (`CallsSound`).

Of the reviews (`OfflineReview`):

- `ResubmissionFollowsReview`: `PortalSpec => []ResubmittedAfterReview`, about the server, whoever
  asks (`ServerSound`): batches are numbered without gaps, and a serial that is pending in a
  batch but no longer submitted was reviewed through another batch. So a second submission of
  it comes after that review.
- `VerdictsReachTheirBatch`: `PortalSpec => []VerdictForItsBatch`. A batch made offline has a
  temporary id until its submission is delivered, and the remap reaches only the reviews that
  are queued then. Every cached batch (`BatchesKnown`), the review under way (`ActKnows`), each
  queued review (`QueueKnows`) and the answer being stored (`AnswerKnown`) know the members by
  the batch of the server or by the submission that made the temporary id, of which there is
  at most one; `ReviewsReach` says which reviews the remap may still miss.

Of the administration (`AdminSync`):

- `DeletionsStayDecided`: `PortalSpec => []DeletionIsDecided`. The row goes after its request was
  queued, so the step before it already knows the deletion decided (`AdminDecided`).
- `EditsFollowWhatWasShown`: `PortalSpec => EditOverSeen`. A version stands for what was read with
  it: `VersionSeen` says of the cached row, the form, each request, each answer and the pull's
  copy that none is ahead of the server, and one at the server's version has its contents.

Of the report's screen (`ReportScreen`):

- `OffersAgree`: `PortalSpec => []OfferedIsAccepted`: the policy of the portal and the matrices of
  the server, for every status and role. What the server knows of a hold is what its log says
  (`ScreenServer`).
- `TransitionsFollowOffers`: `PortalSpec => TransitionOnOfferedStatus`. A synced copy of a row at
  the server's version has the server's status (`RowFaithful`), and so has the status a
  transition was chosen in (`MoveFaithful`), from selection through queue and remap to the
  request. A child report has no version to compare. There a move that is offered names, with
  or without its reason, the one status it is offered in (`IsOffered`); the server takes it in
  that status or in DRAFT, to which a child report never returns, so that what was chosen
  over a faithful row was chosen in DRAFT too. `ScreenPlan` says in which order the steps of an
  operation come, since which copies still matter depends on what is left to do.

Of the list of serials (`SerialList`):

- `DeletedSerialsAreDecided`: `PortalSpec => []DeletedSerialIsDecided`. A deletion queued under
  a temporary id would be refused as unknown. `ListAwaits` says that it waits behind the
  addition of its serial, which will give it the real id when delivered (`ListRunning` keeps
  the run in order) or, refused, holds it back; it is sent only under a real id, where a
  refusal leaves it to see.

Of all but the drawer:

- `UnsyncedRowsAwaitDelivery`: `PortalSpec => []UnsyncedRowIsOwed`. Each module names what a row
  is owed to (`RowsOwed`, `AdminOwed`, `ScreenOwed`, `ListOwed`), which has to speak of the
  moments between writing a row and queueing its request, and of those at which a delivery has
  its answer and has not yet put the row. Of reviews it needs `NamedSeen`, that a review names
  only serials of the batch its reviewer saw, under either id of the batch. In `ReportScreen` a
  publication queues its request before writing its row: by the time the row is written the
  request may have been answered, but then the row is no longer what the publication read, and
  the write is excused (`Published`, `Overtaken`).

Model-checked only:

- `QueuedIsDecided` and `CacheConverges`: liveness under fairness is beyond the prover, as is
  ENABLED.
- What the violation runs refute.

## Plan

1. The screens' run as a refinement of the drain of `OutboxSync`: both have the order, the
   skipped entities and the remap, and only the first has versions.
2. The cooldown's clock, to state when automatic runs suffice; the cascade after a
   network failure (the documentation names only a 409).
3. Signing on the screen of a report, and the pending signatures it shows.
4. An abstract optimistic register (`read`, `compare and write`) that the guarded
   operations implement and the batch operations do not.

## Not modelled

Metrics, health and deployment keep no state of the program. Of exports, templates and
the gate, what transforms data is left out: filling a workbook, reading its tokens,
validating a definition, walking its paths. Views that only show what is stored have
no state that a property reads; creating a report on its form reaches the core as an item
of the outbox. `PROJECT.json` gives the reason for each component, and what is left
out of one that is modelled in part.
