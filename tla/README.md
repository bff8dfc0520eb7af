# Recruitment backend: TLA+ models, checks and proofs

The repository is a recruitment system (ATS): a Django backend of some 2,000
Python files under `src/apps/django/apps/` and a web front end. This directory
holds TLA+ modules of its core, the TLC runs that check them on small instances
and the theorems TLAPS proves about them for every instance. Paths below are
relative to `src/apps/django/apps/` unless they begin with `src/`.

## 1. Inventory

The backend has one process model: HTTP requests and Celery tasks, any number at
once, that meet only in one MySQL (or PostgreSQL) database (READ COMMITTED, no
`ATOMIC_REQUESTS`). A service call is one transaction (`@transaction.atomic`).
A view loads its instance with `get_object()` *before* that transaction, without
a lock, and most services save every column of that instance. That is the main
source of hard behaviour: handlers that work from what they read earlier. Some
handlers (background checks, the clean-up of invitations, the deletion of a
process) have no transaction at all: there a dead worker leaves half of the work
done. The only party outside the database whose messages matter is the supplier of
background checks, whose callbacks come late, repeated and out of order.

| Component | State | Operations | Meets | Hard behaviour |
|---|---|---|---|---|
| applications (`application/`) | application rows, stage records, history | create, start, advance, jump, soft reject, withdraw, pause, resume, upgrade, change process, timeout | candidate, process, pool, automation | stale instances, cascades, partial failure of a call |
| grab pool (`application/services/grab.py`) | `grabbed_by`, handlers, current record | grab, release, reassign overdue | applications | claims against full saves of others; round robin that never rotates |
| stage mapping (`application/services/stage_mapping.py`) | none | land an upgraded application | process versions | equal orders, empty targets |
| processes (`process/`) | process rows, versions, links, skip/archive rules | create, clone, copy, archive, publish | applications, demands | version numbers, single latest row, archive against creation |
| candidate (`candidate/`) | `current_state`, tags | eight transitions, create, import, merge | applications, pool, offers | two state machines coupled |
| candidate history (`candidate/models.py`, `gdpr/purge.py`) | hash-chained rows | append, purge, merge, verify | everything that changes a candidate | a lock that orders but does not refresh; rows that change hands |
| lock engine (`candidate/lock_engine.py`, `lock.py`, `operation_guard.py`) | formal and temporary locker | decide on assignment and pooling, grant, guard, filter | positions, applications, approvals, pool | one rule in two forms, stale lockers, expiry |
| resume flow (`resume_flow/`) | approvals of a resume | start, approve, reject, edit | the guard of the lock engine | two approvals at once |
| talent pool (`talent_pool/`) | pool entries | add, deactivate, move in and out, eliminated pool | candidate, soft rejection | several active entries of one candidate |
| automation (`automation/`) | rules, logs | trigger, evaluate, act, breaker | applications | rolled-back actions, breaker that stays open |
| entry conditions, rule engine, time limits | rules | evaluate | applications | pure |
| offers (`offer/`), onboarding | offers, onboarding rows | draft, approve, send, accept, reject, withdraw, complete | applications, quotas | quota check before the write; states with no way on |
| headcount control (`campus_control/`) | rules, counts | validate each write | offers, applications | check then act |
| demands (`demand/`), positions (`position/`) | demand, approvals, headcount | submit, approve, reject, start, complete, rebind | applications | double submit, rebind against creation, lost counts |
| invitations, interviews | invitation, interview | invite, answer, grab, time out; schedule, complete | applications | answer against the hourly clean-up |
| GDPR (`gdpr/`) | request, artefact, attempts | request, verify, export, forget, purge | candidate | row locks asked for outside transactions, which Django refuses |
| integration (`integration/`) | background-check orders and events | create, callback, cancel, retry | candidate | callbacks repeated, late, out of order |
| resume parsing and bulk creation (`add_candidate/`) | parse jobs | upload, parse, confirm; create or reuse candidates in bulk | candidates, applications, lock engine, pool | overlapping retries; applications made beside the service |
| campus training (`campus_*`) | arrangements, approvals, plans | request change, approve, assess | - | approve against reject |
| audit, notification | logs, messages | append, send | all | best effort |
| permissions, reference data, search, analytics, front end | - | - | - | no protocol of their own |

What makes each correct, for the components the plan covers:

- **applications**: terminal states are final; the service makes one live
  application of a candidate per position; process, frozen version and current stage
  agree; only the current stage is open, a live application that stands at a stage has
  a record to work on and an ended one has nothing open; a verdict given is kept; an offer is made after
  the last stage; application and candidate move together where they are coupled.
- **grab pool**: a claim is never taken over without a release.
- **processes**: one latest row per line, unique version numbers, no application
  bound to an archived version by a race.
- **candidate history**: every history that was not tampered with verifies, no
  number is missing. **talent pool**: entry and candidate state agree.
- **lock engine**: a formal locker is entitled to it, the guard and the filter
  decide alike, no resume is left that nobody may operate.
- **background checks**: an order begins once, its events show every status it
  took, a report answered with success is applied, the supplier comes to rest.
- **invitations**: a row is always one the transitions lead to, and an overdue
  invitation is closed in the end.
- **offers, demands**: quotas hold, one approval chain per demand, counts match.

`PROJECT.json` lists every component with its status, and every hazard at its
line, with the property that covers it or the module of the plan that will.

## 2. Plan

1. `ProcessCatalogue`, `RecruitmentStates`, `ApplicationLifecycle`,
   `ApplicationPromise` / `ApplicationRefinement`: the service, request by
   request, with proofs. *Done.*
2. `ApplicationRequests`: the same handlers when requests overlap, with proofs.
   `ApplicationClaims`: what comments say and the code does not do. *Done.*
3. `ProcessVersioning`: clone, copy, create, archive, delete and edit of process
   versions under the unique constraints, with proofs, and `VersionLines`, which
   they implement. *Done.* Left for step 8: its composition with demands (a check
   for references, then a deletion).
4. `BackgroundCheck`: orders and the supplier's callbacks, with failing writes and
   dead workers, liveness under the supplier's retries, proofs, and `OrderLedger`,
   which they implement. *Done.*
5. `Invitations`: requests against the hourly clean-up, with liveness and proofs.
   *Done.*
6. `ResumeLocks`: lock engine, guard and filter, approvals in flight, with proofs.
   *Done.*
7. `CandidateHistory`: appends, purges and merges of the hash chain, with proofs.
   *Done.*
8. `TalentPool` (several active entries, sub-pools), the rotation approval, and the
   composition of process versions with the demands that refer to them. *Left.*

A study of the code took some steps of the first plan away: the services of
offers, onboarding, demands and positions are called by no view (the endpoints move
and save a loaded instance), and the GDPR services lock rows outside a transaction,
which Django refuses before they do anything. Section 7 says more.

Bounds for all: two actors of each kind, the smallest catalogue that has the
case, one or two objects.

## 3. Modules

| Module | What it models |
|---|---|
| `RecruitmentStates` | the state tables: `@transition` declarations of `application/models.py` and `candidate/models.py` as records `[from, to]`, and the state sets the services test |
| `ProcessCatalogue` | processes, versions and stage links as constants; the next required link, the skip cascade's paths, the landing of an upgrade, the targets the upgrade accepts |
| `ApplicationLifecycle` | one action per handler of `application/services/`, the grab service, bulk creation and the candidate's transition endpoint, and the safety properties |
| `ApplicationPromise` | abstract: the two state machines, how `start` and `withdraw` couple them, and the applications imported `ACTIVE` |
| `ApplicationRefinement` | the mapping under which the lifecycle implements the promise |
| `ApplicationRequests` | handlers on instances loaded earlier: `Load`, then `Commit` or `Refuse`; creation as check, then insert; full saves of candidates loaded earlier |
| `ApplicationClaims` | what the comments of `advance` say of a refused entry condition, which a run refutes |
| `ProcessVersioning` | process lines: numbering, the latest mark, archiving and deletion of versions under overlapping requests; with `EditSpec`, edits that save a row loaded earlier |
| `VersionLines` | abstract: versions added one on top of the other, and the latest mark, taken once and never got back |
| `BackgroundCheck` | orders of background checks: callbacks at least once and out of order, creation, uploads, cancelling and deletion, one action per write |
| `OrderLedger` | abstract: an order and what is told of it, written ahead of it, begun once, removed with it |
| `Invitations` | the endpoints of invitations as load and save, and the clean-up task step by step |
| `ResumeLocks` | the decision and the writes of the lock engine, the operation guard and its filter, approvals, and the requests that load a candidate and write it later |
| `CandidateHistory` | the hash chain of a candidate: overlapping appends and purges, merges |
| `MC...` | values of the constants for TLC |
| `...Proofs` | theorems and lemmas (`ApplicationLifecycle`, its records, `ApplicationRequests`, `ProcessVersioning`, and the four modules above) |

**State.** `row` is the applications table (state, process, version string as
the process it came from, current link or none, claim, whether it was ever advanced,
and the prefix of its code: who made it). `rec` is the newest stage record
of each link, which is what the handlers look up (`order_by('-entered_at')
.first()`); `stray` marks links with an *older* record still open, since
`withdraw` and `jump` update records in bulk. `cand` is the candidate's state,
`soft` the soft-rejection history per stage, up to the threshold.

**Two ways into the table.** `Create` is `create_application`: `PENDING`, at the first
link, with a record, unless a duplicate is unfinished. `BulkCreate` is the position
direction of `POST /candidates/bulk-create/` (`add_candidate/services/bulk_create.py:217`):
`ACTIVE` at once, with no current link, no stage record and no duplicate check, for a
candidate it has just made `APPLIED` or found again, whose state it leaves alone. Its
code, `APP-<candidate>-<draft>` cut to 20 characters under a unique column, is the same
for every draft of a candidate, so a candidate gets one such application and the second
request fails. A jump, a change of process or an upgrade may give it a link; until then
advance and soft rejection refuse it. `StartedMeansEntered`, `OneLivePerPosition` and
`LiveHasRecord` say where such an application differs, and claim nothing else of it.

**Instances.** Each handler is an operator of an instance `x` = (row, candidate
state) that a view loaded. `ApplicationLifecycle!Next` passes the current row,
`View(a)`: requests one at a time. `ApplicationRequests` passes a held one, and adds
`SaveCandidate`: an edit, the blacklist or a merge writes the candidate's loaded state
back. So both modules share every handler, and the request lemmas are proved once, for
arbitrary instances.

**Cascades.** Entering a stage evaluates its skip and archive rules and may move
on (`_apply_auto_skip_and_advance`). The loop is one step: a set of links it
runs through, its last link, and how it ends. The verdict of a rule is left open.

**Process lines.** In `ProcessVersioning` `row` is the table of processes, all
versions of all lines, deleted rows included. `held` is what a worker has in hand:
the row it will insert under the number it computed, or the instance it loaded and
will delete or save. A clone is two steps, `CloneVersion` (load and compute the
number) and `InsertRow` (insert, demote the others, become the latest), because
another transaction may commit between the query and the insert; the rest of the
transaction is invisible to others and one step. A deletion is the two writes the
code makes without a transaction, and may die between them. An edit writes back
all columns it loaded: if nothing overtakes it, it changes nothing modelled here,
so `Spec` leaves edits out and `EditSpec` has them in full. Of the unique
constraints, the one on numbers is a guard of `InsertRow`, the one on the latest
mark a guard of `SaveEdit`; for a clone it never bites (`LatestIsNewest`).
The names of versions follow their numbers (`V2.0`) and are left out. `VersionLines`
sees a row as its line and number, deleted or not (`numbered`), and the rows with
`is_latest` (`marked`); archiving and the steps of a request before its write are
stutters of it.

**Background checks.** No transaction spans a handler of `integration/views.py`, so
each of its writes is an action, and `held` says where a handler stands: a callback
is checked against the sync log, audited, gets or creates the order, records the
event, saves the status; creating, uploading and cancelling are cut the same way.
A `Notice` is one report of the supplier: its place among the order's reports (`nth`)
and its status. The supplier may come back to a status it has left (`IN_PROGRESS`,
`STAGE_REPORT`, `IN_PROGRESS`: `integration/models.py:168`), but the code's idempotency
key is number, status and completion time (`SameKey`), so the later report is answered
as a duplicate of the earlier one and never applied. `applied` is a history variable:
the reports an order was brought to, or found at.
`BreakOff` lets a write fail or a worker die at any of these points. `supplier`,
`sent` and `acked` are the other side (external): the status at the supplier, what it
sent, what was answered with success. The sync log is the set of callbacks it shows,
because the code asks it nothing else. `lost` is a history variable too: the reports
that were refused as late, or whose handling failed or died. `OrderLedger` sees the
status of each row (`statusOf`) and what its events say, each as a beginning or not
(`toldOf`); supplier, log and handlers are hidden.

**Invitations.** `held` is the image a request loaded outside any transaction;
`Commit` applies a declared transition, a grab or an edit to it and saves every
column. The clean-up is `List`, then `TakeUp` and `Close` per invitation; `Abort` is
the exception its loop does not catch, `Die` a dead worker.

**Locks.** `upload` and `cand` are the columns of a candidate the locks read: what
its creation set for good (creator, referrer), and the lockers and recruiter that later
requests write. `held` is a request between loading a candidate and writing it: an
assignment, an upload and the pool decide from the locker they loaded, an edit or a
transition saves the whole image, temporary lock and its end included. An upload makes
a candidate (`UploadResume`: a creator, no referrer, so no temporary lock) or finds one
(`UploadAgain`: a temporary lock if somebody else referred it, then pending, assigned
or pooled, in one transaction). `now` counts periods of 72 hours.
`is_operable` is the guard of one candidate, `operable_q` the filter of a list, each
translated from its own code. `entitled` is a history variable.

**History.** `table` is the rows of all candidates in the order of insertion, `held`
an append or a purge that has seen the newest row (a purge: all rows) and not yet
written. The lock on the newest row makes the later of two appends wait, but not read
again; so an append goes on from the row it saw or from the newest, whichever its
scan comes across. A hash is a constant operator: the theorems hold for all of them,
TLC takes the tuple of what is hashed. `overlapped` and `moved` are history variables
that say which histories two transactions worked on at once and which were merged.

**What is abstracted.** Deadlines, durations, names, reasons and the audit rows
other than soft rejections are left out, and so are the pool entries handlers make,
which no handler of the service asks for. How long an application has been idle
is open, so the archive task may take any active or paused application. The
365-day window of soft rejections is ignored: they are counted for ever. A soft
count stops at the threshold. Entry conditions are a choice: passed, or refused
(no change: section 6). State-changing automation actions always end in an
exception inside their own transaction and so do nothing. The catalogue does not
change while applications move; `ProcessVersioning` models how it changes.

## 4. Runs

| Run | Instance | Shows |
|---|---|---|
| `application_line` | 1 application, made either way, 3 stages (one optional, schedulable), 2 users of whom one is super admin, threshold 3; 276,167 states | records, current stage, state, claim and end of an application agree in every order of requests |
| `applications` | 3 applications of one candidate for one position, made by the service or in bulk, one stage, threshold 3; 167,795 states up to renaming of applications | two unfinished ones only if one was made in bulk, joint withdrawal, the threshold over all, and the refinement |
| `requests_safe` | one worker holding an instance while any number of other requests run, two versions of the same one stage; 864,783 states | what overlapping requests cannot break |
| `requests_final` | as above | what they can: section 6 |
| `claim_refused` | the smallest catalogue with the case | section 6 |
| `versioning` | four rows, two workers, one code callers may supply; 727,129 states up to renaming of rows and workers | numbers, latest mark and archiving of lines when clones, copies, creations and deletions overlap, and the refinement of `VersionLines` |
| `callbacks` | one order, two handlers, three reports (`IN_PROGRESS`; `STAGE_REPORT` or `COMPLETED`; `IN_PROGRESS` again), one cancellation or deletion, one breakdown; 299,840 states | an order begins once, its events are written ahead of it, only breakdowns and repeats of a status lose a report, the supplier comes to rest, and the refinement of `OrderLedger` |
| `callbacks_retry` | two reports, `IN_PROGRESS` and `COMPLETED`: no repeat of a status | section 6 |
| `invitations` | two invitations, two workers, three requests, one dying worker; 707,707 states | rows stay whole and overdue invitations are closed in the end |
| `resume_locks` | one candidate, one position, two users (one with a write scope), two requests, one referrer, one approval, one change, two periods of 72 hours; 1,945,194 states up to renaming of workers | lockers were entitled, guard and filter agree outside the known cases |
| `resume_expired` | the same | section 6 |
| `history` | two candidates, two transactions, five rows; 672,130 states up to renaming of transactions | a history nothing overlapped verifies, also after a purge; an overlapped one still hashes row by row; none lacks a number, merged ones included |

*Bounds.* An application has its own row and records; handlers of one
application read others only through the duplicate check, the unique code and the soft
counts; three applications exercise all of them, two made by the service and one in
bulk. Three stages give a first, a passed-over and a
last one, jumps back and forth and cascades of length three; `meet` is optional
and schedulable so that both kinds of entry occur. In `requests_safe` the
second actor is any sequence of requests that nobody overtakes, so one worker
is enough for an instance to be arbitrarily stale; the theorems cover any
number of workers. Its two versions share their one stage, so an upgrade lands by
stage; the landing by order is a matter of the theorems. `applications` leaves users
out (claims are covered by `application_line`) and has one stage, since stages are not
what it is about; `application_line` leaves the other applications out.
Every counter is bounded by the threshold. In `versioning` the number of rows
bounds lines and versions: four rows allow a line of four versions, a deleted one in
the middle, or two lines; two workers allow every pair of requests to overlap.

In `callbacks` one order suffices, since orders share nothing but the log, which is
asked by number; two handlers overlap in every pair of kinds, and one failure hits
every write. The three reports (`TakenBack`) are the shortest that come back to a status,
with a completed order overtaken by an older status as the other case; cancelling,
creating and uploading bring the statuses the code sets itself. `MaxFailures` bounds what
the network and the machines do (late deliveries, failed writes, dead workers),
`MaxRequests` cancellations and deletions. In
`invitations` two invitations let a run of the clean-up end at one and
leave the other; the clock passes both expiries; three requests are enough for two to
overlap and one to follow. In `resume_locks` two users are the least for a locker to be
replaced and for an uploader not to be the referrer; a changed position, a changed
recruiter or a decided approval is one of `MaxChanges`; `MaxTime` lets one lock expire
and a stale save bring an expired one back. Two approvals in flight are a known
difference the property excludes, so one approval is enough. In `history` five rows
allow two chains to be merged, purged and continued.

*Deadlock* is checked in the runs of requests, of versions and of histories: a request
can always begin or be refused, a transaction can always begin or roll back. It is off
in `application_line`, `applications` and `claim_refused`, which stop when every
application and its candidate have ended, and in `callbacks`, `invitations` and
`resume_locks`, where an instance whose bounded supply of callbacks, requests or changes
is used up really stops.

*Fairness.* `FairSpec` of `BackgroundCheck`: a handler that does not die goes on (weak
fairness: it is one thread running to its end), and the supplier sends a callback again
until it is answered with success (strong fairness: a delivery needs an idle handler).
The supplier's document,
`src/docs/03-product/统一背调供应商接口标准规范.md:323`, asks for the retries; its limit of
six is never reached, since the second delivery of an audited callback is answered at
once. `FairSpec` of `Invitations`: the scheduler starts the clean-up every hour
(`src/apps/django/config/settings/base.py:547`) and time passes; nothing is asked of
users, whose requests are bounded, so "closed in the end" means once they cease. No
fairness is assumed for applications, and no liveness stated: the repository schedules
none of the tasks that would end an idle application.

## 5. Proofs

All theorems hold for every set of applications, candidates, users, processes,
links, rows, orders, invitations, positions and workers that satisfies the named
assumptions of the modules. The assumptions are the types of the constants, the
unique constraint on (process, stage) and the uniqueness of the (created_at, id)
order; TLC evaluates them in each run.

- `ApplicationLifecycleProofs`. `TypeCorrect`, then per property one lemma per
  handler, stated for an arbitrary instance. Most later proofs need of a request
  only what it does to the application's state and the candidate's: `StageEntered`
  summarises the cascade, `RequestEffect` the handlers and `StepEffect` a whole
  step. From these follow `StageStaysInProcess`, `StartedHaveEntered`,
  `WithdrawnWithCandidate`, `OneLive`, `TerminalStaysFinal` and the refinement
  `ServiceKeepsPromise`. `OneLive` needs `[Next]_vars` only through `StepEffect`:
  no step makes an ended application unfinished again, the service inserts where there
  is no unfinished one, and bulk creation where there is no other of its own.
- `ApplicationRecordsProofs`. `WithdrawalCloses` and `ClaimsNotStolen` hold for
  any catalogue. `StaysInPlace` assumes `SingleProcess`: an upgrade or change of
  process moves the current link and creates no record, which breaks these
  properties (section 6). Its four invariants are not inductive one by one: an
  offer or a timeout closes only the current record, so "nothing open after the
  end" needs "open only at the current stage"; creation needs that a row not yet
  created has no record, and a jump of a row at no link that it has none.
  `AllInPlace` is their conjunction with these facts, and is inductive. `VerdictsKept` follows from it. `ThresholdLeadsToPool` is a
  property of one step.
- `ApplicationRequestsProofs`. The same lemmas on stale instances give what
  survives overlap, for any number of workers. The inductive invariant `RInv`
  adds `HeldSound`: a held instance is consistent in itself, which stays true because
  an instance is never changed while held. `StageInProcess`
  survives because a full save writes a consistent old row and an upgrade writes
  all its columns from its own target.

- `ProcessVersioningProofs`. `Numbering`, inductive under `EditNext`, adds to
  `VersionNumbers` what a request under way may rely on (`HeldSound`): all numbers
  below the one it computed are taken, and stay taken because rows are never
  removed. So a number that is not taken at the insert is the next one, and one
  computed too early is refused. `Orderly`, inductive under `Next`, uses this:
  an inserted clone is the newest version, every other one is demoted, and a row
  that is not the latest never becomes it again, so a deletion need not look at
  the row twice (`DemotedFirst`). The last point is what an overtaken edit breaks.
  `VersioningKeepsPromise` is the refinement: an insert is `First` or `Upgrade`
  (`InsertIsVersion`), the first write of a deletion `Retire` (`DemoteIsRetire`), and
  every other step changes neither numbers nor marks (`SameNumbersStutter`).

- `BackgroundCheckProofs`. Four invariants, three on top of the first. `Basis` (types;
  what is in hand was sent and audited; a loaded row exists as long as it is held)
  is what every other proof uses. `Written` says that the status a handler is about
  to save is in an event already, from which the action property
  `ChangeAlwaysRecorded` follows step by step. `Births` counts who may record the
  beginning of an order: an event without a predecessor, or one handler that
  inserted the row, never both. `Accounted` follows each report in the log
  to the order it was applied to, to the handler that has it, or into `lost`; an
  acknowledged report is in the log itself, or another of the same status is. Its hard
  case is a retry answered while the first delivery is still in hand. The lemmas `OneHandler`,
  `GoesOn` and `Finishes` say once what a step of one handler does to `held`.
  `OrdersKeepLedger` is the refinement, from the first three: `RowIsLedgers` (a written
  row appears, or takes a status that is told: `Written`), `EventIsLedgers` (an event
  tells, a first one only once: `Births`) and `RemovalIsLedgers`.
- `InvitationsProofs`. `Sound`: the rows, the images in hand and the image of the
  clean-up are whole. It is inductive because a whole image leads to a whole image
  (`RequestedWhole`) and only whole images are written.
- `ResumeLocksProofs`. `Entitlement`: the lockers in the table *and* those requests
  have loaded are among the entitled; the second part is what stale writes need. A
  temporary lock granted on the way changes no formal locker (`GrantedKeepsLocker`).
  `DecisionIsAuthority` covers every level of the decision. `GuardsAgree` is no matter
  of reachability: it follows from the types alone (`GuardsAgreeAlways`), case by case.
- `CandidateHistoryProofs`. `Chains`: the i-th row has at most the number i, a held
  row is of its candidate unless the candidate was merged, and the numbers of every
  history that is still one are gapless; a merge keeps that, since the union of two
  gapless runs from 1 is one (`MergedGapless`). A rehash changes neither numbers nor
  owners (`RehashRewrites`). A purge hashes a chain anew, so what it
  writes is defined by a recursive function over the rows it has seen. That the
  recursion has a solution, and so that each row gets the hash of its own columns and
  of the new hash before it, is proved by induction (`HashesExtend`, `NewHashesRecur`).
  The induction is in terms of sets: a set of natural numbers that is not empty has a
  least element (`LeastNatural`, from the well-foundedness of `<` in the library), so
  no first row can be wrong. `RowsHashStep` then gives `RowsAlwaysHashToTheirOwn` for
  every history no row was moved into or out of, overlapped or not: what it takes is
  that a transaction leaves the rows of other candidates alone (`OthersUntouched`).
  `SerialHistoryAlwaysVerifies` needs `Serial` besides: while a history is not
  overlapped, each row names the row before it (`InLine`), and the one transaction
  that works on it still sees its newest row (`Alone`).

*Only model-checked*: `SupplierSettles` and `OverdueAreClosed`, which are liveness
under fairness, out of the provers' reach. Every invariant and every action property
of a passing run, and the three refinements, are theorems. *Only refuted*: the
properties of section 6. `TerminalIsFinal` is proved for requests that do not overlap
and refuted for requests that do. `OneLivePerPosition`, `StartedMeansEntered`,
`WithdrawnTogether` and `ClaimNotStolen` are claimed only for requests that do not
overlap: under overlap two creations both insert, a stale save of the candidate brings
`APPLIED` or any other state back, and a stale save of the application undoes a claim; `LatestIsNewest`, `DeletedNotLatest`,
`ArchivedTogether` and the refinement of `VersionLines` only without edits that
something overtakes.

## 6. Where the code and its own words differ

Each of these runs ends in a counterexample; `PROJECT.json` quotes the lines.

| Run | Words | Code |
|---|---|---|
| `requests_final` | terminal states are terminal | a stale full save revives a withdrawn application |
| `claim_refused` | a failed entry condition rejects the application | record passed, candidate pooled and application rejected are all undone by the exception that follows |
| `callbacks_retry` | a callback that could not be applied is never answered with success | its retry is taken for a duplicate and answered with success |
| `resume_expired` | an expired temporary lock is taken back; no resume becomes data nobody can move | nothing takes it back, and it still counts as a lock |

The models show more of them, which no run states, since each follows from one or two
steps:

- *duplicates*: creation checks and inserts without a lock or constraint, so two of
  them make two unfinished applications (`Load` and `InsertApplication`;
  `application/services/__init__.py:153`);
- *bulk creation*: it asks for no duplicate, leaves the candidate `APPLIED` beside an
  `ACTIVE` application, and gives that neither stage nor record (`BulkCreate`;
  `add_candidate/services/bulk_create.py:233`); a second draft of a candidate for
  another position fails on the cut code (`:238`);
- *overtaken edits of a candidate*: they put the state back (`SaveCandidate`;
  `candidate/views.py:215`);
- *reports that come back to a status*: answered as a duplicate and never applied
  (`SameKey`; `integration/views.py:154` against `integration/models.py:168`);
- *frozen history*: after a change of process, a jump selects records by order over all
  processes (`JumpOver`; `:541` against `:943`);
- *mandatory stage*: one of equal order is never entered (`NextLinks`; `:339`);
- *upgrade to the same stage*: there is no record to advance from (`Repoint`; `:985`
  against `application/services/stage_mapping.py:30`);
- *next code*: computed over live processes, a deleted code is refused for ever
  (`NextCodes`; `process/services/versioning.py:267`);
- *latest mark*: an edit between the two writes of a deletion gives it back to the
  deleted row (`SaveEdit` in `EditSpec`; `process/models.py:273`);
- *uploaded reports*: their event needs a supplier they do not have, so the order is
  stored and its event refused (`MustFail`; `integration/services.py:538`);
- *clean-up of invitations*: its comment says one failure does not affect the others
  (`invitation/tasks.py:30`), but an invitation answered meanwhile ends the run (`Abort`);
- *history numbers*: the lock is said to serialise insertions (`candidate/models.py:506`),
  but who waited goes on from the row it saw, and one number is given twice
  (`AppendRow`); a merged history no longer verifies (`Merge`);
- *optimistic lock*: `candidate/lock.py:11` promises one; `lock_version` has no caller;
- *approvals*: `approve` checks neither the current node nor the approver (`SetApproval`).

## 7. Not modelled

Listed with reasons in `PROJECT.json`. Of the application component: the generic
PATCH/PUT of an application row (it accepts the current link, the frozen version and
the claim, checked against nothing, though not the state, whose field is protected),
soft deletion (except in `ResumeLocks`), the reminders, and exceptions raised by the
time-limit computation in the middle of a cascade. Of the process component: the
copying of stage links and rules into a new version, the references of demands (a
deletion may find one or not), codes that are not `W` and a number below 1000, and the
seeding command, which may give a row a new code. Of background checks: signatures,
payloads, risk levels, and the generic edit of an order. Of bulk creation: the parsing
before it, a batch of several drafts in one transaction, and the choice of the existing
candidate. A merge moves candidates' states only (`SaveCandidate`): what it does to
applications and files is left out. Of the locks: deleted or
disabled positions, an approval that is edited to belong to another candidate, and the
state gate of the guard, which is empty.

Whole components:

- *GDPR requests*. `gdpr/services.py:168`, `:239` and `:383` query rows for update
  outside a transaction. On the databases of the settings Django raises before the
  query, so nothing behind those lines happens; only the purge is modelled.
- *Offers, onboarding, demands*. Their services, with the quota and approval rules,
  are called by no view. The endpoints call a transition of a loaded instance and save
  it whole: the hazard `ApplicationRequests` shows, without a rule left to break.
- *Automation*. Its state-changing actions raise after their work and undo it.
- *Campus training*, reference data, search, analytics, dynamic fields and the front
  end: independent of recruitment's core, or without a protocol. They are most of the
  lines of the repository, which is why the mapped share of it is small.
