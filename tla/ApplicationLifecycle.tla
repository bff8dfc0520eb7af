------------------------ MODULE ApplicationLifecycle ------------------------
(***************************************************************************)
(* The application service: how a candidate's application for a position   *)
(* is created, moves through the stages of a recruitment process, and      *)
(* ends.  The state is what the handlers read and write in the database:   *)
(* application rows, their stage records, the candidate's state, and the   *)
(* soft rejections in the history.  The talent-pool entries the handlers   *)
(* also make are left out: no handler asks for them.                       *)
(*                                                                         *)
(* Every handler works on an instance that the view loaded BEFORE the      *)
(* service's transaction began (`get_object()`, with the candidate joined  *)
(* in).  A handler is therefore an operator of such an instance x.  Here   *)
(* the instance is always fresh: requests run one after another.  The      *)
(* module ApplicationRequests lets them overlap.                           *)
(*                                                                         *)
(* Only the newest record of each link is kept, with a mark for the links  *)
(* that have an older record still open: no handler tells older records    *)
(* apart in any other way.                                                 *)
(***************************************************************************)
EXTENDS ProcessCatalogue, RecruitmentStates, Functions

CONSTANTS
    Apps,                   \* application ids
    Candidates,
    Users,                  \* the users who can claim an application
    SuperAdmins,            \* those of them who may release another's claim
    Nobody,                 \* grabbed_by of an unclaimed application
    NoLink,                 \* current_link NULL
    CandidateOf,            \* application -> the candidate it will be for
    PositionOf,             \* application -> the position it will be for
    SoftRejectThreshold     \* 3 in the code

ASSUME ApplicationAssumption ==
    /\ CandidateOf \in [Apps -> Candidates]
    /\ SuperAdmins \subseteq Users
    /\ Nobody \notin Users
    /\ NoLink \notin Links
    /\ SoftRejectThreshold \in Nat \ {0}
    /\ Processes # {}

VARIABLES
    row,        \* [Apps -> row]: the applications table
    rec,        \* [Apps -> [Links -> state of the newest stage record]]
    stray,      \* [Apps -> SUBSET Links]: links with an older record still open
    cand,       \* [Candidates -> state]
    soft        \* [Apps -> [Stages -> soft rejections, up to the threshold]]

vars == <<row, rec, stray, cand, soft>>

-----------------------------------------------------------------------------
(* A row.  `ver` is the process whose version string was frozen into       *)
(* workflow_version, `advanced` whether last_advanced_at is set, `code`    *)
(* the prefix of the unique code column: APP from bulk creation, A from    *)
(* create_application.  State ABSENT is a row that was not created yet.    *)
Row == [state : ApplicationState \cup {"ABSENT"}, proc : Processes,
        ver : Processes, link : Links \cup {NoLink},
        grabber : Users \cup {Nobody}, advanced : BOOLEAN, code : {"A", "APP"}]

TypeOK ==
    /\ row \in [Apps -> Row]
    /\ rec \in [Apps -> [Links -> StageState \cup {"NONE"}]]
    /\ stray \in [Apps -> SUBSET Links]
    /\ cand \in [Candidates -> CandidateState]
    /\ soft \in [Apps -> [Stages -> 0 .. SoftRejectThreshold]]

(* A new row of process p at link l.                                       *)
NewRow(s, p, l, c) ==
    [state |-> s, proc |-> p, ver |-> p, link |-> l, grabber |-> Nobody,
     advanced |-> FALSE, code |-> c]

NoRow == NewRow("ABSENT", CHOOSE p \in Processes : TRUE, NoLink, "A")

Init ==
    /\ row = [a \in Apps |-> NoRow]
    /\ rec = [a \in Apps |-> [l \in Links |-> "NONE"]]
    /\ stray = [a \in Apps |-> {}]
    /\ cand = [c \in Candidates |-> "APPLIED"]
    /\ soft = [a \in Apps |-> [s \in Stages |-> 0]]

(* The instance a view loads: the row, and the candidate joined to it.     *)
Instance == [app : Apps, row : Row, cand : CandidateState]

View(a) == [app |-> a, row |-> row[a], cand |-> cand[CandidateOf[a]]]

(* The row of application a becomes r.  x.save() writes every column from  *)
(* the instance, stale or not.                                             *)
Save(a, r) == row' = [row EXCEPT ![a] = r]

SetCandidate(c, s) == cand' = [cand EXCEPT ![c] = s]

-----------------------------------------------------------------------------
(* create_application.  An application starts at the first required stage  *)
(* or at any stage of the process the caller names; the process may be     *)
(* named too, and only an archived one is refused.                         *)
Duplicate(a) ==
    \E b \in Apps : /\ CandidateOf[b] = CandidateOf[a]
                    /\ PositionOf[b] = PositionOf[a]
                    /\ row[b].state \in LiveStates

InsertApplication(a, p, l) ==
    /\ row[a].state = "ABSENT"
    /\ p \notin Archived
    /\ RequiredLinks(p) # {}
    /\ l \in LinksOf(p)
    /\ Save(a, NewRow("PENDING", p, l, "A"))
    /\ rec' = [rec EXCEPT ![a][l] = "PENDING"]
    /\ UNCHANGED <<stray, cand, soft>>

Create(a, p, l) == ~ Duplicate(a) /\ InsertApplication(a, p, l)

(***************************************************************************)
(* Bulk creation in its position direction, one draft: for the candidate   *)
(* it made or found again, an application of the position's process that   *)
(* is ACTIVE at once, stands at no stage and has no record.  It asks for   *)
(* no duplicate and not whether the process is archived, and leaves the    *)
(* candidate as they are.  The code is cut to 20 characters of candidate   *)
(* id, so the unique column refuses a candidate a second one.              *)
(***************************************************************************)
BulkCreate(a, p) ==
    /\ row[a].state = "ABSENT"
    /\ \A b \in Apps : CandidateOf[b] = CandidateOf[a] => row[b].code # "APP"
    /\ Save(a, NewRow("ACTIVE", p, NoLink, "APP"))
    /\ UNCHANGED <<rec, stray, cand, soft>>

(* Faulty form of Start: the candidate is moved whatever their state.      *)
StartForcingCandidate(x) ==
    /\ x.row.state = "PENDING"
    /\ Save(x.app, [x.row EXCEPT !.state = "ACTIVE", !.advanced = TRUE])
    /\ SetCandidate(CandidateOf[x.app], "IN_PROCESS")
    /\ UNCHANGED <<rec, stray, soft>>

(* start_application: the candidate enters the process if still APPLIED.   *)
Start(x) ==
    /\ x.row.state = "PENDING"
    /\ Save(x.app, [x.row EXCEPT !.state = "ACTIVE", !.advanced = TRUE])
    /\ IF x.cand = "APPLIED" THEN SetCandidate(CandidateOf[x.app], "IN_PROCESS")
                             ELSE UNCHANGED cand
    /\ UNCHANGED <<rec, stray, soft>>

-----------------------------------------------------------------------------
(* The current link has a record.                                          *)
HasRecord(a, l) == l # NoLink /\ rec[a][l] # "NONE"

(* Row r when it has just moved to link l of its process, in state s.      *)
Moved(r, l, s) == [r EXCEPT !.link = l, !.state = s, !.advanced = TRUE]

(* The new records of a cascade S that ends at link last: SKIPPED on the   *)
(* way, and at the end still to be worked on, archived by a rule, or       *)
(* skipped with no required stage left.                                    *)
Outcome(l, end) ==
    CASE end = "stay"    -> EntryState(l)
      [] end = "archive" -> "ARCHIVED"
      [] end = "stuck"   -> "SKIPPED"

Arrive(x, before, open, S, last, end) ==
    /\ end = "stuck" => NextLinks(x.row.proc, last) = {}
    /\ Save(x.app, Moved(x.row, last, IF end = "archive" THEN "TIMEOUT"
                                      ELSE x.row.state))
    /\ rec' = [rec EXCEPT ![x.app] =
                  [l \in Links |-> IF l = last THEN Outcome(last, end)
                                   ELSE IF l \in S THEN "SKIPPED"
                                   ELSE before[l]]]
    /\ stray' = [stray EXCEPT ![x.app] =
                    open \cup {l \in S : before[l] \in OpenStates}]
    /\ UNCHANGED <<cand, soft>>

(***************************************************************************)
(* Entering stage t: a new record, the instance moved to t and saved, then *)
(* the automatic skip and archive rules of the stage.  A skip enters the   *)
(* next required stage; an archive hit wins and ends the application.      *)
(* before, open: the newest records and the strays when t is entered.      *)
(***************************************************************************)
EnterStage(x, before, open, t) ==
    \E S \in Cascades(x.row.proc, t) :
    \E last \in LastLinks(S), end \in {"stay", "archive", "stuck"} :
        Arrive(x, before, open, S, last, end)

(* Faulty form of Advance: the state machine's refusal of an offer to a    *)
(* PENDING application is swallowed after its record was PASSED.           *)
AdvanceSwallowingRefusal(x) ==
    LET a == x.app
        passed == [rec[a] EXCEPT ![x.row.link] = "PASSED"]
        next == NextLinks(x.row.proc, x.row.link)
    IN  /\ x.row.state \in MovableStates
        /\ HasRecord(a, x.row.link)
        /\ \/ /\ next = {}
              /\ Save(a, [x.row EXCEPT !.state = IF @ = "ACTIVE" THEN "OFFER_SENT" ELSE @])
              /\ rec' = [rec EXCEPT ![a] = passed]
              /\ UNCHANGED <<stray, cand, soft>>
           \/ \E t \in next : EnterStage(x, passed, stray[a], t)

(* advance_application_to_next_stage.  The newest record of the current    *)
(* link is PASSED whatever its state; after the last required stage the    *)
(* application is OFFER_SENT, which the state machine refuses a PENDING    *)
(* one.  An entry condition that fails raises inside the transaction, so   *)
(* everything is rolled back: no step.                                     *)
Advance(x) ==
    LET a == x.app
        passed == [rec[a] EXCEPT ![x.row.link] = "PASSED"]
        next == NextLinks(x.row.proc, x.row.link)
    IN  /\ x.row.state \in MovableStates
        /\ HasRecord(a, x.row.link)
        /\ \/ /\ next = {}
              /\ x.row.state \in ApplicationFSM.send_offer_state.from
              /\ Save(a, [x.row EXCEPT !.state = ApplicationFSM.send_offer_state.to])
              /\ rec' = [rec EXCEPT ![a] = passed]
              /\ UNCHANGED <<stray, cand, soft>>
           \/ \E t \in next : EnterStage(x, passed, stray[a], t)

(* Faulty form of JumpOver: a jump back leaves the current record as it is. *)
JumpOverEarlierOnly(x, t) ==
    [l \in Links |->
        IF Order[l] < Order[t] /\ rec[x.app][l] \notin {"NONE", "PASSED"}
        THEN "SKIPPED" ELSE rec[x.app][l]]

(* jump_application_to_stage.  Every record, of whatever process, whose    *)
(* link is ordered before the target and which is not PASSED is SKIPPED,   *)
(* and so is the current one.                                              *)
JumpOver(x, t) ==
    [l \in Links |->
        LET r == rec[x.app][l]
        IN  IF \/ Order[l] < Order[t] /\ r \notin {"NONE", "PASSED"}
               \/ l = x.row.link /\ r \notin {"NONE", "PASSED", "SKIPPED"}
            THEN "SKIPPED" ELSE r]

Jump(x, t) ==
    /\ x.row.state \in MovableStates
    /\ t \in LinksOf(x.row.proc)
    /\ EnterStage(x, JumpOver(x, t),
                  {l \in stray[x.app] : Order[l] >= Order[t]}, t)

-----------------------------------------------------------------------------
(* The soft-reject endpoint: the current record is REJECTED, and when the  *)
(* candidate was soft-rejected often enough at this stage of this process, *)
(* over all applications, the candidate goes to the talent pool.  The      *)
(* candidate is read afresh, and a refused transition is swallowed.        *)
SoftRejections(softs, x) ==
    SumFunction([b \in Apps |->
        IF CandidateOf[b] = CandidateOf[x.app] /\ row[b].proc = x.row.proc
        THEN softs[b][StageOf[x.row.link]] ELSE 0])

(* Faulty form of ThresholdReached: one application's rejections only.     *)
ThresholdReachedByApp(softs, x) ==
    softs[x.app][StageOf[x.row.link]] >= SoftRejectThreshold

ThresholdReached(softs, x) == SoftRejections(softs, x) >= SoftRejectThreshold

SoftReject(x) ==
    LET a == x.app
        c == CandidateOf[a]
        s == StageOf[x.row.link]
        n == IF soft[a][s] < SoftRejectThreshold THEN soft[a][s] + 1
                                                 ELSE SoftRejectThreshold
    IN  /\ x.row.state \in MovableStates
        /\ HasRecord(a, x.row.link)
        /\ rec' = [rec EXCEPT ![a][x.row.link] = "REJECTED"]
        /\ soft' = [soft EXCEPT ![a][s] = n]
        /\ IF /\ ThresholdReached(soft', x)
              /\ cand[c] \in CandidateFSM.move_to_pool.from
           THEN SetCandidate(c, CandidateFSM.move_to_pool.to)
           ELSE UNCHANGED cand
        /\ UNCHANGED <<row, stray>>

(* Faulty form of ClosedByWithdrawal: only the current record is closed.   *)
CurrentClosedByWithdrawal(x) ==
    [l \in Links |-> IF l = x.row.link /\ rec[x.app][l] \in OpenStates
                     THEN "ARCHIVED" ELSE rec[x.app][l]]

ClosedByWithdrawal(x) ==
    [l \in Links |-> IF rec[x.app][l] \in OpenStates THEN "ARCHIVED"
                                                    ELSE rec[x.app][l]]

(* Faulty form of Withdraw: the candidate's refusal is best effort.        *)
WithdrawAlone(x) ==
    /\ x.row.state \in ApplicationFSM.withdraw.from
    /\ IF x.cand \in CandidateFSM.withdraw.from
       THEN SetCandidate(CandidateOf[x.app], CandidateFSM.withdraw.to)
       ELSE UNCHANGED cand
    /\ Save(x.app, [x.row EXCEPT !.state = ApplicationFSM.withdraw.to])
    /\ rec' = [rec EXCEPT ![x.app] = ClosedByWithdrawal(x)]
    /\ stray' = [stray EXCEPT ![x.app] = {}]
    /\ UNCHANGED soft

(* withdraw: the candidate withdraws with the application, or neither      *)
(* does, and every open record of the application is ARCHIVED.             *)
Withdraw(x) ==
    LET a == x.app
    IN  /\ x.row.state \in ApplicationFSM.withdraw.from
        /\ x.cand \in CandidateFSM.withdraw.from
        /\ SetCandidate(CandidateOf[a], CandidateFSM.withdraw.to)
        /\ Save(a, [x.row EXCEPT !.state = ApplicationFSM.withdraw.to])
        /\ rec' = [rec EXCEPT ![a] = ClosedByWithdrawal(x)]
        /\ stray' = [stray EXCEPT ![a] = {}]
        /\ UNCHANGED soft

(* Faulty forms of Pause: the candidate's state name is written to the     *)
(* application; an application that was not started can be paused.         *)
PauseAsCandidate(x) ==
    /\ x.row.state = "ACTIVE"
    /\ Save(x.app, [x.row EXCEPT !.state = "PROCESS_PAUSED"])
    /\ UNCHANGED <<rec, stray, cand, soft>>

PauseUnstarted(x) ==
    /\ x.row.state \in {"ACTIVE", "PENDING"}
    /\ Save(x.app, [x.row EXCEPT !.state = "PAUSED"])
    /\ UNCHANGED <<rec, stray, cand, soft>>

(* pause and resume.                                                       *)
Pause(x) ==
    /\ x.row.state = "ACTIVE"
    /\ Save(x.app, [x.row EXCEPT !.state = "PAUSED"])
    /\ UNCHANGED <<rec, stray, cand, soft>>

(* Faulty form of Resume: a timed-out application can be resumed.          *)
ResumeArchived(x) ==
    /\ x.row.state \in {"PAUSED", "TIMEOUT"}
    /\ Save(x.app, [x.row EXCEPT !.state = "ACTIVE"])
    /\ UNCHANGED <<rec, stray, cand, soft>>

Resume(x) ==
    /\ x.row.state = "PAUSED"
    /\ Save(x.app, [x.row EXCEPT !.state = "ACTIVE"])
    /\ UNCHANGED <<rec, stray, cand, soft>>

(* The record a timeout finds, and a faulty form that leaves it open.      *)
UntouchedByTimeout(r) == r

AfterTimeout(r) ==
    IF r \in {"NONE", "PASSED", "FAILED", "ARCHIVED"} THEN r ELSE "TIMEOUT"

(* timeout_archive, as the stale-application task calls it.  How long an   *)
(* application has not advanced is left open: any time may have passed,    *)
(* but one that never advanced is not selected.                            *)
TimeoutArchive(x) ==
    LET a == x.app
    IN  /\ x.row.state \in StaleTaskStates
        /\ x.row.advanced
        /\ Save(a, [x.row EXCEPT !.state = ApplicationFSM.timeout_archive.to])
        /\ rec' = [rec EXCEPT ![a] =
                      [l \in Links |-> IF l = x.row.link
                                       THEN AfterTimeout(rec[a][l]) ELSE rec[a][l]]]
        /\ UNCHANGED <<stray, cand, soft>>

-----------------------------------------------------------------------------
(* Row r at link l of process q, with q's version frozen into it; and a    *)
(* faulty form that leaves the link behind.                                *)
RepointedProcessOnly(r, q, l) == [r EXCEPT !.proc = q, !.ver = q]

Repointed(r, q, l) == [r EXCEPT !.proc = q, !.ver = q, !.link = l]

(* upgrade_workflow_version and change_process point the application at    *)
(* another version or another line.  They save these columns only, create  *)
(* no record, and ask nothing of the application's state.                  *)
Repoint(a, q, l) ==
    /\ Save(a, Repointed(row[a], q, l))
    /\ UNCHANGED <<rec, stray, cand, soft>>

UpgradeVersion(x, q) ==
    /\ x.row.state # "ABSENT"
    /\ q \in UpgradeTargets(x.row.proc)
    /\ \E l \in Landing(x.row.link, q) : Repoint(x.app, q, l)

ChangeProcess(x, q, l) ==
    /\ x.row.state # "ABSENT"
    /\ q \in Processes \ (Archived \cup {x.row.proc})
    /\ l \in LinksOf(q)
    /\ Repoint(x.app, q, l)

-----------------------------------------------------------------------------
(* Faulty forms of Grab: without the check of the claim, and without the   *)
(* check of the state.                                                     *)
GrabClaimed(a, u) ==
    /\ row[a].state = "ACTIVE"
    /\ Save(a, [row[a] EXCEPT !.grabber = u])
    /\ UNCHANGED <<rec, stray, cand, soft>>

GrabAnyState(a, u) ==
    /\ row[a].state # "ABSENT"
    /\ row[a].grabber = Nobody
    /\ Save(a, [row[a] EXCEPT !.grabber = u])
    /\ rec' = IF HasRecord(a, row[a].link)
              THEN [rec EXCEPT ![a][row[a].link] = "PROCESSING"] ELSE rec
    /\ UNCHANGED <<stray, cand, soft>>

(* GrabService: grab and release reload the row under a row lock, so they  *)
(* see the current one.  reassign_overdue grabs for a user it picks.       *)
Grab(a, u) ==
    /\ row[a].state = "ACTIVE"
    /\ row[a].grabber = Nobody
    /\ Save(a, [row[a] EXCEPT !.grabber = u])
    /\ rec' = IF HasRecord(a, row[a].link)
              THEN [rec EXCEPT ![a][row[a].link] = "PROCESSING"] ELSE rec
    /\ UNCHANGED <<stray, cand, soft>>

Release(a, u) ==
    /\ row[a].grabber # Nobody
    /\ u = row[a].grabber \/ u \in SuperAdmins
    /\ Save(a, [row[a] EXCEPT !.grabber = Nobody])
    /\ UNCHANGED <<rec, stray, cand, soft>>

-----------------------------------------------------------------------------
(* The candidate's own transition endpoint: k is the state its view        *)
(* loaded.                                                                 *)
CandidateTransition(c, k) ==
    \E m \in DOMAIN CandidateFSM :
        /\ k \in CandidateFSM[m].from
        /\ SetCandidate(c, CandidateFSM[m].to)
        /\ UNCHANGED <<row, rec, stray, soft>>

-----------------------------------------------------------------------------
(* One request about application x.app that was loaded as x.               *)
Request(x) ==
    \/ Start(x)
    \/ Advance(x)
    \/ \E t \in Links : Jump(x, t)
    \/ SoftReject(x)
    \/ Withdraw(x)
    \/ Pause(x)
    \/ Resume(x)
    \/ TimeoutArchive(x)
    \/ \E q \in Processes : UpgradeVersion(x, q)
    \/ \E q \in Processes, l \in Links : ChangeProcess(x, q, l)

Claim == \E a \in Apps, u \in Users : Grab(a, u) \/ Release(a, u)

Next ==
    \/ \E a \in Apps, p \in Processes, l \in Links : Create(a, p, l)
    \/ \E a \in Apps, p \in Processes : BulkCreate(a, p)
    \/ \E a \in Apps : Request(View(a))
    \/ \E c \in Candidates : CandidateTransition(c, cand[c])
    \/ Claim

Spec == Init /\ [][Next]_vars

-----------------------------------------------------------------------------
(* Safety, whatever the catalogue.                                         *)

(* The process, the frozen version and the current link of an application  *)
(* always agree: every handler that moves one of them moves all of them.   *)
(* Only an application created in bulk may stand at no link.               *)
Consistent(r) ==
    r.state # "ABSENT" =>
        /\ r.ver = r.proc
        /\ r.link \in LinksOf(r.proc) \/ (r.link = NoLink /\ r.code = "APP")

StageInProcess == \A a \in Apps : Consistent(row[a])

(* An application of create_application that was started belongs to a      *)
(* candidate who has entered a process: start moves the candidate along,   *)
(* and no request that is not overtaken brings them back to APPLIED.  One  *)
(* created in bulk is ACTIVE without a start.                              *)
StartedMeansEntered ==
    \A a \in Apps :
        /\ row[a].code = "A"
        /\ row[a].state \in {"ACTIVE", "PAUSED", "OFFER_SENT"}
        => cand[CandidateOf[a]] # "APPLIED"

(* A withdrawn application has nothing left to do: no stage record of any  *)
(* process it went through, newest or older, waits for somebody.           *)
WithdrawnClosesAll ==
    \A a \in Apps : row[a].state = "WITHDRAWN" =>
        /\ stray[a] = {}
        /\ \A l \in Links : rec[a][l] \notin OpenStates

(* A withdrawn application and its candidate withdrew together, and        *)
(* neither comes back.                                                     *)
WithdrawnTogether ==
    \A a \in Apps : row[a].state = "WITHDRAWN" =>
        cand[CandidateOf[a]] = "WITHDRAWN"

Unfinished == ApplicationState \ {"ONBOARDED", "REJECTED", "WITHDRAWN", "TIMEOUT"}

(* A candidate has at most two unfinished applications for a position, and *)
(* two only if one of them was created in bulk: create_application asks    *)
(* for a duplicate of either kind, no request brings an ended one back,    *)
(* and bulk creation, which does not ask, succeeds once per candidate.     *)
OneLivePerPosition ==
    \A a, b \in Apps :
        /\ a # b
        /\ CandidateOf[a] = CandidateOf[b]
        /\ PositionOf[a] = PositionOf[b]
        /\ row[a].state \in Unfinished
        /\ row[b].state \in Unfinished
        => row[a].code # row[b].code

(* A claim ends before another begins: no request of one user moves a      *)
(* claimed application straight to another user.                           *)
ClaimNotStolen ==
    [][\A a \in Apps : row[a].grabber # Nobody =>
           row'[a].grabber \in {row[a].grabber, Nobody}]_vars

(* The terminal states are final: models.py and the service name them so.  *)
TerminalIsFinal ==
    [][\A a \in Apps : row[a].state \in {"WITHDRAWN", "TIMEOUT"} =>
           row'[a].state = row[a].state]_vars

-----------------------------------------------------------------------------
(* Safety of an application that stays in one process.                     *)
SingleProcess == \A p, q \in Processes : p = q

(* Only the stage an application is at can wait for somebody: advance and  *)
(* jump leave no open record behind, newest or older.                      *)
OpenOnlyAtCurrent ==
    \A a \in Apps :
        /\ stray[a] = {}
        /\ \A l \in Links : rec[a][l] \in OpenStates => l = row[a].link

(* Where a live application stands there is a record to work on, and it is *)
(* not a verdict already given: advance and soft reject can find it.  The  *)
(* one that stands nowhere was created in bulk and has no record at all,   *)
(* so nobody waits at a stage of it: a jump is its only way on.            *)
LiveHasRecord ==
    \A a \in Apps : row[a].state \in {"PENDING", "ACTIVE", "PAUSED"} =>
        IF row[a].link = NoLink
        THEN row[a].code = "APP" /\ \A l \in Links : rec[a][l] = "NONE"
        ELSE rec[a][row[a].link] \notin {"NONE", "PASSED"}

(* An application that ended, by an archive rule or timeout, by withdrawal *)
(* or with an offer, has no open stage record.                             *)
NothingOpenAfterEnd ==
    \A a \in Apps : row[a].state \in {"OFFER_SENT", "WITHDRAWN", "TIMEOUT"} =>
        \A l \in Links : rec[a][l] \notin OpenStates

(* An offer comes at the end of the process, after its last stage passed.  *)
OfferAtTheEnd ==
    \A a \in Apps : row[a].state = "OFFER_SENT" =>
        /\ row[a].link # NoLink
        /\ rec[a][row[a].link] = "PASSED"
        /\ NextLinks(row[a].proc, row[a].link) = {}

(* A verdict is kept: a PASSED record may be superseded by entering the    *)
(* stage again, but nobody reopens, rejects or times it out.               *)
PassedVerdictKept ==
    [][\A a \in Apps, l \in Links : rec[a][l] = "PASSED" =>
           rec'[a][l] \notin {"PROCESSING", "REJECTED", "TIMEOUT"}]_vars

(* The soft rejection that reaches the threshold, summed over all of the   *)
(* candidate's applications in the process, leaves the candidate in no     *)
(* state from which the talent pool would take them.                       *)
ThresholdPools ==
    [][\A a \in Apps :
          /\ soft'[a] # soft[a]
          /\ SoftRejections(soft', View(a)) >= SoftRejectThreshold
          => cand'[CandidateOf[a]] \notin CandidateFSM.move_to_pool.from]_vars

=============================================================================
