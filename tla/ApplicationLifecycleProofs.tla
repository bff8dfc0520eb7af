--------------------- MODULE ApplicationLifecycleProofs ---------------------
(***************************************************************************)
(* Theorems about ApplicationLifecycle, for any catalogue and any number   *)
(* of applications, candidates and users.                                  *)
(*                                                                         *)
(* A request is proved about for an arbitrary instance x, fresh or not, so *)
(* that the same lemmas serve ApplicationRequests, where x may be stale.   *)
(***************************************************************************)
EXTENDS ApplicationRefinement, TLAPS

RecordState == StageState \cup {"NONE"}

-----------------------------------------------------------------------------
(* Helpers.                                                                *)

(* No transition leads a candidate back to APPLIED.                        *)
LEMMA CandidateTargets ==
    \A m \in DOMAIN CandidateFSM :
        CandidateFSM[m].to \in CandidateState \ {"APPLIED"}
  BY DEF CandidateFSM, CandidateState

(* A view loads an instance.                                               *)
LEMMA ViewIsInstance == TypeOK => \A a \in Apps : View(a) \in Instance
  BY ApplicationAssumption DEF ApplicationAssumption, TypeOK, View, Instance

(* The rows that the handlers build.                                       *)
LEMMA MovedRow ==
    ASSUME NEW r \in Row, NEW l \in Links,
           NEW s \in ApplicationState \cup {"ABSENT"}
    PROVE  LET m == Moved(r, l, s)
           IN  /\ m \in Row /\ m.link = l /\ m.state = s
               /\ m.proc = r.proc /\ m.ver = r.ver /\ m.grabber = r.grabber
               /\ m.code = r.code
  BY DEF Moved, Row

LEMMA RepointedRow ==
    ASSUME NEW r \in Row, NEW l \in Links, NEW q \in Processes
    PROVE  LET m == Repointed(r, q, l)
           IN  /\ m \in Row /\ m.link = l /\ m.proc = q /\ m.ver = q
               /\ m.state = r.state /\ m.grabber = r.grabber
               /\ m.code = r.code
  BY DEF Repointed, Row

LEMMA StartedRow ==
    ASSUME NEW r \in Row
    PROVE  LET m == [r EXCEPT !.state = "ACTIVE", !.advanced = TRUE]
           IN  /\ m \in Row /\ m.link = r.link /\ m.state = "ACTIVE"
               /\ m.proc = r.proc /\ m.ver = r.ver /\ m.grabber = r.grabber
               /\ m.code = r.code
  BY DEF Row, ApplicationState

LEMMA NewRowType ==
    ASSUME NEW s \in ApplicationState \cup {"ABSENT"}, NEW p \in Processes,
           NEW l \in Links \cup {NoLink}, NEW c \in {"A", "APP"}
    PROVE  NewRow(s, p, l, c) \in Row
  BY DEF NewRow, Row

(* What entering a stage does: the instance is saved at a link of its      *)
(* process, in its state or TIMEOUT, and the newest records of the links   *)
(* it ran through are new ones.                                            *)
Entered(x, before, open, S, l, r, s) ==
    /\ Save(x.app, Moved(x.row, l, s))
    /\ rec' = [rec EXCEPT ![x.app] =
                  [k \in Links |-> IF k = l THEN r
                                   ELSE IF k \in S THEN "SKIPPED"
                                   ELSE before[k]]]
    /\ stray' = [stray EXCEPT ![x.app] =
                    open \cup {k \in S : before[k] \in OpenStates}]
    /\ s # x.row.state => s = "TIMEOUT" /\ r = "ARCHIVED"
    /\ UNCHANGED <<cand, soft>>

LEMMA StageEntered ==
    ASSUME NEW x, NEW before, NEW open, NEW t, EnterStage(x, before, open, t)
    PROVE  \E S \in SUBSET LinksOf(x.row.proc) :
           \E l \in S, s \in {x.row.state, "TIMEOUT"},
              r \in {"PENDING", "TO_BE_SCHEDULED", "ARCHIVED", "SKIPPED"} :
               Entered(x, before, open, S, l, r, s)
  <1>0. PICK S \in Cascades(x.row.proc, t) :
            \E l \in LastLinks(S), end \in {"stay", "archive", "stuck"} :
                Arrive(x, before, open, S, l, end)
    BY DEF EnterStage
  <1>1. PICK l \in LastLinks(S), end \in {"stay", "archive", "stuck"} :
            Arrive(x, before, open, S, l, end)
    BY <1>0
  <1>2. S \in SUBSET LinksOf(x.row.proc) /\ l \in S
    BY DEF Cascades, LastLinks
  <1> DEFINE s == IF end = "archive" THEN "TIMEOUT" ELSE x.row.state
             r == Outcome(l, end)
  <1>3. r \in {"PENDING", "TO_BE_SCHEDULED", "ARCHIVED", "SKIPPED"}
    BY DEF Outcome, EntryState
  <1>4. s # x.row.state => s = "TIMEOUT" /\ r = "ARCHIVED"
    BY DEF Outcome
  <1>5. Entered(x, before, open, S, l, r, s)
    BY <1>1, <1>4 DEF Entered, Arrive
  <1> QED BY <1>2, <1>3, <1>5

-----------------------------------------------------------------------------
(* Type correctness.                                                       *)

LEMMA InitType == Init => TypeOK
  <1>1. NoRow \in Row
    BY ApplicationAssumption, NewRowType DEF ApplicationAssumption, NoRow
  <1> QED BY <1>1, ApplicationAssumption
          DEF ApplicationAssumption, Init, TypeOK, StageState, CandidateState

LEMMA SaveType ==
    ASSUME TypeOK, NEW a \in Apps, NEW r \in Row, Save(a, r)
    PROVE  /\ row' \in [Apps -> Row]
           /\ row'[a] = r
           /\ \A b \in Apps \ {a} : row'[b] = row[b]
  BY DEF TypeOK, Save

LEMMA SetStateType ==
    ASSUME NEW x \in Instance, NEW s \in ApplicationState
    PROVE  [x.row EXCEPT !.state = s] \in Row
  BY DEF Instance, Row

LEMMA EnterStageType ==
    ASSUME TypeOK, NEW x \in Instance, NEW before \in [Links -> RecordState],
           NEW open \in SUBSET Links, NEW t, EnterStage(x, before, open, t)
    PROVE  TypeOK'
  <1>1. x.app \in Apps /\ x.row \in Row
    BY DEF Instance
  <1>2. PICK S \in SUBSET LinksOf(x.row.proc) :
        \E l \in S, s \in {x.row.state, "TIMEOUT"},
           r \in {"PENDING", "TO_BE_SCHEDULED", "ARCHIVED", "SKIPPED"} :
            Entered(x, before, open, S, l, r, s)
    BY StageEntered
  <1>3. PICK l \in S, s \in {x.row.state, "TIMEOUT"},
             r \in {"PENDING", "TO_BE_SCHEDULED", "ARCHIVED", "SKIPPED"} :
            Entered(x, before, open, S, l, r, s)
    BY <1>2
  <1>4. S \subseteq Links /\ l \in Links
    BY DEF LinksOf
  <1>5. s \in ApplicationState \cup {"ABSENT"}
    BY <1>1 DEF Row, ApplicationState
  <1>6. row' \in [Apps -> Row]
    BY <1>1, <1>3, <1>4, <1>5, MovedRow, SaveType DEF Entered
  <1>7. rec' \in [Apps -> [Links -> RecordState]]
    <2>1. [k \in Links |-> IF k = l THEN r ELSE IF k \in S THEN "SKIPPED"
                           ELSE before[k]] \in [Links -> RecordState]
      BY DEF RecordState, StageState
    <2> QED BY <1>1, <1>3, <2>1 DEF Entered, TypeOK, RecordState
  <1>8. stray' \in [Apps -> SUBSET Links]
    BY <1>1, <1>3, <1>4 DEF Entered, TypeOK
  <1> QED BY <1>3, <1>6, <1>7, <1>8 DEF Entered, TypeOK, RecordState

LEMMA JumpOverType ==
    ASSUME TypeOK, NEW x \in Instance, NEW t
    PROVE  JumpOver(x, t) \in [Links -> RecordState]
  BY DEF TypeOK, Instance, JumpOver, RecordState, StageState

LEMMA ClosedType ==
    ASSUME TypeOK, NEW x \in Instance
    PROVE  ClosedByWithdrawal(x) \in [Links -> RecordState]
  BY DEF TypeOK, Instance, ClosedByWithdrawal, RecordState, StageState

(* Every request keeps the types, whatever instance it works on.           *)
LEMMA RequestType ==
    ASSUME TypeOK, NEW x \in Instance, Request(x)
    PROVE  TypeOK'
  <1>1. /\ x.app \in Apps /\ x.row \in Row
        /\ CandidateOf[x.app] \in Candidates
        /\ HasRecord(x.app, x.row.link) => x.row.link \in Links
    BY ApplicationAssumption DEF ApplicationAssumption, Instance, Row, HasRecord
  <1>2. CASE Start(x)
    <2>2. row' \in [Apps -> Row]
      BY <1>1, <1>2, StartedRow, SaveType DEF Start
    <2> QED BY <1>1, <1>2, <2>2
            DEF Start, SetCandidate, TypeOK, CandidateState
  <1>3. CASE Advance(x)
    <2> DEFINE passed == [rec[x.app] EXCEPT ![x.row.link] = "PASSED"]
    <2>1. passed \in [Links -> RecordState] /\ stray[x.app] \in SUBSET Links
      BY <1>1, <1>3 DEF Advance, TypeOK, RecordState, StageState
    <2>2. CASE \E t \in NextLinks(x.row.proc, x.row.link) :
                   EnterStage(x, passed, stray[x.app], t)
      BY <2>1, <2>2, EnterStageType
    <2>3. CASE /\ Save(x.app, [x.row EXCEPT !.state = "OFFER_SENT"])
               /\ rec' = [rec EXCEPT ![x.app] = passed]
               /\ UNCHANGED <<stray, cand, soft>>
      <3>1. [x.row EXCEPT !.state = "OFFER_SENT"] \in Row
        BY SetStateType DEF ApplicationState
      <3>2. row' \in [Apps -> Row]
        BY <1>1, <2>3, <3>1, SaveType
      <3> QED BY <1>1, <2>1, <2>3, <3>2 DEF TypeOK, RecordState
    <2> QED BY <1>3, <2>2, <2>3 DEF Advance, ApplicationFSM
  <1>4. CASE \E t \in Links : Jump(x, t)
    <2>1. PICK t \in Links : Jump(x, t)
      BY <1>4
    <2>2. {l \in stray[x.app] : Order[l] >= Order[t]} \in SUBSET Links
      BY <1>1 DEF TypeOK
    <2> QED BY <2>1, <2>2, JumpOverType, EnterStageType DEF Jump
  <1>5. CASE SoftReject(x)
    <2> DEFINE s == StageOf[x.row.link]
               n == IF soft[x.app][s] < SoftRejectThreshold
                    THEN soft[x.app][s] + 1 ELSE SoftRejectThreshold
    <2>1. s \in Stages
      BY <1>1, <1>5, CatalogueAssumption DEF CatalogueAssumption, SoftReject
    <2>2. n \in 0 .. SoftRejectThreshold
      BY <1>1, <2>1, ApplicationAssumption DEF ApplicationAssumption, TypeOK
    <2>3. soft' \in [Apps -> [Stages -> 0 .. SoftRejectThreshold]]
      BY <1>1, <1>5, <2>1, <2>2 DEF SoftReject, TypeOK
    <2>4. rec' \in [Apps -> [Links -> RecordState]]
      BY <1>1, <1>5 DEF SoftReject, TypeOK, RecordState, StageState
    <2>5. cand' \in [Candidates -> CandidateState]
      BY <1>1, <1>5
      DEF SoftReject, SetCandidate, TypeOK, CandidateFSM, CandidateState
    <2> QED BY <1>5, <2>3, <2>4, <2>5 DEF SoftReject, TypeOK, RecordState
  <1>6. CASE Withdraw(x)
    <2>1. [x.row EXCEPT !.state = "WITHDRAWN"] \in Row
      BY SetStateType DEF ApplicationState
    <2>2. row' \in [Apps -> Row]
      BY <1>1, <1>6, <2>1, SaveType DEF Withdraw, ApplicationFSM
    <2>3. cand' \in [Candidates -> CandidateState]
      BY <1>1, <1>6
      DEF Withdraw, SetCandidate, TypeOK, CandidateFSM, CandidateState
    <2>4. rec' \in [Apps -> [Links -> RecordState]]
      BY <1>1, <1>6, ClosedType DEF Withdraw, TypeOK, RecordState
    <2> QED BY <1>1, <1>6, <2>2, <2>3, <2>4 DEF Withdraw, TypeOK, RecordState
  <1>7. CASE Pause(x) \/ Resume(x)
    <2>1. \A s \in {"PAUSED", "ACTIVE"} : [x.row EXCEPT !.state = s] \in Row
      BY SetStateType DEF ApplicationState
    <2>2. row' \in [Apps -> Row]
      BY <1>1, <1>7, <2>1, SaveType DEF Pause, Resume
    <2> QED BY <1>7, <2>2 DEF Pause, Resume, TypeOK
  <1>8. CASE TimeoutArchive(x)
    <2>1. [x.row EXCEPT !.state = "TIMEOUT"] \in Row
      BY SetStateType DEF ApplicationState
    <2>2. row' \in [Apps -> Row]
      BY <1>1, <1>8, <2>1, SaveType DEF TimeoutArchive, ApplicationFSM
    <2>3. rec' \in [Apps -> [Links -> RecordState]]
      BY <1>1, <1>8
      DEF TimeoutArchive, AfterTimeout, TypeOK, RecordState, StageState
    <2> QED BY <1>8, <2>2, <2>3 DEF TimeoutArchive, TypeOK, RecordState
  <1>9. CASE \/ \E q \in Processes : UpgradeVersion(x, q)
             \/ \E q \in Processes, l \in Links : ChangeProcess(x, q, l)
    <2>1. PICK q \in Processes, l \in Links : Repoint(x.app, q, l)
      BY <1>9 DEF UpgradeVersion, ChangeProcess, Landing, FirstOf, LastOf, LinksOf
    <2>2. row[x.app] \in Row
      BY <1>1 DEF TypeOK
    <2>3. row' \in [Apps -> Row]
      BY <1>1, <2>1, <2>2, RepointedRow, SaveType DEF Repoint
    <2> QED BY <2>1, <2>3 DEF Repoint, TypeOK
  <1> QED BY <1>2, <1>3, <1>4, <1>5, <1>6, <1>7, <1>8, <1>9 DEF Request

LEMMA InsertType ==
    ASSUME TypeOK, NEW a \in Apps, NEW p \in Processes, NEW l \in Links,
           InsertApplication(a, p, l)
    PROVE  TypeOK'
  <1>1. NewRow("PENDING", p, l, "A") \in Row
    BY NewRowType DEF ApplicationState
  <1>2. row' \in [Apps -> Row]
    BY <1>1, SaveType DEF InsertApplication
  <1>3. rec' \in [Apps -> [Links -> RecordState]]
    BY DEF InsertApplication, TypeOK, RecordState, StageState
  <1> QED BY <1>2, <1>3 DEF InsertApplication, TypeOK, RecordState

LEMMA BulkType ==
    ASSUME TypeOK, NEW a \in Apps, NEW p \in Processes, BulkCreate(a, p)
    PROVE  TypeOK'
  <1>1. NewRow("ACTIVE", p, NoLink, "APP") \in Row
    BY NewRowType DEF ApplicationState
  <1>2. row' \in [Apps -> Row]
    BY <1>1, SaveType DEF BulkCreate
  <1> QED BY <1>2 DEF BulkCreate, TypeOK

LEMMA CandidateType ==
    ASSUME TypeOK, NEW c \in Candidates, NEW k, CandidateTransition(c, k)
    PROVE  TypeOK'
  <1>1. PICK m \in DOMAIN CandidateFSM :
            /\ SetCandidate(c, CandidateFSM[m].to)
            /\ UNCHANGED <<row, rec, stray, soft>>
    BY DEF CandidateTransition
  <1>2. cand' \in [Candidates -> CandidateState]
    BY <1>1, CandidateTargets DEF SetCandidate, TypeOK
  <1> QED BY <1>1, <1>2 DEF TypeOK

LEMMA ClaimType ==
    ASSUME TypeOK, Claim
    PROVE  TypeOK'
  <1>1. PICK a \in Apps, u \in Users : Grab(a, u) \/ Release(a, u)
    BY DEF Claim
  <1>2. row[a] \in Row
    BY DEF TypeOK
  <1>3. \A v \in Users \cup {Nobody} : [row[a] EXCEPT !.grabber = v] \in Row
    BY <1>2 DEF Row
  <1>4. row' \in [Apps -> Row]
    BY <1>1, <1>3, SaveType DEF Grab, Release
  <1>5. rec' \in [Apps -> [Links -> RecordState]]
    <2> DEFINE l == row[a].link
               worked == [rec[a] EXCEPT ![l] = "PROCESSING"]
    <2>2. worked \in [Links -> RecordState]
      BY DEF TypeOK, RecordState, StageState
    <2>3. rec' = rec \/ rec' = [rec EXCEPT ![a] = worked]
      BY <1>1 DEF Grab, Release, TypeOK
    <2> QED BY <2>2, <2>3 DEF TypeOK, RecordState
  <1> QED BY <1>1, <1>4, <1>5 DEF Grab, Release, TypeOK, RecordState

LEMMA NextType == TypeOK /\ [Next]_vars => TypeOK'
  <1> SUFFICES ASSUME TypeOK, [Next]_vars PROVE TypeOK'
    OBVIOUS
  <1>1. CASE \E a \in Apps, p \in Processes, l \in Links : Create(a, p, l)
    BY <1>1, InsertType DEF Create
  <1>2. CASE \E a \in Apps : Request(View(a))
    BY <1>2, ViewIsInstance, RequestType
  <1>3. CASE \E c \in Candidates : CandidateTransition(c, cand[c])
    BY <1>3, CandidateType
  <1>4. CASE Claim
    BY <1>4, ClaimType
  <1>5. CASE UNCHANGED vars
    BY <1>5 DEF TypeOK, vars
  <1>6. CASE \E a \in Apps, p \in Processes : BulkCreate(a, p)
    BY <1>6, BulkType
  <1> QED BY <1>1, <1>2, <1>3, <1>4, <1>5, <1>6 DEF Next

(* The state of the service is well typed in every reachable state: no     *)
(* handler writes a state name, a link or a process of the wrong table.    *)
THEOREM TypeCorrect == Spec => []TypeOK
  BY InitType, NextType, PTL DEF Spec

-----------------------------------------------------------------------------
(* The process, the version and the link of a row agree.                   *)

LEMMA SaveStage ==
    ASSUME TypeOK, StageInProcess, NEW a \in Apps, NEW r \in Row,
           Consistent(r), Save(a, r)
    PROVE  StageInProcess'
  BY SaveType DEF StageInProcess, Consistent, LinksOf

LEMMA EnterStageStage ==
    ASSUME TypeOK, StageInProcess, NEW x \in Instance, x.row.state # "ABSENT",
           Consistent(x.row), NEW before, NEW open, NEW t,
           EnterStage(x, before, open, t)
    PROVE  StageInProcess'
  <1>1. PICK S \in SUBSET LinksOf(x.row.proc) :
        \E l \in S, s \in {x.row.state, "TIMEOUT"},
           r \in {"PENDING", "TO_BE_SCHEDULED", "ARCHIVED", "SKIPPED"} :
            Entered(x, before, open, S, l, r, s)
    BY StageEntered
  <1>2. PICK l \in S, s \in {x.row.state, "TIMEOUT"} : Save(x.app, Moved(x.row, l, s))
    BY <1>1 DEF Entered
  <1>3. /\ x.app \in Apps /\ x.row \in Row
        /\ l \in Links /\ l \in LinksOf(x.row.proc)
        /\ s \in ApplicationState \cup {"ABSENT"}
    BY DEF Instance, Row, LinksOf, ApplicationState
  <1>4. Consistent(Moved(x.row, l, s)) /\ Moved(x.row, l, s) \in Row
    BY <1>3, MovedRow DEF Consistent
  <1> QED BY <1>2, <1>3, <1>4, SaveStage

(* A request on a consistent instance, fresh or not, keeps every row       *)
(* consistent: the full save of a stale instance brings back an old        *)
(* process together with its own version and link.                         *)
LEMMA RequestStage ==
    ASSUME TypeOK, StageInProcess, NEW x \in Instance, Consistent(x.row),
           Request(x)
    PROVE  StageInProcess'
  <1>1. x.app \in Apps /\ x.row \in Row /\ row[x.app] \in Row
    BY DEF Instance, TypeOK
  <1>2. \A s \in ApplicationState :
            x.row.state # "ABSENT" => /\ [x.row EXCEPT !.state = s] \in Row
                                      /\ Consistent([x.row EXCEPT !.state = s])
    BY <1>1 DEF Row, Consistent
  <1>3. ASSUME NEW s \in ApplicationState, x.row.state # "ABSENT",
               Save(x.app, [x.row EXCEPT !.state = s])
        PROVE  StageInProcess'
    BY <1>1, <1>2, <1>3, SaveStage
  <1>9. CASE Start(x)
    <2>1. Consistent([x.row EXCEPT !.state = "ACTIVE", !.advanced = TRUE])
      BY <1>1, <1>9, StartedRow DEF Start, Consistent
    <2> QED BY <1>1, <1>9, <2>1, StartedRow, SaveStage DEF Start
  <1>4. CASE Withdraw(x) \/ Pause(x) \/ Resume(x) \/ TimeoutArchive(x)
    <2>1. x.row.state # "ABSENT"
      BY <1>4 DEF Withdraw, Pause, Resume, TimeoutArchive, ApplicationFSM,
                  StaleTaskStates
    <2>2. \E s \in {"ACTIVE", "WITHDRAWN", "PAUSED", "TIMEOUT"} :
             Save(x.app, [x.row EXCEPT !.state = s])
      BY <1>4 DEF Withdraw, Pause, Resume, TimeoutArchive, ApplicationFSM
    <2> QED BY <1>3, <2>1, <2>2 DEF ApplicationState
  <1>5. CASE Advance(x)
    <2>1. x.row.state # "ABSENT"
      BY <1>5 DEF Advance, MovableStates
    <2>2. CASE Save(x.app, [x.row EXCEPT !.state = "OFFER_SENT"])
      BY <1>3, <2>1, <2>2 DEF ApplicationState
    <2>3. CASE \E before, open, t : EnterStage(x, before, open, t)
      BY <2>1, <2>3, EnterStageStage
    <2> QED BY <1>5, <2>2, <2>3 DEF Advance, ApplicationFSM
  <1>6. CASE \E t \in Links : Jump(x, t)
    BY <1>6, EnterStageStage DEF Jump, MovableStates
  <1>7. CASE SoftReject(x)
    BY <1>7 DEF SoftReject, StageInProcess
  <1>8. CASE \/ \E q \in Processes : UpgradeVersion(x, q)
             \/ \E q \in Processes, l \in Links : ChangeProcess(x, q, l)
    <2>1. PICK q \in Processes, l \in Links :
              l \in LinksOf(q) /\ Repoint(x.app, q, l)
      BY <1>8
      DEF UpgradeVersion, ChangeProcess, Landing, FirstOf, LastOf, LinksOf
    <2>2. /\ Repointed(row[x.app], q, l) \in Row
          /\ Consistent(Repointed(row[x.app], q, l))
      BY <1>1, <2>1, RepointedRow DEF Consistent
    <2> QED BY <1>1, <2>1, <2>2, SaveStage DEF Repoint
  <1> QED BY <1>4, <1>5, <1>6, <1>7, <1>8, <1>9 DEF Request

LEMMA InsertStage ==
    ASSUME TypeOK, StageInProcess, NEW a \in Apps, NEW p \in Processes,
           NEW l \in Links, InsertApplication(a, p, l)
    PROVE  StageInProcess'
  <1> DEFINE r == NewRow("PENDING", p, l, "A")
  <1>1. r \in Row
    BY NewRowType DEF ApplicationState
  <1>2. Consistent(r) /\ Save(a, r)
    BY DEF InsertApplication, Consistent, NewRow
  <1> QED BY <1>1, <1>2, SaveStage

LEMMA BulkStage ==
    ASSUME TypeOK, StageInProcess, NEW a \in Apps, NEW p \in Processes,
           BulkCreate(a, p)
    PROVE  StageInProcess'
  <1> DEFINE r == NewRow("ACTIVE", p, NoLink, "APP")
  <1>1. r \in Row
    BY NewRowType DEF ApplicationState
  <1>2. Consistent(r) /\ Save(a, r)
    BY DEF BulkCreate, Consistent, NewRow
  <1> QED BY <1>1, <1>2, SaveStage

LEMMA ClaimStage ==
    ASSUME TypeOK, StageInProcess, Claim
    PROVE  StageInProcess'
  <1>1. PICK a \in Apps, v \in Users \cup {Nobody} :
            Save(a, [row[a] EXCEPT !.grabber = v])
    BY DEF Claim, Grab, Release
  <1>2. row[a] \in Row /\ Consistent(row[a])
    BY DEF TypeOK, StageInProcess
  <1>3. /\ [row[a] EXCEPT !.grabber = v] \in Row
        /\ Consistent([row[a] EXCEPT !.grabber = v])
    BY <1>2 DEF Row, Consistent
  <1> QED BY <1>1, <1>3, SaveStage

LEMMA NextStage == TypeOK /\ StageInProcess /\ [Next]_vars => StageInProcess'
  <1> SUFFICES ASSUME TypeOK, StageInProcess, [Next]_vars PROVE StageInProcess'
    OBVIOUS
  <1>1. CASE \E a \in Apps, p \in Processes, l \in Links : Create(a, p, l)
    BY <1>1, InsertStage DEF Create
  <1>2. CASE \E a \in Apps : Request(View(a))
    <2>1. PICK a \in Apps : Request(View(a))
      BY <1>2
    <2>2. View(a) \in Instance /\ Consistent(View(a).row)
      BY ViewIsInstance DEF View, StageInProcess
    <2> QED BY <2>1, <2>2, RequestStage
  <1>3. CASE Claim
    BY <1>3, ClaimStage
  <1>4. CASE UNCHANGED row
    BY <1>4 DEF StageInProcess
  <1>5. CASE \/ \E c \in Candidates : CandidateTransition(c, cand[c])
             \/ UNCHANGED vars
    BY <1>4, <1>5 DEF CandidateTransition, vars
  <1>6. CASE \E a \in Apps, p \in Processes : BulkCreate(a, p)
    BY <1>6, BulkStage
  <1> QED BY <1>1, <1>2, <1>3, <1>5, <1>6 DEF Next

(* The process, the frozen version and the current link of an application  *)
(* agree in every reachable state.                                         *)
THEOREM StageStaysInProcess == Spec => []StageInProcess
  <1>1. Init => StageInProcess
    BY DEF Init, StageInProcess, Consistent, NoRow, NewRow
  <1> QED BY <1>1, NextStage, TypeCorrect, PTL DEF Spec

-----------------------------------------------------------------------------
(* A request touches only its own application.                             *)

Untouched(b) ==
    /\ row'[b] = row[b] /\ rec'[b] = rec[b]
    /\ stray'[b] = stray[b] /\ soft'[b] = soft[b]

LEMMA RequestLocal ==
    ASSUME TypeOK, NEW x \in Instance, Request(x), NEW b \in Apps, b # x.app
    PROVE  Untouched(b)
  <1>1. ASSUME NEW before, NEW open, NEW t, EnterStage(x, before, open, t)
        PROVE  Untouched(b)
    <2>1. \E S, l, s, r : Entered(x, before, open, S, l, r, s)
      BY <1>1, StageEntered
    <2> QED BY <2>1 DEF Entered, Save, Untouched, TypeOK
  <1>2. CASE Start(x) \/ Withdraw(x) \/ Pause(x) \/ Resume(x) \/ TimeoutArchive(x)
    BY <1>2 DEF Start, Withdraw, Pause, Resume, TimeoutArchive, Save, Untouched, TypeOK
  <1>3. CASE Advance(x)
    BY <1>1, <1>3 DEF Advance, Save, Untouched, TypeOK
  <1>4. CASE \E t \in Links : Jump(x, t)
    BY <1>1, <1>4 DEF Jump
  <1>5. CASE SoftReject(x)
    BY <1>5 DEF SoftReject, Untouched, TypeOK
  <1>6. CASE \/ \E q \in Processes : UpgradeVersion(x, q)
             \/ \E q \in Processes, l \in Links : ChangeProcess(x, q, l)
    BY <1>6 DEF UpgradeVersion, ChangeProcess, Repoint, Save, Untouched, TypeOK
  <1> QED BY <1>2, <1>3, <1>4, <1>5, <1>6 DEF Request

(* A request on a fresh instance leaves every claim and every code as it   *)
(* is.                                                                     *)
LEMMA FreshKeepsClaim ==
    ASSUME TypeOK, NEW a \in Apps, Request(View(a)), NEW b \in Apps
    PROVE  row'[b].grabber = row[b].grabber /\ row'[b].code = row[b].code
  <1> DEFINE x == View(a)
  <1>1. /\ x \in Instance /\ x.app = a /\ x.row = row[a] /\ row[a] \in Row
    BY ViewIsInstance DEF View, TypeOK
  <1>2. SUFFICES row'[a].grabber = row[a].grabber /\ row'[a].code = row[a].code
    BY <1>1, RequestLocal DEF Untouched
  <1>3. ASSUME NEW s \in ApplicationState, Save(a, [x.row EXCEPT !.state = s])
        PROVE  row'[a].grabber = row[a].grabber /\ row'[a].code = row[a].code
    <2>1. /\ [x.row EXCEPT !.state = s] \in Row
          /\ [x.row EXCEPT !.state = s].grabber = row[a].grabber
          /\ [x.row EXCEPT !.state = s].code = row[a].code
      BY <1>1 DEF Row
    <2> QED BY <1>3, <2>1, SaveType
  <1>4. ASSUME NEW before, NEW open, NEW t, x.row.state \in MovableStates,
               EnterStage(x, before, open, t)
        PROVE  row'[a].grabber = row[a].grabber /\ row'[a].code = row[a].code
    <2>1. PICK S \in SUBSET LinksOf(x.row.proc) :
          \E l \in S, s \in {x.row.state, "TIMEOUT"},
             r \in {"PENDING", "TO_BE_SCHEDULED", "ARCHIVED", "SKIPPED"} :
              Entered(x, before, open, S, l, r, s)
      BY <1>4, StageEntered
    <2>2. PICK l \in S, s \in {x.row.state, "TIMEOUT"} :
              Save(a, Moved(row[a], l, s))
      BY <1>1, <2>1 DEF Entered
    <2>3. l \in Links /\ s \in ApplicationState
      BY <1>4 DEF LinksOf, MovableStates, ApplicationState
    <2> QED BY <1>1, <2>2, <2>3, MovedRow, SaveType
  <1>10. CASE Start(x)
    <2> DEFINE m == [row[a] EXCEPT !.state = "ACTIVE", !.advanced = TRUE]
    <2>1. m \in Row /\ m.grabber = row[a].grabber /\ m.code = row[a].code
      BY <1>1, StartedRow
    <2>2. Save(a, m)
      BY <1>1, <1>10 DEF Start
    <2> HIDE DEF m
    <2> QED BY <2>1, <2>2, SaveType
  <1>5. CASE Withdraw(x) \/ Pause(x) \/ Resume(x) \/ TimeoutArchive(x)
    BY <1>1, <1>3, <1>5
    DEF Withdraw, Pause, Resume, TimeoutArchive, ApplicationFSM, ApplicationState
  <1>6. CASE Advance(x)
    BY <1>1, <1>3, <1>4, <1>6 DEF Advance, ApplicationFSM, ApplicationState
  <1>7. CASE \E t \in Links : Jump(x, t)
    BY <1>4, <1>7 DEF Jump
  <1>8. CASE SoftReject(x)
    BY <1>8 DEF SoftReject
  <1>9. CASE \/ \E q \in Processes : UpgradeVersion(x, q)
             \/ \E q \in Processes, l \in Links : ChangeProcess(x, q, l)
    <2>1. PICK q \in Processes, l \in Links : Repoint(a, q, l)
      BY <1>1, <1>9
      DEF UpgradeVersion, ChangeProcess, Landing, FirstOf, LastOf, LinksOf
    <2> QED BY <1>1, <2>1, RepointedRow, SaveType DEF Repoint
  <1> QED BY <1>5, <1>6, <1>7, <1>8, <1>9, <1>10 DEF Request

-----------------------------------------------------------------------------
(* What a request does to the states of applications and candidates.       *)

LEMMA SaveState ==
    ASSUME TypeOK, NEW a \in Apps, NEW r \in Row, Save(a, r)
    PROVE  stateOf' = [stateOf EXCEPT ![a] = r.state]
  BY SaveType DEF stateOf, TypeOK

LEMMA StateOfType ==
    TypeOK => stateOf \in [Apps -> ApplicationState \cup {"ABSENT"}]
  BY DEF TypeOK, stateOf, Row

(* The request takes one transition of x's application, of its candidate   *)
(* or of both, from the state x was loaded with, or saves that state anew. *)
Effect(x) ==
    LET a == x.app
        c == CandidateOf[a]
        Becomes(s) == stateOf' = [stateOf EXCEPT ![a] = s]
    IN  \/ /\ x.row.state = "PENDING"
           /\ Becomes("ACTIVE")
           /\ IF x.cand = "APPLIED" THEN SetCandidate(c, "IN_PROCESS")
                                    ELSE UNCHANGED cand
        \/ /\ x.row.state \in ApplicationFSM.withdraw.from
           /\ x.cand \in CandidateFSM.withdraw.from
           /\ Becomes("WITHDRAWN")
           /\ SetCandidate(c, "WITHDRAWN")
        \/ /\ \E m \in {"send_offer_state", "pause", "resume", "timeout_archive"} :
                  /\ x.row.state \in ApplicationFSM[m].from
                  /\ Becomes(ApplicationFSM[m].to)
           /\ UNCHANGED cand
        \/ /\ x.row.state \in MovableStates
           /\ Becomes(x.row.state)
           /\ UNCHANGED cand
        \/ /\ cand[c] \in CandidateFSM.move_to_pool.from
           /\ SetCandidate(c, "TALENT_POOL")
           /\ UNCHANGED stateOf
        \/ UNCHANGED <<stateOf, cand>>

LEMMA EnterStageEffect ==
    ASSUME TypeOK, NEW x \in Instance, x.row.state \in MovableStates,
           NEW before, NEW open, NEW t, EnterStage(x, before, open, t)
    PROVE  Effect(x)
  <1>1. PICK S \in SUBSET LinksOf(x.row.proc) :
        \E l \in S, s \in {x.row.state, "TIMEOUT"},
           r \in {"PENDING", "TO_BE_SCHEDULED", "ARCHIVED", "SKIPPED"} :
            Entered(x, before, open, S, l, r, s)
    BY StageEntered
  <1>2. PICK l \in S, s \in {x.row.state, "TIMEOUT"} :
            Save(x.app, Moved(x.row, l, s)) /\ UNCHANGED cand
    BY <1>1 DEF Entered
  <1>3. /\ x.app \in Apps /\ x.row \in Row /\ l \in Links
        /\ s \in ApplicationState \cup {"ABSENT"}
    BY DEF Instance, Row, LinksOf, ApplicationState
  <1>4. stateOf' = [stateOf EXCEPT ![x.app] = s]
    BY <1>2, <1>3, MovedRow, SaveState
  <1>5. CASE s = x.row.state
    BY <1>2, <1>4, <1>5 DEF Effect
  <1>6. CASE s = "TIMEOUT"
    <2>1. /\ x.row.state \in ApplicationFSM["timeout_archive"].from
          /\ ApplicationFSM["timeout_archive"].to = "TIMEOUT"
      BY DEF ApplicationFSM, MovableStates
    <2> QED BY <1>2, <1>4, <1>6, <2>1 DEF Effect
  <1> QED BY <1>5, <1>6

LEMMA RequestEffect ==
    ASSUME TypeOK, NEW x \in Instance, Request(x)
    PROVE  Effect(x)
  <1>1. /\ x.app \in Apps /\ x.row \in Row /\ row[x.app] \in Row
        /\ CandidateOf[x.app] \in Candidates
    BY ApplicationAssumption DEF ApplicationAssumption, Instance, TypeOK
  <1>2. ASSUME NEW s \in ApplicationState, Save(x.app, [x.row EXCEPT !.state = s])
        PROVE  stateOf' = [stateOf EXCEPT ![x.app] = s]
    <2>1. [x.row EXCEPT !.state = s] \in Row /\ [x.row EXCEPT !.state = s].state = s
      BY <1>1 DEF Row
    <2> QED BY <1>1, <1>2, <2>1, SaveState
  <1>3. CASE Start(x)
    <2> DEFINE m == [x.row EXCEPT !.state = "ACTIVE", !.advanced = TRUE]
    <2>2. m \in Row /\ m.state = "ACTIVE" /\ Save(x.app, m)
      BY <1>1, <1>3, StartedRow DEF Start
    <2> HIDE DEF m
    <2>1. stateOf' = [stateOf EXCEPT ![x.app] = "ACTIVE"]
      BY <1>1, <2>2, SaveState
    <2> QED BY <1>3, <2>1 DEF Start, Effect
  <1>4. CASE Withdraw(x)
    <2>1. stateOf' = [stateOf EXCEPT ![x.app] = "WITHDRAWN"]
      BY <1>2, <1>4 DEF Withdraw, ApplicationFSM, ApplicationState
    <2> QED BY <1>4, <2>1 DEF Withdraw, Effect, CandidateFSM
  <1>5. ASSUME NEW m \in {"send_offer_state", "pause", "resume", "timeout_archive"},
               x.row.state \in ApplicationFSM[m].from,
               Save(x.app, [x.row EXCEPT !.state = ApplicationFSM[m].to]),
               UNCHANGED cand
        PROVE  Effect(x)
    <2>1. ApplicationFSM[m].to \in ApplicationState
      BY DEF ApplicationFSM, ApplicationState
    <2>2. stateOf' = [stateOf EXCEPT ![x.app] = ApplicationFSM[m].to]
      BY <1>2, <1>5, <2>1
    <2> QED BY <1>5, <2>2 DEF Effect
  <1>6. CASE Pause(x) \/ Resume(x) \/ TimeoutArchive(x)
    BY <1>5, <1>6
    DEF Pause, Resume, TimeoutArchive, ApplicationFSM, StaleTaskStates
  <1>7. CASE Advance(x)
    <2>1. CASE /\ x.row.state \in ApplicationFSM.send_offer_state.from
               /\ Save(x.app, [x.row EXCEPT
                          !.state = ApplicationFSM.send_offer_state.to])
               /\ UNCHANGED cand
      BY <1>5, <2>1 DEF ApplicationFSM
    <2>2. CASE /\ x.row.state \in MovableStates
               /\ \E before, open, t : EnterStage(x, before, open, t)
      BY <2>2, EnterStageEffect
    <2> QED BY <1>7, <2>1, <2>2 DEF Advance
  <1>8. CASE \E t \in Links : Jump(x, t)
    BY <1>8, EnterStageEffect DEF Jump
  <1>9. CASE SoftReject(x)
    BY <1>9 DEF SoftReject, Effect, stateOf, CandidateFSM
  <1>10. CASE \/ \E q \in Processes : UpgradeVersion(x, q)
              \/ \E q \in Processes, l \in Links : ChangeProcess(x, q, l)
    <2>1. PICK q \in Processes, l \in Links : Repoint(x.app, q, l)
      BY <1>10 DEF UpgradeVersion, ChangeProcess, Landing, FirstOf, LastOf, LinksOf
    <2>2. stateOf' = [stateOf EXCEPT ![x.app] = row[x.app].state]
      BY <1>1, <2>1, RepointedRow, SaveState DEF Repoint
    <2>3. stateOf' = stateOf
      BY <1>1, <2>2 DEF stateOf
    <2> QED BY <2>1, <2>3 DEF Repoint, Effect
  <1> QED BY <1>3, <1>4, <1>6, <1>7, <1>8, <1>9, <1>10 DEF Request

(* The effect of a request on a fresh instance.                            *)
LEMMA FreshEffect ==
    ASSUME TypeOK, NEW a \in Apps, Effect(View(a))
    PROVE  LET c == CandidateOf[a]
               Becomes(s) == stateOf' = [stateOf EXCEPT ![a] = s]
           IN  \/ /\ stateOf[a] = "PENDING"
                  /\ Becomes("ACTIVE")
                  /\ IF cand[c] = "APPLIED" THEN SetCandidate(c, "IN_PROCESS")
                                            ELSE UNCHANGED cand
               \/ /\ stateOf[a] \in ApplicationFSM.withdraw.from
                  /\ cand[c] \in CandidateFSM.withdraw.from
                  /\ Becomes("WITHDRAWN")
                  /\ SetCandidate(c, "WITHDRAWN")
               \/ /\ stateOf[a] \in {"PENDING", "ACTIVE", "PAUSED"}
                  /\ \E s \in {"ACTIVE", "PAUSED", "OFFER_SENT", "TIMEOUT"} : Becomes(s)
                  /\ UNCHANGED cand
               \/ /\ cand[c] \in CandidateFSM.move_to_pool.from
                  /\ SetCandidate(c, "TALENT_POOL")
                  /\ UNCHANGED stateOf
               \/ UNCHANGED <<stateOf, cand>>
  <1>1. View(a).app = a /\ View(a).row.state = stateOf[a]
        /\ View(a).cand = cand[CandidateOf[a]]
    BY DEF View, stateOf
  <1>2. stateOf = [stateOf EXCEPT ![a] = stateOf[a]]
    BY DEF stateOf
  <1>3. \A m \in {"send_offer_state", "pause", "resume", "timeout_archive"} :
            /\ ApplicationFSM[m].from \subseteq {"PENDING", "ACTIVE", "PAUSED"}
            /\ ApplicationFSM[m].to \in {"ACTIVE", "PAUSED", "OFFER_SENT", "TIMEOUT"}
    BY DEF ApplicationFSM
  <1> HIDE DEF stateOf
  <1> QED BY <1>1, <1>2, <1>3 DEF Effect

(* The codes of all applications, for what the steps do to them.           *)
codeOf == [a \in Apps |-> row[a].code]

LEMMA SaveCode ==
    ASSUME TypeOK, NEW a \in Apps, NEW r \in Row, Save(a, r)
    PROVE  codeOf' = [codeOf EXCEPT ![a] = r.code]
  BY SaveType DEF codeOf, TypeOK

LEMMA ClaimKeepsStates ==
    ASSUME TypeOK, Claim
    PROVE  UNCHANGED <<stateOf, codeOf, cand>>
  <1>1. PICK a \in Apps, v \in Users \cup {Nobody} :
            Save(a, [row[a] EXCEPT !.grabber = v]) /\ UNCHANGED cand
    BY DEF Claim, Grab, Release
  <1> DEFINE m == [row[a] EXCEPT !.grabber = v]
  <1>2. row[a] \in Row
    BY DEF TypeOK
  <1>3. m \in Row /\ m.state = row[a].state /\ m.code = row[a].code /\ Save(a, m)
    BY <1>1, <1>2 DEF Row
  <1> HIDE DEF m
  <1>4. /\ stateOf' = [stateOf EXCEPT ![a] = row[a].state]
        /\ codeOf' = [codeOf EXCEPT ![a] = row[a].code]
    BY <1>3, SaveState, SaveCode
  <1>5. stateOf' = stateOf
    BY <1>4 DEF stateOf
  <1>6. codeOf' = codeOf
    BY <1>4 DEF codeOf
  <1> QED BY <1>1, <1>5, <1>6

(* A new application appears in state s with code d.                       *)
Appears(a, s, d) ==
    /\ stateOf[a] = "ABSENT"
    /\ stateOf' = [stateOf EXCEPT ![a] = s]
    /\ codeOf' = [codeOf EXCEPT ![a] = d]
    /\ UNCHANGED cand

LEMMA SavedAppears ==
    ASSUME TypeOK, NEW a \in Apps, row[a].state = "ABSENT",
           NEW s \in ApplicationState, NEW p \in Processes,
           NEW l \in Links \cup {NoLink}, NEW d \in {"A", "APP"},
           Save(a, NewRow(s, p, l, d)), UNCHANGED cand
    PROVE  Appears(a, s, d)
  <1> DEFINE r == NewRow(s, p, l, d)
  <1>1. r \in Row /\ r.state = s /\ r.code = d
    BY NewRowType DEF NewRow
  <1>2. Save(a, r)
    OBVIOUS
  <1>3. stateOf' = [stateOf EXCEPT ![a] = s] /\ codeOf' = [codeOf EXCEPT ![a] = d]
    BY <1>1, <1>2, SaveState, SaveCode
  <1> QED BY <1>3 DEF Appears, stateOf

LEMMA InsertState ==
    ASSUME TypeOK, NEW a \in Apps, NEW p \in Processes, NEW l \in Links,
           InsertApplication(a, p, l)
    PROVE  Appears(a, "PENDING", "A")
  BY SavedAppears DEF InsertApplication, ApplicationState

LEMMA BulkState ==
    ASSUME TypeOK, NEW a \in Apps, NEW p \in Processes, BulkCreate(a, p)
    PROVE  Appears(a, "ACTIVE", "APP")
  BY SavedAppears DEF BulkCreate, ApplicationState

(* What bulk creation asks: the candidate has no application from it yet.  *)
FirstImport(a) ==
    \A b \in Apps : CandidateOf[b] = CandidateOf[a] => codeOf[b] # "APP"

(* Every step of the service, as its effect on the states.                 *)
LEMMA StepEffect ==
    ASSUME TypeOK, [Next]_vars
    PROVE  \/ \E a \in Apps : ~ Duplicate(a) /\ Appears(a, "PENDING", "A")
           \/ \E a \in Apps : FirstImport(a) /\ Appears(a, "ACTIVE", "APP")
           \/ (\E a \in Apps : Effect(View(a))) /\ UNCHANGED codeOf
           \/ /\ \E c \in Candidates, m \in DOMAIN CandidateFSM :
                     /\ cand[c] \in CandidateFSM[m].from
                     /\ SetCandidate(c, CandidateFSM[m].to)
              /\ UNCHANGED <<stateOf, codeOf>>
           \/ UNCHANGED <<stateOf, codeOf, cand>>
  <1>1. CASE \E a \in Apps, p \in Processes, l \in Links : Create(a, p, l)
    BY <1>1, InsertState DEF Create
  <1>2. CASE \E a \in Apps : Request(View(a))
    <2>1. PICK a \in Apps : Request(View(a))
      BY <1>2
    <2>2. Effect(View(a))
      BY <2>1, ViewIsInstance, RequestEffect
    <2>3. UNCHANGED codeOf
      BY <2>1, FreshKeepsClaim DEF codeOf
    <2> QED BY <2>2, <2>3
  <1>3. CASE \E c \in Candidates : CandidateTransition(c, cand[c])
    BY <1>3 DEF CandidateTransition, stateOf, codeOf
  <1>4. CASE Claim
    BY <1>4, ClaimKeepsStates
  <1>5. CASE UNCHANGED vars
    BY <1>5 DEF vars, stateOf, codeOf
  <1>6. CASE \E a \in Apps, p \in Processes : BulkCreate(a, p)
    <2>1. PICK a \in Apps, p \in Processes : BulkCreate(a, p)
      BY <1>6
    <2>2. FirstImport(a)
      BY <2>1 DEF BulkCreate, FirstImport, codeOf
    <2> QED BY <2>1, <2>2, BulkState
  <1> QED BY <1>1, <1>2, <1>3, <1>4, <1>5, <1>6 DEF Next

-----------------------------------------------------------------------------
(* The states of applications and of their candidates.                     *)

StartedStates == {"ACTIVE", "PAUSED", "OFFER_SENT"}

(* StartedMeansEntered of one application.                                 *)
Entry(a) ==
    codeOf[a] = "A" /\ stateOf[a] \in StartedStates => cand[CandidateOf[a]] # "APPLIED"

LEMMA EntryOfEach == StartedMeansEntered <=> \A a \in Apps : Entry(a)
  BY DEF StartedMeansEntered, Entry, StartedStates, stateOf, codeOf

LEMMA EffectStarted ==
    ASSUME TypeOK, NEW e \in Apps, Effect(View(e)), UNCHANGED codeOf,
           NEW b \in Apps, Entry(b)
    PROVE  Entry(b)'
  <1> DEFINE x == View(e)
  <1>1. /\ CandidateOf \in [Apps -> Candidates] /\ stateOf \in [Apps -> ApplicationState \cup {"ABSENT"}]
        /\ x.app = e /\ x.row.state = stateOf[e] /\ x.cand = cand[CandidateOf[e]]
    BY ApplicationAssumption, StateOfType DEF ApplicationAssumption, View, stateOf
  <1>2. \A c \in Candidates : cand[c] # "APPLIED" => cand'[c] # "APPLIED"
    BY <1>1 DEF Effect, SetCandidate, TypeOK
  <1>3. CASE stateOf'[b] = stateOf[b]
    BY <1>1, <1>2, <1>3 DEF Entry
  <1>4. CASE stateOf'[b] # stateOf[b]
    <2>1. b = e
      BY <1>1, <1>4 DEF Effect
    <2>2. CASE stateOf[e] = "PENDING" /\ stateOf' = [stateOf EXCEPT ![e] = "ACTIVE"]
               /\ IF cand[CandidateOf[e]] = "APPLIED"
                  THEN SetCandidate(CandidateOf[e], "IN_PROCESS") ELSE UNCHANGED cand
      BY <1>1, <2>1, <2>2 DEF SetCandidate, TypeOK, Entry
    <2>3. CASE stateOf[e] \in StartedStates
      BY <1>1, <1>2, <2>1, <2>3 DEF Entry
    <2>4. CASE stateOf'[e] \notin StartedStates
      BY <2>1, <2>4 DEF Entry
    <2> HIDE DEF Entry
    <2> QED BY <1>1, <1>4, <2>1, <2>2, <2>3, <2>4
            DEF Effect, ApplicationFSM, MovableStates, StartedStates
  <1> QED BY <1>3, <1>4

LEMMA NextStarted ==
    TypeOK /\ StartedMeansEntered /\ [Next]_vars => StartedMeansEntered'
  <1> SUFFICES ASSUME TypeOK, StartedMeansEntered, [Next]_vars, NEW b \in Apps
               PROVE  Entry(b)'
    BY EntryOfEach DEF StartedMeansEntered, Entry, StartedStates, stateOf, codeOf
  <1>1. CandidateOf \in [Apps -> Candidates] /\ Entry(b)
        /\ stateOf \in [Apps -> ApplicationState \cup {"ABSENT"}]
        /\ b \in DOMAIN codeOf
    BY ApplicationAssumption, EntryOfEach, StateOfType DEF ApplicationAssumption, codeOf
  <1>2. CASE (\E e \in Apps : Effect(View(e))) /\ UNCHANGED codeOf
    BY <1>1, <1>2, EffectStarted
  <1>3. CASE \E e \in Apps : \/ Appears(e, "PENDING", "A")
                            \/ Appears(e, "ACTIVE", "APP")
    <2> HIDE DEF stateOf, codeOf
    <2> QED BY <1>1, <1>3 DEF Appears, Entry, StartedStates
  <1>4. CASE /\ \E c \in Candidates, m \in DOMAIN CandidateFSM :
                   SetCandidate(c, CandidateFSM[m].to)
             /\ UNCHANGED <<stateOf, codeOf>>
    BY <1>1, <1>4, CandidateTargets DEF SetCandidate, Entry, TypeOK
  <1>5. CASE UNCHANGED <<stateOf, codeOf, cand>>
    BY <1>1, <1>5 DEF Entry
  <1> QED BY <1>2, <1>3, <1>4, <1>5, StepEffect

(* The candidate of an application that was started has entered a process, *)
(* and is never APPLIED again, while requests run one after another.  One  *)
(* created in bulk was not started.                                        *)
THEOREM StartedHaveEntered == Spec => []StartedMeansEntered
  <1>1. Init => StartedMeansEntered
    BY DEF Init, StartedMeansEntered, NoRow, NewRow
  <1> QED BY <1>1, NextStarted, TypeCorrect, PTL DEF Spec

LEMMA NextWithdrawn ==
    TypeOK /\ WithdrawnTogether /\ [Next]_vars => WithdrawnTogether'
  <1> SUFFICES ASSUME TypeOK, WithdrawnTogether, [Next]_vars,
                      NEW a \in Apps, stateOf'[a] = "WITHDRAWN"
               PROVE  cand'[CandidateOf[a]] = "WITHDRAWN"
    BY DEF WithdrawnTogether, stateOf
  <1>1. CandidateOf \in [Apps -> Candidates]
    BY ApplicationAssumption DEF ApplicationAssumption
  <1>2. stateOf[a] = "WITHDRAWN" => cand[CandidateOf[a]] = "WITHDRAWN"
    BY DEF WithdrawnTogether, stateOf
  <1>3. CASE \E b \in Apps : Effect(View(b))
    <2>1. PICK b \in Apps : Effect(View(b))
      BY <1>3
    <2>2. CASE stateOf[a] = "WITHDRAWN"
      BY <1>1, <1>2, <2>1, <2>2, FreshEffect DEF SetCandidate, TypeOK, CandidateFSM
    <2>3. CASE stateOf[a] # "WITHDRAWN"
      <3>1. cand' = [cand EXCEPT ![CandidateOf[a]] = "WITHDRAWN"]
        BY <2>1, <2>3, FreshEffect, StateOfType DEF SetCandidate
      <3> QED BY <1>1, <3>1 DEF TypeOK
    <2> QED BY <2>2, <2>3
  <1>4. CASE /\ \E c \in Candidates, m \in DOMAIN CandidateFSM :
                   /\ cand[c] \in CandidateFSM[m].from
                   /\ SetCandidate(c, CandidateFSM[m].to)
             /\ UNCHANGED stateOf
    <2>1. \A m \in DOMAIN CandidateFSM : "WITHDRAWN" \notin CandidateFSM[m].from
      BY DEF CandidateFSM
    <2> QED BY <1>1, <1>2, <1>4, <2>1 DEF SetCandidate, TypeOK, stateOf
  <1>5. CASE \E b \in Apps : \/ Appears(b, "PENDING", "A")
                            \/ Appears(b, "ACTIVE", "APP")
    BY <1>2, <1>5 DEF Appears, stateOf
  <1> QED BY <1>2, <1>3, <1>4, <1>5, StepEffect

(* An application is withdrawn together with its candidate, and both stay  *)
(* withdrawn.                                                              *)
THEOREM WithdrawnWithCandidate == Spec => []WithdrawnTogether
  <1>1. Init => WithdrawnTogether
    BY DEF Init, WithdrawnTogether, NoRow, NewRow
  <1> QED BY <1>1, NextWithdrawn, TypeCorrect, PTL DEF Spec

LEMMA NextOneLive ==
    TypeOK /\ OneLivePerPosition /\ [Next]_vars => OneLivePerPosition'
  <1> SUFFICES ASSUME TypeOK, OneLivePerPosition, [Next]_vars,
                      NEW a \in Apps, NEW b \in Apps, a # b,
                      CandidateOf[a] = CandidateOf[b],
                      PositionOf[a] = PositionOf[b],
                      stateOf'[a] \in Unfinished, stateOf'[b] \in Unfinished
               PROVE  codeOf'[a] # codeOf'[b]
    BY DEF OneLivePerPosition, stateOf, codeOf
  <1>1. stateOf[a] \in Unfinished /\ stateOf[b] \in Unfinished => codeOf[a] # codeOf[b]
    BY DEF OneLivePerPosition, stateOf, codeOf
  <1>2. Unfinished = LiveStates
    BY DEF Unfinished, LiveStates, ApplicationState
  <1>3. ASSUME NEW e \in Apps, NEW s, NEW d, Appears(e, s, d), NEW f \in Apps
        PROVE  IF f = e THEN codeOf'[f] = d
                        ELSE codeOf'[f] = codeOf[f] /\ stateOf'[f] = stateOf[f]
    BY <1>3 DEF Appears, codeOf, stateOf
  <1>4. CASE \E e \in Apps : ~ Duplicate(e) /\ Appears(e, "PENDING", "A")
    <2>1. PICK e \in Apps : ~ Duplicate(e) /\ Appears(e, "PENDING", "A")
      BY <1>4
    <2>2. a # e /\ b # e
      BY <1>2, <1>3, <2>1 DEF Duplicate, stateOf
    <2> QED BY <1>1, <1>3, <2>1, <2>2
  <1>5. CASE \E e \in Apps : FirstImport(e) /\ Appears(e, "ACTIVE", "APP")
    <2>1. PICK e \in Apps : FirstImport(e) /\ Appears(e, "ACTIVE", "APP")
      BY <1>5
    <2>2. codeOf[a] # "APP" \/ (a # e /\ b # e)
      BY <2>1 DEF FirstImport
    <2>3. codeOf[b] # "APP" \/ (a # e /\ b # e)
      BY <2>1 DEF FirstImport
    <2> QED BY <1>1, <1>3, <2>1, <2>2, <2>3
  <1>6. ASSUME NEW e \in Apps, Effect(View(e)), NEW d \in Apps,
               stateOf'[d] \in Unfinished
        PROVE  stateOf[d] \in Unfinished
    BY <1>6, FreshEffect, StateOfType
    DEF Unfinished, ApplicationState, ApplicationFSM
  <1>7. CASE (\E e \in Apps : Effect(View(e))) /\ UNCHANGED codeOf
    BY <1>1, <1>6, <1>7
  <1>8. CASE UNCHANGED <<stateOf, codeOf>>
    BY <1>1, <1>8
  <1> QED BY <1>4, <1>5, <1>7, <1>8, StepEffect

(* While requests run one after another, the duplicate check of            *)
(* create_application and the unique code of bulk creation leave a         *)
(* candidate at most two unfinished applications for a position, of two    *)
(* different kinds; no request brings an ended application back to life    *)
(* beside a newer one.                                                     *)
THEOREM OneLive == Spec => []OneLivePerPosition
  <1>1. Init => OneLivePerPosition
    BY DEF Init, OneLivePerPosition, NoRow, NewRow, Unfinished, ApplicationState
  <1> QED BY <1>1, NextOneLive, TypeCorrect, PTL DEF Spec

(* The terminal states are final, for requests that are not overtaken.     *)
THEOREM TerminalStaysFinal == Spec => TerminalIsFinal
  <1>1. ASSUME TypeOK, [Next]_vars, NEW a \in Apps,
               stateOf[a] \in {"WITHDRAWN", "TIMEOUT"}
        PROVE  stateOf'[a] = stateOf[a]
    <2>1. CASE \E e \in Apps : Effect(View(e))
      BY <1>1, <2>1, FreshEffect, StateOfType DEF ApplicationFSM
    <2>2. CASE \E e \in Apps : \/ Appears(e, "PENDING", "A")
                              \/ Appears(e, "ACTIVE", "APP")
      BY <1>1, <2>2 DEF Appears, stateOf
    <2> QED BY <1>1, <2>1, <2>2, StepEffect
  <1>2. TypeOK /\ [Next]_vars =>
            [\A a \in Apps : row[a].state \in {"WITHDRAWN", "TIMEOUT"} =>
                 row'[a].state = row[a].state]_vars
    BY <1>1 DEF stateOf
  <1> QED BY <1>2, TypeCorrect, PTL DEF Spec, TerminalIsFinal

-----------------------------------------------------------------------------
(* The service implements ApplicationPromise.                              *)

LEMMA StepKeepsPromise ==
    ASSUME TypeOK, [Next]_vars
    PROVE  [Promise!Next]_<<stateOf, cand>>
  <1>1. CASE \E a \in Apps : \/ Appears(a, "PENDING", "A")
                            \/ Appears(a, "ACTIVE", "APP")
    BY <1>1 DEF Appears, Promise!Next, Promise!Apply, Promise!Import
  <1>2. ASSUME NEW a \in Apps, Effect(View(a))
        PROVE  [Promise!Next]_<<stateOf, cand>>
    <2> DEFINE Becomes(s) == stateOf' = [stateOf EXCEPT ![a] = s]
    <2>1. View(a).app = a /\ View(a).row.state = stateOf[a]
          /\ View(a).cand = cand[CandidateOf[a]]
      BY DEF View, stateOf
    <2>2. CASE /\ stateOf[a] = "PENDING"
               /\ Becomes("ACTIVE")
               /\ IF cand[CandidateOf[a]] = "APPLIED"
                  THEN SetCandidate(CandidateOf[a], "IN_PROCESS") ELSE UNCHANGED cand
      <3>1. Promise!Start(a)
        BY <2>2 DEF Promise!Start, Promise!ApplicationFSM, Promise!CandidateFSM,
                    SetCandidate
      <3> QED BY <3>1 DEF Promise!Next
    <2>3. CASE /\ stateOf[a] \in ApplicationFSM.withdraw.from
               /\ cand[CandidateOf[a]] \in CandidateFSM.withdraw.from
               /\ Becomes("WITHDRAWN")
               /\ SetCandidate(CandidateOf[a], "WITHDRAWN")
      <3>1. Promise!Withdraw(a)
        BY <2>3 DEF Promise!Withdraw, Promise!ApplicationFSM, Promise!CandidateFSM,
                    SetCandidate, ApplicationFSM, CandidateFSM
      <3> QED BY <3>1 DEF Promise!Next
    <2>4. CASE /\ \E m \in {"send_offer_state", "pause", "resume", "timeout_archive"} :
                     /\ stateOf[a] \in ApplicationFSM[m].from
                     /\ Becomes(ApplicationFSM[m].to)
               /\ UNCHANGED cand
      <3>1. {"send_offer_state", "pause", "resume", "timeout_archive"}
                \subseteq DOMAIN Promise!ApplicationFSM \ {"start", "withdraw"}
        BY DEF Promise!ApplicationFSM
      <3>2. Promise!ApplicationFSM = ApplicationFSM
        BY DEF Promise!ApplicationFSM, ApplicationFSM
      <3>3. Promise!ApplicationStep(a)
        BY <2>4, <3>1, <3>2 DEF Promise!ApplicationStep
      <3> QED BY <3>3 DEF Promise!Next
    <2>5. CASE Becomes(stateOf[a]) /\ UNCHANGED cand
      BY <2>5, StateOfType
    <2>6. CASE /\ cand[CandidateOf[a]] \in CandidateFSM.move_to_pool.from
               /\ SetCandidate(CandidateOf[a], "TALENT_POOL")
               /\ UNCHANGED stateOf
      <3>1. /\ Promise!CandidateFSM = CandidateFSM
            /\ "move_to_pool" \in DOMAIN CandidateFSM
            /\ CandidateFSM["move_to_pool"].to = "TALENT_POOL"
            /\ CandidateFSM.move_to_pool = CandidateFSM["move_to_pool"]
        BY DEF Promise!CandidateFSM, CandidateFSM
      <3>2. Promise!CandidateStep(CandidateOf[a])
        BY <2>6, <3>1 DEF Promise!CandidateStep, SetCandidate
      <3>3. CandidateOf[a] \in Candidates
        BY ApplicationAssumption DEF ApplicationAssumption
      <3> QED BY <3>2, <3>3 DEF Promise!Next
    <2>7. CASE UNCHANGED <<stateOf, cand>>
      BY <2>7
    <2> QED BY <1>2, <2>1, <2>2, <2>3, <2>4, <2>5, <2>6, <2>7 DEF Effect
  <1>3. CASE /\ \E c \in Candidates, m \in DOMAIN CandidateFSM :
                   /\ cand[c] \in CandidateFSM[m].from
                   /\ SetCandidate(c, CandidateFSM[m].to)
             /\ UNCHANGED stateOf
    <2>1. Promise!CandidateFSM = CandidateFSM
      BY DEF Promise!CandidateFSM, CandidateFSM
    <2>2. PICK c \in Candidates : Promise!CandidateStep(c)
      BY <1>3, <2>1 DEF Promise!CandidateStep, SetCandidate
    <2> QED BY <2>2 DEF Promise!Next
  <1>4. CASE UNCHANGED <<stateOf, cand>>
    BY <1>4
  <1> QED BY <1>1, <1>2, <1>3, <1>4, StepEffect

(* With its stages, records and claims hidden, the service takes only the  *)
(* steps its two state machines declare, one of them at a time or coupled  *)
(* as start and withdraw couple them.                                      *)
THEOREM ServiceKeepsPromise == Spec => KeepsPromise
  <1>1. Init => Promise!Init
    BY DEF Init, Promise!Init, stateOf, NoRow, NewRow
  <1>2. TypeOK /\ [Next]_vars => [Promise!Next]_<<stateOf, cand>>
    BY StepKeepsPromise
  <1> QED BY <1>1, <1>2, TypeCorrect, PTL DEF Spec, KeepsPromise, Promise!Spec

=============================================================================
