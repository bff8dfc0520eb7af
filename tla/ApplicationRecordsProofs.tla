---------------------- MODULE ApplicationRecordsProofs ----------------------
(***************************************************************************)
(* Theorems about the stage records and the claims of applications: what a *)
(* withdrawal closes, in any catalogue; and, for an application that stays *)
(* in one process, that only its current stage is open, that a live one    *)
(* has a record to work on, and that a verdict is kept.                    *)
(***************************************************************************)
EXTENDS ApplicationLifecycleProofs

-----------------------------------------------------------------------------
(* A withdrawn application has nothing open.                               *)

Closed(a) ==
    row[a].state = "WITHDRAWN" =>
        /\ stray[a] = {}
        /\ \A l \in Links : rec[a][l] \notin OpenStates

(* No request, fresh or stale, opens a record of an application it leaves  *)
(* WITHDRAWN: the save that opens one also brings back a live state.       *)
LEMMA RequestClosed ==
    ASSUME TypeOK, WithdrawnClosesAll, NEW x \in Instance, Request(x)
    PROVE  WithdrawnClosesAll'
  <1> DEFINE a == x.app
  <1>1. a \in Apps /\ x.row \in Row /\ row[a] \in Row /\ Closed(a)
    BY DEF Instance, TypeOK, Closed, WithdrawnClosesAll
  <1>2. SUFFICES Closed(a)'
    BY RequestLocal DEF Untouched, WithdrawnClosesAll, Closed
  <1>3. ASSUME NEW s \in ApplicationState \ {"WITHDRAWN"},
               Save(a, [x.row EXCEPT !.state = s])
        PROVE  Closed(a)'
    <2>1. /\ [x.row EXCEPT !.state = s] \in Row
          /\ [x.row EXCEPT !.state = s].state = s
      BY <1>1 DEF Row
    <2> QED BY <1>1, <1>3, <2>1, SaveType DEF Closed
  <1>4. ASSUME NEW before, NEW open, NEW t, x.row.state \in MovableStates,
               EnterStage(x, before, open, t)
        PROVE  Closed(a)'
    <2>1. PICK S \in SUBSET LinksOf(x.row.proc) :
          \E l \in S, s \in {x.row.state, "TIMEOUT"},
             r \in {"PENDING", "TO_BE_SCHEDULED", "ARCHIVED", "SKIPPED"} :
              Entered(x, before, open, S, l, r, s)
      BY <1>4, StageEntered
    <2>2. PICK l \in S, s \in {x.row.state, "TIMEOUT"} :
              Save(a, Moved(x.row, l, s))
      BY <2>1 DEF Entered
    <2>3. l \in Links /\ s \in ApplicationState /\ s # "WITHDRAWN"
      BY <1>4 DEF LinksOf, MovableStates, ApplicationState
    <2>4. Moved(x.row, l, s) \in Row /\ Moved(x.row, l, s).state = s
      BY <1>1, <2>3, MovedRow
    <2> QED BY <1>1, <2>2, <2>3, <2>4, SaveType DEF Closed
  <1>11. CASE Start(x)
    <2> DEFINE m == [x.row EXCEPT !.state = "ACTIVE", !.advanced = TRUE]
    <2>1. m \in Row /\ m.state = "ACTIVE" /\ Save(a, m)
      BY <1>1, <1>11, StartedRow DEF Start
    <2> HIDE DEF m
    <2> QED BY <1>1, <2>1, SaveType DEF Closed
  <1>5. CASE Pause(x) \/ Resume(x) \/ TimeoutArchive(x)
    BY <1>3, <1>5
    DEF Pause, Resume, TimeoutArchive, ApplicationFSM, ApplicationState
  <1>6. CASE Advance(x)
    BY <1>3, <1>4, <1>6 DEF Advance, ApplicationFSM, ApplicationState
  <1>7. CASE \E t \in Links : Jump(x, t)
    BY <1>4, <1>7 DEF Jump
  <1>8. CASE SoftReject(x)
    BY <1>1, <1>8 DEF SoftReject, Closed, OpenStates, TypeOK
  <1>9. CASE Withdraw(x)
    <2>1. rec'[a] = ClosedByWithdrawal(x) /\ stray'[a] = {}
      BY <1>1, <1>9 DEF Withdraw, TypeOK
    <2> QED BY <2>1 DEF ClosedByWithdrawal, Closed, OpenStates
  <1>10. CASE \/ \E q \in Processes : UpgradeVersion(x, q)
              \/ \E q \in Processes, l \in Links : ChangeProcess(x, q, l)
    <2>1. PICK q \in Processes, l \in Links : Repoint(a, q, l)
      BY <1>10 DEF UpgradeVersion, ChangeProcess, Landing, FirstOf, LastOf, LinksOf
    <2>2. row'[a].state = row[a].state
      BY <1>1, <2>1, RepointedRow, SaveType DEF Repoint
    <2> QED BY <1>1, <2>1, <2>2 DEF Repoint, Closed
  <1> QED BY <1>5, <1>6, <1>7, <1>8, <1>9, <1>10, <1>11 DEF Request

LEMMA InsertClosed ==
    ASSUME TypeOK, WithdrawnClosesAll, NEW a \in Apps, NEW p \in Processes,
           NEW l \in Links, InsertApplication(a, p, l)
    PROVE  WithdrawnClosesAll'
  BY DEF InsertApplication, NewRow, Save, WithdrawnClosesAll, TypeOK

LEMMA BulkClosed ==
    ASSUME TypeOK, WithdrawnClosesAll, NEW a \in Apps, NEW p \in Processes,
           BulkCreate(a, p)
    PROVE  WithdrawnClosesAll'
  BY DEF BulkCreate, NewRow, Save, WithdrawnClosesAll, TypeOK

(* A claim works on an ACTIVE application only, and a release opens        *)
(* nothing.                                                                *)
LEMMA ClaimClosed ==
    ASSUME TypeOK, WithdrawnClosesAll, Claim
    PROVE  WithdrawnClosesAll'
  <1>1. PICK a \in Apps, u \in Users : Grab(a, u) \/ Release(a, u)
    BY DEF Claim
  <1>2. row[a] \in Row
    BY DEF TypeOK
  <1>3. row'[a].state = row[a].state
        /\ \A b \in Apps \ {a} : row'[b] = row[b] /\ rec'[b] = rec[b]
    BY <1>1, <1>2 DEF Grab, Release, Save, TypeOK, Row
  <1>4. row[a].state = "ACTIVE" \/ UNCHANGED rec
    BY <1>1 DEF Grab, Release
  <1> QED BY <1>1, <1>3, <1>4 DEF Grab, Release, WithdrawnClosesAll

LEMMA NextClosed ==
    TypeOK /\ WithdrawnClosesAll /\ [Next]_vars => WithdrawnClosesAll'
  <1> SUFFICES ASSUME TypeOK, WithdrawnClosesAll, [Next]_vars
               PROVE  WithdrawnClosesAll'
    OBVIOUS
  <1>1. CASE \E a \in Apps, p \in Processes, l \in Links : Create(a, p, l)
    BY <1>1, InsertClosed DEF Create
  <1>2. CASE \E a \in Apps : Request(View(a))
    BY <1>2, ViewIsInstance, RequestClosed
  <1>3. CASE Claim
    BY <1>3, ClaimClosed
  <1>4. CASE \/ \E c \in Candidates : CandidateTransition(c, cand[c])
             \/ UNCHANGED vars
    BY <1>4 DEF CandidateTransition, vars, WithdrawnClosesAll
  <1>5. CASE \E a \in Apps, p \in Processes : BulkCreate(a, p)
    BY <1>5, BulkClosed
  <1> QED BY <1>1, <1>2, <1>3, <1>4, <1>5 DEF Next

(* A withdrawn application has no open stage record, newest or older, on   *)
(* the links of any process it ever went through.                          *)
THEOREM WithdrawalCloses == Spec => []WithdrawnClosesAll
  <1>1. Init => WithdrawnClosesAll
    BY DEF Init, WithdrawnClosesAll, NoRow, NewRow
  <1> QED BY <1>1, NextClosed, TypeCorrect, PTL DEF Spec

-----------------------------------------------------------------------------
(* Claims.                                                                 *)

(* While requests run one after another, a claim passes from one user to   *)
(* another only by being released in between.                              *)
THEOREM ClaimsNotStolen == Spec => ClaimNotStolen
  <1>1. ASSUME TypeOK, [Next]_vars, NEW b \in Apps, row[b].grabber # Nobody
        PROVE  row'[b].grabber \in {row[b].grabber, Nobody}
    <2>1. CASE \E a \in Apps, p \in Processes, l \in Links : Create(a, p, l)
      <3>1. PICK a \in Apps, p \in Processes, l \in Links : InsertApplication(a, p, l)
        BY <2>1 DEF Create
      <3>2. row[a].state = "ABSENT" /\ row'[a].grabber = Nobody
            /\ (b # a => row'[b] = row[b])
        BY <1>1, <3>1 DEF InsertApplication, NewRow, Save, TypeOK
      <3> QED BY <3>2
    <2>5. CASE \E a \in Apps, p \in Processes : BulkCreate(a, p)
      <3>1. PICK a \in Apps : /\ row'[a].grabber = Nobody
                              /\ b # a => row'[b] = row[b]
        BY <1>1, <2>5 DEF BulkCreate, NewRow, Save, TypeOK
      <3> QED BY <3>1
    <2>2. CASE \E a \in Apps : Request(View(a))
      BY <1>1, <2>2, FreshKeepsClaim
    <2>3. CASE Claim
      <3>1. PICK a \in Apps, u \in Users : Grab(a, u) \/ Release(a, u)
        BY <2>3 DEF Claim
      <3>2. row[a] \in Row
        BY <1>1 DEF TypeOK
      <3>3. \A v \in Users \cup {Nobody} :
                /\ [row[a] EXCEPT !.grabber = v] \in Row
                /\ [row[a] EXCEPT !.grabber = v].grabber = v
        BY <3>2 DEF Row
      <3>4. CASE a = b
        <4>1. Save(a, [row[a] EXCEPT !.grabber = Nobody])
          BY <1>1, <3>1, <3>4 DEF Grab, Release
        <4> QED BY <1>1, <3>3, <3>4, <4>1, SaveType
      <3>5. CASE a # b
        <4>1. \E v \in Users \cup {Nobody} : Save(a, [row[a] EXCEPT !.grabber = v])
          BY <3>1 DEF Grab, Release
        <4> QED BY <1>1, <3>3, <3>5, <4>1, SaveType
      <3> QED BY <3>4, <3>5
    <2>4. CASE \/ \E c \in Candidates : CandidateTransition(c, cand[c])
               \/ UNCHANGED vars
      BY <2>4 DEF CandidateTransition, vars
    <2> QED BY <1>1, <2>1, <2>2, <2>3, <2>4, <2>5 DEF Next
  <1>2. TypeOK /\ [Next]_vars =>
            [\A a \in Apps : row[a].grabber # Nobody =>
                 row'[a].grabber \in {row[a].grabber, Nobody}]_vars
    BY <1>1
  <1> QED BY <1>2, TypeCorrect, PTL DEF Spec, ClaimNotStolen

-----------------------------------------------------------------------------
(* An application that stays in one process.                               *)

(* The inductive invariant of an application a: one that was not created   *)
(* has no record, which creation relies on; no link but the current one is *)
(* open, which makes the offer and the timeout leave nothing open; the     *)
(* current one is neither missing nor PASSED while the application lives;  *)
(* and an application that stands at no link has no record anywhere.       *)
InPlace(a) ==
    LET r == row[a]
    IN  /\ r.state = "ABSENT" => \A l \in Links : rec[a][l] = "NONE"
        /\ stray[a] = {}
        /\ \A l \in Links : rec[a][l] \in OpenStates => l = r.link
        /\ r.state \in {"PENDING", "ACTIVE", "PAUSED"} /\ r.link # NoLink =>
               rec[a][r.link] \notin {"NONE", "PASSED"}
        /\ r.link = NoLink => \A l \in Links : rec[a][l] = "NONE"
        /\ r.link = NoLink /\ r.state # "ABSENT" => r.code = "APP"
        /\ r.state \in {"OFFER_SENT", "WITHDRAWN", "TIMEOUT"} =>
               \A l \in Links : rec[a][l] \notin OpenStates
        /\ r.state = "OFFER_SENT" =>
               /\ r.link # NoLink
               /\ rec[a][r.link] = "PASSED" /\ NextLinks(r.proc, r.link) = {}

AllInPlace == \A a \in Apps : InPlace(a)

(* Entering a stage from records of which none is open.                    *)
LEMMA EnterStageInPlace ==
    ASSUME TypeOK, NEW a \in Apps, row[a].state \in MovableStates,
           NEW before \in [Links -> RecordState],
           \A l \in Links : before[l] \notin OpenStates,
           NEW t, EnterStage(View(a), before, {}, t)
    PROVE  InPlace(a)'
  <1> DEFINE x == View(a)
  <1>1. x.app = a /\ x.row = row[a] /\ row[a] \in Row
    BY DEF View, TypeOK
  <1>2. PICK S \in SUBSET LinksOf(x.row.proc) :
        \E l \in S, s \in {x.row.state, "TIMEOUT"},
           r \in {"PENDING", "TO_BE_SCHEDULED", "ARCHIVED", "SKIPPED"} :
            Entered(x, before, {}, S, l, r, s)
    BY StageEntered
  <1>3. PICK l \in S, s \in {x.row.state, "TIMEOUT"},
             r \in {"PENDING", "TO_BE_SCHEDULED", "ARCHIVED", "SKIPPED"} :
            Entered(x, before, {}, S, l, r, s)
    BY <1>2
  <1>4. S \subseteq Links /\ l \in Links
    BY DEF LinksOf
  <1>5. s \in {"PENDING", "ACTIVE", "TIMEOUT"} /\ (s = "TIMEOUT" => r = "ARCHIVED")
    BY <1>1, <1>3 DEF Entered, MovableStates
  <1>6. row'[a].state = s /\ row'[a].link = l
    <2>1. s \in ApplicationState \cup {"ABSENT"}
      BY <1>5 DEF ApplicationState
    <2> QED BY <1>1, <1>3, <1>4, <2>1, MovedRow, SaveType DEF Entered
  <1>7. rec'[a] = [k \in Links |-> IF k = l THEN r
                                   ELSE IF k \in S THEN "SKIPPED" ELSE before[k]]
    BY <1>1, <1>3 DEF Entered, TypeOK
  <1>8. stray'[a] = {}
    BY <1>1, <1>3, <1>4 DEF Entered, TypeOK
  <1>9. /\ rec'[a][l] = r
        /\ \A k \in Links : k # l => rec'[a][k] \notin OpenStates
    BY <1>4, <1>7 DEF OpenStates
  <1>10. r = "ARCHIVED" => r \notin OpenStates
    BY DEF OpenStates
  <1>11. l # NoLink
    BY <1>4, ApplicationAssumption DEF ApplicationAssumption
  <1> QED BY <1>4, <1>5, <1>6, <1>8, <1>9, <1>10, <1>11 DEF InPlace

LEMMA RequestInPlace ==
    ASSUME SingleProcess, TypeOK, AllInPlace, NEW a \in Apps,
           Request(View(a))
    PROVE  AllInPlace'
  <1> DEFINE x == View(a)
  <1>1. /\ x \in Instance /\ x.app = a /\ x.row = row[a]
        /\ row[a] \in Row /\ row[a].link \in Links \cup {NoLink}
        /\ row[a].proc \in Processes /\ InPlace(a)
    BY ViewIsInstance DEF View, TypeOK, Row, AllInPlace
  <1>2. SUFFICES InPlace(a)'
    BY <1>1, RequestLocal DEF Untouched, AllInPlace, InPlace
  <1>3. ASSUME NEW s \in ApplicationState, Save(a, [x.row EXCEPT !.state = s])
        PROVE  /\ row'[a].state = s
               /\ row'[a].link = row[a].link /\ row'[a].proc = row[a].proc
               /\ row'[a].code = row[a].code
    <2>1. /\ [x.row EXCEPT !.state = s] \in Row
          /\ [x.row EXCEPT !.state = s].state = s
          /\ [x.row EXCEPT !.state = s].link = row[a].link
          /\ [x.row EXCEPT !.state = s].proc = row[a].proc
          /\ [x.row EXCEPT !.state = s].code = row[a].code
      BY <1>1 DEF Row
    <2> QED BY <1>3, <2>1, SaveType
  <1>4. CASE Start(x) \/ Pause(x) \/ Resume(x)
    <2> DEFINE m == [row[a] EXCEPT !.state = "ACTIVE", !.advanced = TRUE]
    <2>3. /\ m \in Row /\ m.state = "ACTIVE" /\ m.link = row[a].link
          /\ m.proc = row[a].proc /\ m.code = row[a].code
          /\ Start(x) => Save(a, m)
      BY <1>1, StartedRow DEF Start
    <2> HIDE DEF m
    <2>1. \E s \in {"ACTIVE", "PAUSED"} :
             /\ row'[a].state = s
             /\ row'[a].link = row[a].link /\ row'[a].proc = row[a].proc
             /\ row'[a].code = row[a].code
      BY <1>1, <1>3, <1>4, <2>3, SaveType DEF Pause, Resume, ApplicationState
    <2>2. row[a].state \in {"PENDING", "ACTIVE", "PAUSED"} /\ UNCHANGED <<rec, stray>>
      BY <1>1, <1>4 DEF Start, Pause, Resume
    <2> QED BY <1>1, <2>1, <2>2 DEF InPlace
  <1>5. CASE Advance(x)
    <2> DEFINE passed == [rec[a] EXCEPT ![row[a].link] = "PASSED"]
    <2>5. row[a].link \in Links /\ row[a].link # NoLink
      BY <1>1, <1>5 DEF Advance, HasRecord
    <2>1. /\ passed \in [Links -> RecordState]
          /\ \A l \in Links : passed[l] \notin OpenStates
          /\ passed[row[a].link] = "PASSED"
      BY <1>1, <2>5 DEF TypeOK, RecordState, StageState, InPlace, OpenStates
    <2>2. row[a].state \in MovableStates /\ stray[a] = {}
      BY <1>1, <1>5 DEF Advance, InPlace
    <2>3. CASE \E t : EnterStage(x, passed, {}, t)
      BY <2>1, <2>2, <2>3, EnterStageInPlace
    <2>4. CASE /\ NextLinks(row[a].proc, row[a].link) = {}
               /\ Save(a, [x.row EXCEPT !.state = "OFFER_SENT"])
               /\ rec' = [rec EXCEPT ![a] = passed]
               /\ UNCHANGED stray
      <3>1. /\ row'[a].state = "OFFER_SENT"
            /\ row'[a].link = row[a].link /\ row'[a].proc = row[a].proc
        BY <1>3, <2>4 DEF ApplicationState
      <3>2. rec'[a] = passed /\ stray'[a] = {}
        BY <2>2, <2>4 DEF TypeOK
      <3> HIDE DEF passed
      <3> QED BY <2>1, <2>4, <2>5, <3>1, <3>2 DEF InPlace
    <2> QED BY <1>1, <1>5, <2>2, <2>3, <2>4 DEF Advance, ApplicationFSM
  <1>6. CASE \E t \in Links : Jump(x, t)
    <2>1. PICK t \in Links : Jump(x, t)
      BY <1>6
    <2>2. \A l \in Links : JumpOver(x, t)[l] \notin OpenStates
      BY <1>1 DEF JumpOver, OpenStates, InPlace
    <2>3. {l \in stray[a] : Order[l] >= Order[t]} = {}
      BY <1>1 DEF InPlace
    <2>4. row[a].state \in MovableStates
          /\ EnterStage(x, JumpOver(x, t), {}, t)
      BY <1>1, <2>1, <2>3 DEF Jump
    <2> QED BY <1>1, <2>2, <2>4, JumpOverType, EnterStageInPlace
  <1>7. CASE SoftReject(x)
    <2>1. /\ row' = row /\ stray' = stray /\ row[a].state \in MovableStates
          /\ row[a].link \in Links /\ row[a].link # NoLink
          /\ rec'[a] = [rec[a] EXCEPT ![row[a].link] = "REJECTED"]
      BY <1>1, <1>7 DEF SoftReject, HasRecord, TypeOK
    <2> QED BY <1>1, <2>1 DEF InPlace, OpenStates, MovableStates, TypeOK
  <1>8. CASE Withdraw(x)
    <2>1. /\ row'[a].state = "WITHDRAWN" /\ row'[a].link = row[a].link
          /\ row'[a].code = row[a].code /\ row[a].state # "ABSENT"
      BY <1>1, <1>3, <1>8 DEF Withdraw, ApplicationFSM, ApplicationState
    <2>2. rec'[a] = ClosedByWithdrawal(x) /\ stray'[a] = {}
      BY <1>1, <1>8 DEF Withdraw, TypeOK
    <2>3. \A l \in Links : rec'[a][l] \notin OpenStates
      BY <2>2 DEF ClosedByWithdrawal, OpenStates
    <2>4. row[a].link = NoLink => \A l \in Links : rec'[a][l] = "NONE"
      BY <1>1, <2>2 DEF ClosedByWithdrawal, OpenStates, InPlace
    <2> QED BY <1>1, <2>1, <2>2, <2>3, <2>4 DEF InPlace
  <1>9. CASE TimeoutArchive(x)
    <2>1. /\ row'[a].state = "TIMEOUT" /\ row'[a].link = row[a].link
          /\ row'[a].code = row[a].code /\ row[a].state # "ABSENT"
      BY <1>1, <1>3, <1>9
      DEF TimeoutArchive, ApplicationFSM, ApplicationState, StaleTaskStates
    <2>2. /\ rec'[a] = [l \in Links |-> IF l = row[a].link
                                        THEN AfterTimeout(rec[a][l]) ELSE rec[a][l]]
          /\ stray'[a] = {}
      BY <1>1, <1>9 DEF TimeoutArchive, TypeOK, InPlace
    <2>3. \A l \in Links : rec'[a][l] \notin OpenStates
      BY <1>1, <2>2 DEF AfterTimeout, InPlace, OpenStates, TypeOK
    <2>4. row[a].link = NoLink => \A l \in Links : rec'[a][l] = "NONE"
      BY <1>1, <2>2 DEF AfterTimeout, InPlace
    <2> QED BY <1>1, <2>1, <2>2, <2>3, <2>4 DEF InPlace
  <1>10. ~ \/ \E q \in Processes : UpgradeVersion(x, q)
           \/ \E q \in Processes, l \in Links : ChangeProcess(x, q, l)
    BY <1>1 DEF SingleProcess, UpgradeVersion, UpgradeTargets, ChangeProcess
  <1> QED BY <1>4, <1>5, <1>6, <1>7, <1>8, <1>9, <1>10 DEF Request

LEMMA ClaimInPlace ==
    ASSUME TypeOK, AllInPlace, Claim
    PROVE  AllInPlace'
  <1>1. PICK a \in Apps, u \in Users : Grab(a, u) \/ Release(a, u)
    BY DEF Claim
  <1>2. row[a] \in Row /\ row[a].link \in Links \cup {NoLink} /\ InPlace(a)
    BY DEF TypeOK, Row, AllInPlace
  <1>3. /\ row'[a].state = row[a].state /\ row'[a].link = row[a].link
        /\ row'[a].proc = row[a].proc /\ row'[a].code = row[a].code
        /\ \A b \in Apps \ {a} : row'[b] = row[b] /\ rec'[b] = rec[b]
        /\ UNCHANGED stray
    BY <1>1, <1>2 DEF Grab, Release, Save, TypeOK, Row
  <1>4. \/ rec'[a] = rec[a]
        \/ /\ row[a].state = "ACTIVE" /\ row[a].link # NoLink
           /\ rec'[a] = [rec[a] EXCEPT ![row[a].link] = "PROCESSING"]
    BY <1>1, <1>2 DEF Grab, Release, HasRecord, TypeOK
  <1>5. InPlace(a)'
    BY <1>2, <1>3, <1>4 DEF InPlace, TypeOK, OpenStates
  <1> QED BY <1>3, <1>5 DEF AllInPlace, InPlace

LEMMA InsertInPlace ==
    ASSUME TypeOK, AllInPlace, NEW a \in Apps, NEW p \in Processes,
           NEW l \in Links, InsertApplication(a, p, l)
    PROVE  AllInPlace'
  <1>1. /\ row'[a].state = "PENDING" /\ row'[a].link = l
        /\ rec'[a] = [rec[a] EXCEPT ![l] = "PENDING"]
        /\ UNCHANGED stray
        /\ \A b \in Apps \ {a} : row'[b] = row[b] /\ rec'[b] = rec[b]
    BY DEF InsertApplication, NewRow, Save, TypeOK
  <1>2. InPlace(a) /\ row[a].state = "ABSENT" /\ l # NoLink
    BY ApplicationAssumption DEF ApplicationAssumption, AllInPlace, InsertApplication
  <1>3. InPlace(a)'
    BY <1>1, <1>2 DEF InPlace, TypeOK, OpenStates
  <1>4. ASSUME NEW b \in Apps, b # a
        PROVE  InPlace(b)'
    BY <1>1, <1>4 DEF AllInPlace, InPlace
  <1> QED BY <1>3, <1>4 DEF AllInPlace

LEMMA BulkInPlace ==
    ASSUME TypeOK, AllInPlace, NEW a \in Apps, NEW p \in Processes,
           BulkCreate(a, p)
    PROVE  AllInPlace'
  <1>1. /\ row'[a].state = "ACTIVE" /\ row'[a].link = NoLink /\ row'[a].code = "APP"
        /\ UNCHANGED <<rec, stray>>
        /\ \A b \in Apps \ {a} : row'[b] = row[b]
    BY DEF BulkCreate, NewRow, Save, TypeOK
  <1>2. InPlace(a) /\ row[a].state = "ABSENT"
    BY DEF AllInPlace, BulkCreate
  <1>3. InPlace(a)'
    BY <1>1, <1>2 DEF InPlace, OpenStates
  <1> QED BY <1>1, <1>3 DEF AllInPlace, InPlace

LEMMA NextInPlace ==
    SingleProcess /\ TypeOK /\ AllInPlace /\ [Next]_vars => AllInPlace'
  <1> SUFFICES ASSUME SingleProcess, TypeOK, AllInPlace, [Next]_vars
               PROVE  AllInPlace'
    OBVIOUS
  <1>1. CASE \E a \in Apps, p \in Processes, l \in Links : Create(a, p, l)
    BY <1>1, InsertInPlace DEF Create
  <1>2. CASE \E a \in Apps : Request(View(a))
    BY <1>2, RequestInPlace
  <1>3. CASE Claim
    BY <1>3, ClaimInPlace
  <1>4. CASE \/ \E c \in Candidates : CandidateTransition(c, cand[c])
             \/ UNCHANGED vars
    BY <1>4 DEF CandidateTransition, vars, AllInPlace, InPlace
  <1>5. CASE \E a \in Apps, p \in Processes : BulkCreate(a, p)
    BY <1>5, BulkInPlace
  <1> QED BY <1>1, <1>2, <1>3, <1>4, <1>5 DEF Next

(* In a catalogue of one process, only the stage an application is at is   *)
(* open, a live application has a record there that is not PASSED or, when *)
(* it was created in bulk and has not moved, no record at all, an ended    *)
(* one has nothing open, and an offer comes after the last stage.          *)
THEOREM StaysInPlace ==
    ASSUME SingleProcess
    PROVE  Spec => [](/\ OpenOnlyAtCurrent /\ LiveHasRecord
                      /\ NothingOpenAfterEnd /\ OfferAtTheEnd)
  <1>1. Init => AllInPlace
    BY DEF Init, AllInPlace, InPlace, NoRow, NewRow, OpenStates
  <1>2. TypeOK /\ AllInPlace /\ [Next]_vars => AllInPlace'
    BY NextInPlace
  <1>3. AllInPlace => /\ OpenOnlyAtCurrent /\ LiveHasRecord
                      /\ NothingOpenAfterEnd /\ OfferAtTheEnd
    BY DEF AllInPlace, InPlace, OpenOnlyAtCurrent, LiveHasRecord,
           NothingOpenAfterEnd, OfferAtTheEnd
  <1> QED BY <1>1, <1>2, <1>3, TypeCorrect, PTL DEF Spec

(* A live application has a record at its current stage to go on from; one *)
(* that has no current stage was created in bulk, and no record anywhere   *)
(* makes somebody wait for it.                                             *)
THEOREM LiveHaveRecord == ASSUME SingleProcess PROVE Spec => []LiveHasRecord
  BY StaysInPlace, PTL

(* Nothing of an ended application is left open.                           *)
THEOREM NothingLeftOpen == ASSUME SingleProcess PROVE Spec => []NothingOpenAfterEnd
  BY StaysInPlace, PTL

(* An offer is made after the last required stage.                         *)
THEOREM OfferComesLast == ASSUME SingleProcess PROVE Spec => []OfferAtTheEnd
  BY StaysInPlace, PTL

(* In a catalogue of one process a PASSED record is never reopened,        *)
(* rejected or timed out: whoever decides finds another record.            *)
THEOREM VerdictsKept ==
    ASSUME SingleProcess
    PROVE  Spec => PassedVerdictKept
  <1> DEFINE Kept == \A a \in Apps, l \in Links : rec[a][l] = "PASSED" =>
                        rec'[a][l] \notin {"PROCESSING", "REJECTED", "TIMEOUT"}
  <1>1. ASSUME TypeOK, NEW a \in Apps, NEW before \in [Links -> RecordState],
               \A l \in Links : rec[a][l] = "PASSED" => before[l] = "PASSED",
               NEW open, NEW t, EnterStage(View(a), before, open, t),
               NEW l \in Links, rec[a][l] = "PASSED"
        PROVE  rec'[a][l] \notin {"PROCESSING", "REJECTED", "TIMEOUT"}
    <2>1. PICK S \in SUBSET LinksOf(row[a].proc) :
          \E k \in S, s \in {row[a].state, "TIMEOUT"},
             r \in {"PENDING", "TO_BE_SCHEDULED", "ARCHIVED", "SKIPPED"} :
              Entered(View(a), before, open, S, k, r, s)
      BY <1>1, StageEntered DEF View
    <2>2. PICK k \in S, r \in {"PENDING", "TO_BE_SCHEDULED", "ARCHIVED", "SKIPPED"} :
              rec' = [rec EXCEPT ![a] =
                         [m \in Links |-> IF m = k THEN r
                                          ELSE IF m \in S THEN "SKIPPED"
                                          ELSE before[m]]]
      BY <2>1 DEF Entered, View
    <2> QED BY <1>1, <2>2 DEF TypeOK
  <1>2. ASSUME TypeOK, LiveHasRecord, NEW a \in Apps, Request(View(a)) PROVE Kept
    <2> DEFINE x == View(a)
    <2>1. /\ x \in Instance /\ x.app = a /\ x.row = row[a]
          /\ row[a] \in Row /\ row[a].link \in Links \cup {NoLink}
      BY <1>2, ViewIsInstance DEF View, TypeOK, Row
    <2>2. SUFFICES ASSUME NEW l \in Links, rec[a][l] = "PASSED"
                   PROVE  rec'[a][l] \notin {"PROCESSING", "REJECTED", "TIMEOUT"}
      BY <1>2, <2>1, RequestLocal DEF Untouched
    <2>3. CASE Advance(x)
      <3> DEFINE passed == [rec[a] EXCEPT ![row[a].link] = "PASSED"]
      <3>1. /\ passed \in [Links -> RecordState]
            /\ \A m \in Links : rec[a][m] = "PASSED" => passed[m] = "PASSED"
        BY <1>2, <2>1, <2>3 DEF Advance, HasRecord, TypeOK, RecordState, StageState
      <3>2. CASE \E t, open : EnterStage(x, passed, open, t)
        BY <1>1, <1>2, <2>2, <3>1, <3>2
      <3>3. CASE rec' = [rec EXCEPT ![a] = passed]
        BY <1>2, <2>2, <3>1, <3>3 DEF TypeOK
      <3> QED BY <2>1, <2>3, <3>2, <3>3 DEF Advance
    <2>4. CASE \E t \in Links : Jump(x, t)
      <3>1. PICK t \in Links : Jump(x, t)
        BY <2>4
      <3>2. \A m \in Links : rec[a][m] = "PASSED" => JumpOver(x, t)[m] = "PASSED"
        BY <2>1 DEF JumpOver
      <3>3. JumpOver(x, t) \in [Links -> RecordState]
        BY <1>2, <2>1, JumpOverType
      <3> QED BY <1>1, <1>2, <2>2, <3>1, <3>2, <3>3 DEF Jump
    <2>5. CASE SoftReject(x)
      <3>1. /\ row[a].state \in MovableStates /\ row[a].link # NoLink
            /\ rec' = [rec EXCEPT ![a][row[a].link] = "REJECTED"]
        BY <2>1, <2>5 DEF SoftReject, HasRecord
      <3>2. row[a].link # l
        BY <1>2, <2>2, <3>1 DEF LiveHasRecord, MovableStates
      <3> QED BY <1>2, <2>1, <2>2, <3>1, <3>2 DEF TypeOK
    <2>6. CASE Withdraw(x)
      BY <1>2, <2>1, <2>2, <2>6 DEF Withdraw, ClosedByWithdrawal, OpenStates, TypeOK
    <2>7. CASE TimeoutArchive(x)
      BY <1>2, <2>1, <2>2, <2>7 DEF TimeoutArchive, AfterTimeout, TypeOK
    <2>8. CASE UNCHANGED rec
      BY <2>2, <2>8
    <2> QED BY <1>2, <2>3, <2>4, <2>5, <2>6, <2>7, <2>8
            DEF Request, Start, Pause, Resume, UpgradeVersion, ChangeProcess, Repoint
  <1>3. ASSUME TypeOK, LiveHasRecord, Claim PROVE Kept
    <2>1. PICK a \in Apps, u \in Users : Grab(a, u) \/ Release(a, u)
      BY <1>3 DEF Claim
    <2>2. CASE UNCHANGED rec
      BY <2>2
    <2>3. CASE /\ row[a].state = "ACTIVE" /\ row[a].link # NoLink
               /\ rec' = [rec EXCEPT ![a][row[a].link] = "PROCESSING"]
      <3>1. rec[a][row[a].link] # "PASSED"
        BY <1>3, <2>3 DEF LiveHasRecord
      <3> QED BY <1>3, <2>3, <3>1 DEF TypeOK
    <2> QED BY <2>1, <2>2, <2>3 DEF Grab, Release, HasRecord
  <1>4. ASSUME TypeOK, \E a \in Apps, p \in Processes, l \in Links : Create(a, p, l)
        PROVE  Kept
    BY <1>4 DEF Create, InsertApplication, TypeOK
  <1>5. TypeOK /\ LiveHasRecord /\ [Next]_vars => [Kept]_vars
    <2>1. CASE UNCHANGED rec
      BY <2>1
    <2> QED BY <1>2, <1>3, <1>4, <2>1
            DEF Next, BulkCreate, CandidateTransition, vars
  <1>6. Spec => []LiveHasRecord
    BY StaysInPlace, PTL
  <1> QED BY <1>5, <1>6, TypeCorrect, PTL DEF Spec, PassedVerdictKept

-----------------------------------------------------------------------------
(* Soft rejections.                                                        *)

(* The soft rejection that reaches the threshold leaves the candidate in   *)
(* no state from which the pool takes them, whichever application of       *)
(* theirs it came from.                                                    *)
THEOREM ThresholdLeadsToPool == Spec => ThresholdPools
  <1> DEFINE Pools(a) ==
          /\ soft'[a] # soft[a]
          /\ SoftRejections(soft', View(a)) >= SoftRejectThreshold
          => cand'[CandidateOf[a]] \notin CandidateFSM.move_to_pool.from
  <1>1. ASSUME TypeOK, NEW b \in Apps, Request(View(b)), NEW a \in Apps
        PROVE  Pools(a)
    <2>1. View(b) \in Instance /\ View(b).app = b
      BY <1>1, ViewIsInstance DEF View
    <2>2. CASE a # b
      BY <1>1, <2>1, <2>2, RequestLocal DEF Untouched
    <2>3. CASE UNCHANGED soft
      BY <2>3
    <2>4. CASE a = b /\ SoftReject(View(a))
      <3> DEFINE c == CandidateOf[a]
      <3>1. c \in Candidates
        BY ApplicationAssumption DEF ApplicationAssumption
      <3>2. IF /\ ThresholdReached(soft', View(a))
               /\ cand[c] \in CandidateFSM.move_to_pool.from
            THEN cand' = [cand EXCEPT ![c] = "TALENT_POOL"]
            ELSE UNCHANGED cand
        BY <2>1, <2>4 DEF SoftReject, SetCandidate, CandidateFSM
      <3> QED BY <1>1, <3>1, <3>2 DEF ThresholdReached, CandidateFSM, TypeOK
    <2>5. CASE \/ Advance(View(b)) \/ \E t \in Links : Jump(View(b), t)
      <3>1. \/ UNCHANGED soft
            \/ \E before, open, t : EnterStage(View(b), before, open, t)
        BY <2>5 DEF Advance, Jump
      <3>2. UNCHANGED soft
        BY <3>1 DEF EnterStage, Arrive
      <3> QED BY <3>2
    <2> QED BY <1>1, <2>2, <2>3, <2>4, <2>5
            DEF Request, Start, Withdraw, Pause, Resume, TimeoutArchive,
                UpgradeVersion, ChangeProcess, Repoint
  <1>2. ASSUME [Next]_vars, ~ \E b \in Apps : Request(View(b))
        PROVE  UNCHANGED soft
    BY <1>2
    DEF Next, Create, InsertApplication, BulkCreate, CandidateTransition, Claim,
        Grab, Release, vars
  <1>3. TypeOK /\ [Next]_vars => [\A a \in Apps : Pools(a)]_vars
    BY <1>1, <1>2
  <1> QED BY <1>3, TypeCorrect, PTL DEF Spec, ThresholdPools

=============================================================================
