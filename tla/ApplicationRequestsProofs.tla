---------------------- MODULE ApplicationRequestsProofs ----------------------
(***************************************************************************)
(* What survives overlapping requests, for any number of workers: the      *)
(* types, the agreement of process, version and link, and the closing of a *)
(* withdrawn application's records.  The lemmas on requests are those of   *)
(* the sequential service; they were proved for stale instances.           *)
(***************************************************************************)
EXTENDS ApplicationRequests, ApplicationRecordsProofs

(* A worker holds an instance that was consistent when it was loaded.      *)
HeldSound ==
    \A w \in Workers : held[w] # Idle => Consistent(held[w].row)

(* What an invariant of the tables needs of the part that is not a request. *)
ServiceInv == TypeOK /\ StageInProcess /\ WithdrawnClosesAll

RInv == ServiceInv /\ HeldOK /\ HeldSound

LEMMA UnchangedKeeps == ServiceInv /\ UNCHANGED vars => ServiceInv'
  BY DEF ServiceInv, vars, TypeOK, StageInProcess, WithdrawnClosesAll

LEMMA LoadedIsSound ==
    ASSUME RInv, NEW w \in Workers, NEW a \in Apps,
           held' = [held EXCEPT ![w] = View(a)], UNCHANGED vars
    PROVE  RInv'
  <1>1. View(a) \in Instance /\ Consistent(View(a).row)
    BY ViewIsInstance DEF RInv, ServiceInv, StageInProcess, View
  <1>2. HeldOK' /\ HeldSound'
    BY <1>1 DEF RInv, HeldOK, HeldSound
  <1> QED BY <1>2, UnchangedKeeps DEF RInv

LEMMA HeldStaysSound ==
    ASSUME RInv,
           held' = held \/ \E w \in Workers : held' = [held EXCEPT ![w] = Idle]
    PROVE  HeldOK' /\ HeldSound'
  BY DEF RInv, HeldOK, HeldSound

LEMMA RequestKeeps ==
    ASSUME ServiceInv, NEW x \in Instance, Consistent(x.row), Request(x)
    PROVE  ServiceInv'
  BY RequestType, RequestStage, RequestClosed DEF ServiceInv

LEMMA CandidateKeeps ==
    ASSUME ServiceInv, NEW c \in Candidates, NEW k, CandidateTransition(c, k)
    PROVE  ServiceInv'
  <1>1. TypeOK'
    BY CandidateType DEF ServiceInv
  <1>2. UNCHANGED <<row, rec, stray>>
    BY DEF CandidateTransition
  <1> QED BY <1>1, <1>2 DEF ServiceInv, StageInProcess, WithdrawnClosesAll

LEMMA SaveKeeps ==
    ASSUME ServiceInv, NEW x \in Instance, SaveCandidate(x)
    PROVE  ServiceInv'
  <1>1. TypeOK'
    BY DEF ServiceInv, TypeOK, SaveCandidate, SetCandidate, Instance
  <1> QED BY <1>1 DEF SaveCandidate, ServiceInv, StageInProcess, WithdrawnClosesAll

LEMMA InsertKeeps ==
    ASSUME ServiceInv, NEW a \in Apps, NEW p \in Processes, NEW l \in Links,
           InsertApplication(a, p, l)
    PROVE  ServiceInv'
  BY InsertType, InsertStage, InsertClosed DEF ServiceInv

LEMMA RNextKeeps == RInv /\ [RNext]_rvars => RInv'
  <1> SUFFICES ASSUME RInv, [RNext]_rvars PROVE RInv'
    OBVIOUS
  <1>0. ServiceInv
    BY DEF RInv
  <1>1. ASSUME ServiceInv',
               held' = held \/ \E w \in Workers : held' = [held EXCEPT ![w] = Idle]
        PROVE  RInv'
    BY <1>1, HeldStaysSound DEF RInv
  <1>2. CASE \E w \in Workers, a \in Apps : Load(w, a)
    BY <1>2, LoadedIsSound DEF Load
  <1>3. CASE \E w \in Workers : Commit(w)
    <2>1. PICK w \in Workers : Commit(w)
      BY <1>3
    <2> DEFINE x == held[w]
    <2>2. /\ x \in Instance /\ x.app \in Apps /\ CandidateOf[x.app] \in Candidates
          /\ Consistent(x.row)
      BY <2>1, ApplicationAssumption
      DEF ApplicationAssumption, RInv, HeldOK, HeldSound, Commit, Instance
    <2>3. \/ \E p \in Processes, l \in Links : InsertApplication(x.app, p, l)
          \/ Request(x)
          \/ CandidateTransition(CandidateOf[x.app], x.cand)
          \/ SaveCandidate(x)
      BY <2>1 DEF Commit
    <2>4. ServiceInv'
      BY <1>0, <2>2, <2>3, RequestKeeps, CandidateKeeps, SaveKeeps, InsertKeeps
    <2> QED BY <1>1, <2>1, <2>4 DEF Commit
  <1>4. CASE UNCHANGED vars
             /\ (held' = held \/ \E w \in Workers : held' = [held EXCEPT ![w] = Idle])
    BY <1>0, <1>1, <1>4, UnchangedKeeps
  <1>5. CASE Next /\ UNCHANGED held
    BY <1>0, <1>1, <1>5, NextType, NextStage, NextClosed DEF ServiceInv
  <1>6. CASE UNCHANGED rvars
    BY <1>4, <1>6 DEF rvars, vars
  <1> QED BY <1>2, <1>3, <1>4, <1>5, <1>6 DEF RNext, Refuse

LEMMA RInitKeeps == RInit => RInv
  <1> SUFFICES ASSUME RInit PROVE RInv
    OBVIOUS
  <1>1. TypeOK
    BY InitType DEF RInit
  <1>2. StageInProcess /\ WithdrawnClosesAll
    BY DEF RInit, Init, StageInProcess, Consistent, WithdrawnClosesAll, NoRow, NewRow
  <1>3. HeldOK /\ HeldSound
    BY DEF RInit, HeldOK, HeldSound
  <1> QED BY <1>1, <1>2, <1>3 DEF RInv, ServiceInv

LEMMA RInvAlways == RSpec => []RInv
  BY RInitKeeps, RNextKeeps, PTL DEF RSpec

(* Overlapping requests keep the types: a stale save writes a row that was *)
(* well formed.                                                            *)
THEOREM TypeCorrectUnderOverlap == RSpec => []RTypeOK
  <1>1. RInv => RTypeOK
    BY DEF RInv, ServiceInv, RTypeOK
  <1> QED BY <1>1, RInvAlways, PTL

(* However requests overlap, no application is ever left with the link of  *)
(* one process and the process or the frozen version of another: saves of  *)
(* four columns and saves of whole stale rows do not mix into half a move. *)
THEOREM NoHalfMove == RSpec => []StageInProcess
  <1>1. RInv => StageInProcess
    BY DEF RInv, ServiceInv
  <1> QED BY <1>1, RInvAlways, PTL

(* However requests overlap, an application that stands withdrawn has no   *)
(* open record: a stale request that opens one also revives the            *)
(* application.                                                            *)
THEOREM WithdrawalClosesUnderOverlap == RSpec => []WithdrawnClosesAll
  <1>1. RInv => WithdrawnClosesAll
    BY DEF RInv, ServiceInv
  <1> QED BY <1>1, RInvAlways, PTL

=============================================================================
