-------------------------- MODULE ResumeLocksProofs --------------------------
(***************************************************************************)
(* Theorems about the locks of resumes, for every number of candidates,    *)
(* positions, users and overlapping requests.                              *)
(***************************************************************************)
EXTENDS ResumeLocks, SequenceTheorems, FiniteSetTheorems, TLAPS

(* A locker is nobody or somebody entitled when the candidate was assigned.*)
MayLock(c) == entitled[c] \cup {NoUser}

LockersEntitled == \A c \in Candidates : cand[c].formal_locked_by \in MayLock(c)

(* So are the lockers requests have loaded and may write back.             *)
HeldEntitled ==
    \A w \in Workers :
        /\ Handling(w, "lock") => held[w].locker \in MayLock(held[w].candidate)
        /\ Handling(w, "save")   =>
              held[w].image.formal_locked_by \in MayLock(held[w].candidate)

(* The inductive invariant.                                                *)
Entitlement == TypeOK /\ LockersEntitled /\ HeldEntitled

-----------------------------------------------------------------------------
(* The decision is always an authority of the position.                    *)
LEMMA DecisionIsAuthority ==
    ASSUME NEW p \in Positions, NEW assigner, NEW previous,
           position \in [Positions -> Position]
    PROVE  decide_formal_lock(p, assigner, previous) \in position_authority(p)
<1> DEFINE chosen == CHOOSE u \in HrbpLevel(p) \cup {position[p].owner} :
                        HrbpLevel(p) # {} => u \in HrbpLevel(p)
<1>1. HrbpLevel(p) \cup {position[p].owner} \subseteq position_authority(p)
  BY DEF HrbpLevel, position_authority
<1>2. chosen \in HrbpLevel(p) \cup {position[p].owner}
  <2>1. \E u \in HrbpLevel(p) \cup {position[p].owner} :
           HrbpLevel(p) # {} => u \in HrbpLevel(p)
    OBVIOUS
  <2> QED BY <2>1
<1> QED BY <1>1, <1>2 DEF decide_formal_lock

LEMMA AuthorityIsUsers ==
    ASSUME NEW p \in Positions, position \in [Positions -> Position]
    PROVE  position_authority(p) \subseteq Users
  BY DEF position_authority, Position

-----------------------------------------------------------------------------
(* Updates of one application, one approval, one image keep their types.   *)
LEMMA ApplicationTyped ==
    ASSUME application \in [Candidates -> [Positions -> Application]],
           NEW c \in Candidates, NEW p \in Positions, NEW a \in Application,
           application' = [application EXCEPT ![c][p] = a]
    PROVE  application' \in [Candidates -> [Positions -> Application]]
<1>1. [application[c] EXCEPT ![p] = a] \in [Positions -> Application]
  OBVIOUS
<1> QED BY <1>1

LEMMA FlowsTyped ==
    ASSUME flows \in [Candidates -> Seq(Flow)],
           NEW c \in Candidates, NEW k \in DOMAIN flows[c], NEW status \in FlowStatus,
           flows' = [flows EXCEPT ![c][k].status = status]
    PROVE  flows' \in [Candidates -> Seq(Flow)]
<1>1. flows[c] \in Seq(Flow) /\ k \in 1..Len(flows[c]) /\ flows[c][k] \in Flow
  OBVIOUS
<1>2. [flows[c][k] EXCEPT !.status = status] \in Flow
  BY <1>1 DEF Flow
<1>3. [flows[c] EXCEPT ![k] = [flows[c][k] EXCEPT !.status = status]] \in Seq(Flow)
  BY <1>1, <1>2, ExceptSeq
<1> QED BY <1>3

(* Every update of an application is one of these.                         *)
LEMMA ApplicationUpdates ==
    ASSUME NEW a \in Application
    PROVE  /\ [a EXCEPT !.state = "live"] \in Application
           /\ [a EXCEPT !.state = "deleted"] \in Application
           /\ \A u \in Person : [a EXCEPT !.grabbed_by = u] \in Application
  BY DEF Application

-----------------------------------------------------------------------------
(* A row that differs from the stored one by its temporary lock at most.   *)
SameLocker(c, row) ==
    /\ row \in Image
    /\ row.formal_locked_by = cand[c].formal_locked_by

LEMMA GrantedKeepsLocker ==
    ASSUME TypeOK, NEW c \in Candidates, NEW u \in Users
    PROVE  SameLocker(c, Granted(c, u)) /\ SameLocker(c, cand[c])
<1>1. cand[c] \in Image /\ now \in 0..MaxTime /\ MaxTime \in Nat
  BY BoundsAssumption DEF TypeOK
<1>2. now + 1 \in 0..(MaxTime + 1)
  BY <1>1
<1> QED BY <1>1, <1>2 DEF SameLocker, Granted, Image, Person

LEMMA LockerWritten ==
    ASSUME TypeOK, NEW c \in Candidates, NEW row, SameLocker(c, row),
           NEW locker \in Person, NEW user \in Person,
           apply_lock(c, row, locker, user)
    PROVE  /\ cand' \in [Candidates -> Image]
           /\ \A x \in Candidates : x # c => cand'[x] = cand[x]
           /\ cand'[c].formal_locked_by \in {user, cand[c].formal_locked_by}
<1> DEFINE new == [row EXCEPT !.formal_locked_by = IF user = locker THEN @ ELSE user]
<1>1. cand' = [cand EXCEPT ![c] = new]
  BY DEF apply_lock
<1>2. new \in Image /\ new.formal_locked_by \in {user, cand[c].formal_locked_by}
  BY DEF SameLocker, Image
<1> HIDE DEF new
<1> QED BY <1>1, <1>2 DEF TypeOK

(* What an assignment does to the locker and to the entitled.              *)
LEMMA AssignedLocker ==
    ASSUME TypeOK, LockersEntitled,
           NEW c \in Candidates, NEW p \in Positions, NEW row, SameLocker(c, row),
           NEW assigner, NEW locker \in Person,
           AssignTo(c, p, row, assigner, locker)
    PROVE  /\ cand' \in [Candidates -> Image]
           /\ entitled' \in [Candidates -> SUBSET Users]
           /\ application' \in [Candidates -> [Positions -> Application]]
           /\ LockersEntitled'
           /\ \A x \in Candidates : MayLock(x) \subseteq MayLock(x)'
<1> DEFINE d == decide_formal_lock(p, assigner, locker)
<1>1. d \in position_authority(p) /\ position_authority(p) \subseteq Users
  BY DecisionIsAuthority, AuthorityIsUsers DEF TypeOK
<1>2. /\ apply_lock(c, row, locker, d)
      /\ entitled' = [entitled EXCEPT ![c] = @ \cup position_authority(p)]
      /\ application' = [application EXCEPT ![c][p].state = "live"]
  BY DEF AssignTo
<1> HIDE DEF d
<1>3. d \in Person
  BY <1>1 DEF Person
<1>4. /\ cand' \in [Candidates -> Image]
      /\ \A x \in Candidates : x # c => cand'[x] = cand[x]
      /\ cand'[c].formal_locked_by \in {d, cand[c].formal_locked_by}
  BY <1>2, <1>3, LockerWritten
<1>5. entitled' \in [Candidates -> SUBSET Users]
  BY <1>1, <1>2 DEF TypeOK
<1>6. /\ \A x \in Candidates : MayLock(x) \subseteq MayLock(x)'
      /\ d \in MayLock(c)'
  BY <1>1, <1>2 DEF MayLock, TypeOK
<1>7. LockersEntitled'
  BY <1>4, <1>6 DEF LockersEntitled
<1>8. application' \in [Candidates -> [Positions -> Application]]
  <2>1. application[c][p] \in Application
    BY DEF TypeOK
  <2>2. [application[c][p] EXCEPT !.state = "live"] \in Application
    BY <2>1, ApplicationUpdates
  <2>3. application' = [application EXCEPT ![c][p] =
                          [application[c][p] EXCEPT !.state = "live"]]
    BY <1>2
  <2> QED BY <2>2, <2>3, ApplicationTyped DEF TypeOK
<1> QED BY <1>4, <1>5, <1>6, <1>7, <1>8

(* A locker written that is entitled already, or nobody.                   *)
LEMMA LockerKept ==
    ASSUME TypeOK, LockersEntitled, NEW c \in Candidates, UNCHANGED entitled,
           cand' \in [Candidates -> Image],
           \A x \in Candidates : x # c => cand'[x] = cand[x],
           cand'[c].formal_locked_by \in MayLock(c)
    PROVE  LockersEntitled' /\ \A x \in Candidates : MayLock(x) \subseteq MayLock(x)'
  BY DEF LockersEntitled, MayLock

-----------------------------------------------------------------------------
LEMMA EntitlementInit == Init => Entitlement
<1> SUFFICES ASSUME Init PROVE Entitlement
  OBVIOUS
<1>1. TypeOK
  BY BoundsAssumption DEF Init, TypeOK, Upload, Image, Nobody, Person, Position, Application
<1>2. LockersEntitled /\ HeldEntitled
  BY DEF Init, LockersEntitled, HeldEntitled, MayLock, Nobody, Handling
<1> QED BY <1>1, <1>2 DEF Entitlement

(* A request begins: it keeps the locker of the moment.                    *)
LEMMA StartKeeps ==
    ASSUME Entitlement, NEW w \in Workers, NEW work \in Work, Start(w, work),
           work.for = "lock" => work.locker \in MayLock(work.candidate),
           work.for = "save" => work.image.formal_locked_by \in MayLock(work.candidate)
    PROVE  Entitlement'
<1>1. TypeOK'
  BY DEF Entitlement, TypeOK, Start
<1>2. LockersEntitled'
  BY DEF Entitlement, LockersEntitled, MayLock, Start
<1>3. HeldEntitled'
  BY IdleAssumption DEF Entitlement, TypeOK, HeldEntitled, Handling, MayLock, Start
<1> QED BY <1>1, <1>2, <1>3 DEF Entitlement

LEMMA EntitlementStep == Entitlement /\ [Next]_vars => Entitlement'
<1> SUFFICES ASSUME Entitlement, [Next]_vars PROVE Entitlement'
  OBVIOUS
<1>t. TypeOK /\ LockersEntitled /\ HeldEntitled
  BY DEF Entitlement
<1>k. \A c \in Candidates : cand[c] \in Image /\ cand[c].formal_locked_by \in MayLock(c)
  BY <1>t DEF TypeOK, LockersEntitled
<1>n. MaxTime \in Nat /\ MaxChanges \in Nat /\ NoUser \in Person /\ Users \subseteq Person
  BY BoundsAssumption DEF Person
<1>0. ASSUME NEW c \in Candidates, NEW referrer \in Referrers \cup {NoUser},
             Create(c, referrer)
      PROVE  Entitlement'
  <2>1. referrer \in Person
    BY ReferrersAssumption DEF Person
  <2> QED BY <1>t, <1>0, <2>1 DEF Create, Entitlement, TypeOK, LockersEntitled, HeldEntitled,
     MayLock, Handling, Upload
<1>17. ASSUME Tick PROVE Entitlement'
  BY <1>t, <1>n, <1>17 DEF Tick, Entitlement, TypeOK, LockersEntitled, HeldEntitled,
     MayLock, Handling
<1>1. ASSUME NEW u \in Users, NEW c \in Candidates, NEW p \in Positions,
             UploadResume(u, c, p)
      PROVE  Entitlement'
  <2>1. upload' \in [Candidates -> Upload]
    BY <1>t, <1>n, <1>1 DEF UploadResume, TypeOK, Upload
  <2>2. CASE AssignTo(c, p, cand[c], u, NoUser)
    <3>1. /\ cand' \in [Candidates -> Image]
          /\ entitled' \in [Candidates -> SUBSET Users]
          /\ application' \in [Candidates -> [Positions -> Application]]
          /\ LockersEntitled'
          /\ \A x \in Candidates : MayLock(x) \subseteq MayLock(x)'
      BY <1>t, <1>n, <2>2, GrantedKeepsLocker, AssignedLocker
    <3>2. TypeOK'
      BY <1>t, <1>1, <2>1, <3>1 DEF UploadResume, TypeOK
    <3>3. HeldEntitled'
      BY <1>t, <1>1, <3>1 DEF UploadResume, HeldEntitled, Handling, TypeOK, Work
    <3> QED BY <3>1, <3>2, <3>3 DEF Entitlement
  <2>3. CASE UNCHANGED <<application, cand, entitled>>
    BY <1>t, <1>1, <2>1, <2>3 DEF UploadResume, Entitlement, TypeOK, LockersEntitled,
       HeldEntitled, MayLock, Handling
  <2> QED BY <1>1, <2>2, <2>3 DEF UploadResume
<1>2. ASSUME NEW u \in Users, NEW c \in Candidates, NEW p \in Positions, Grab(u, c, p)
      PROVE  Entitlement'
  <2>1. [application[c][p] EXCEPT !.grabbed_by = u] \in Application
    <3>1. application[c][p] \in Application /\ u \in Person
      BY <1>t DEF TypeOK, Person
    <3> QED BY <3>1, ApplicationUpdates
  <2>2. application' = [application EXCEPT ![c][p] =
                          [application[c][p] EXCEPT !.grabbed_by = u]]
    BY <1>2 DEF Grab
  <2>3. TypeOK'
    BY <1>t, <1>2, <2>1, <2>2, ApplicationTyped DEF Grab, TypeOK
  <2> QED BY <1>t, <1>2, <2>3 DEF Grab, Entitlement, LockersEntitled, HeldEntitled,
     MayLock, Handling
<1>3. ASSUME NEW w \in Workers, NEW u \in Users, NEW c \in Candidates, LoadToLock(w, u, c)
      PROVE  Entitlement'
  <2> DEFINE work == [for |-> "lock", candidate |-> c, user |-> u,
                      locker |-> cand[c].formal_locked_by]
  <2>1. work \in Work /\ work.locker \in MayLock(work.candidate) /\ Start(w, work)
    BY <1>3, <1>k DEF LoadToLock, Work, Image
  <2> QED BY <2>1, StartKeeps
<1>5. ASSUME NEW w \in Workers, NEW u \in Users, NEW c \in Candidates, LoadToSave(w, u, c)
      PROVE  Entitlement'
  <2> DEFINE work == [for |-> "save", candidate |-> c, image |-> cand[c]]
  <2>1. /\ work \in Work /\ Start(w, work)
        /\ work.image.formal_locked_by \in MayLock(work.candidate)
    BY <1>5, <1>k DEF LoadToSave, Work
  <2> QED BY <2>1, StartKeeps
<1>6. ASSUME NEW w \in Workers, NEW u \in Users, NEW c \in Candidates, CheckApproval(w, u, c)
      PROVE  Entitlement'
  <2> DEFINE work == [for |-> "approval", candidate |-> c, user |-> u]
  <2>1. work \in Work /\ Start(w, work)
    BY <1>6 DEF CheckApproval, Work
  <2> QED BY <2>1, StartKeeps
<1>l. ASSUME NEW w \in Workers, Handling(w, "lock")
      PROVE  /\ held[w].candidate \in Candidates /\ held[w].user \in Users
             /\ held[w].locker \in Person
  BY <1>t, <1>l DEF Handling, TypeOK, Work
<1>f. ASSUME NEW w \in Workers, Finish(w), LockersEntitled',
             \A x \in Candidates : MayLock(x) \subseteq MayLock(x)'
      PROVE  HeldEntitled' /\ held' \in [Workers -> Work \cup {Idle}]
  BY <1>t, <1>f DEF Finish, HeldEntitled, Handling, TypeOK, Work
<1>7. ASSUME NEW w \in Workers, NEW p \in Positions, Assign(w, p) PROVE Entitlement'
  <2> DEFINE c == held[w].candidate
  <2>1. /\ c \in Candidates /\ held[w].locker \in Person
        /\ AssignTo(c, p, cand[c], held[w].user, held[w].locker) /\ Finish(w)
        /\ SameLocker(c, cand[c])
    BY <1>t, <1>7, <1>l, GrantedKeepsLocker DEF Assign
  <2> HIDE DEF c
  <2>2. /\ cand' \in [Candidates -> Image]
        /\ entitled' \in [Candidates -> SUBSET Users]
        /\ application' \in [Candidates -> [Positions -> Application]]
        /\ LockersEntitled'
        /\ \A x \in Candidates : MayLock(x) \subseteq MayLock(x)'
    BY <1>t, <2>1, AssignedLocker
  <2>3. HeldEntitled' /\ held' \in [Workers -> Work \cup {Idle}]
    BY <1>f, <2>1, <2>2
  <2>4. TypeOK'
    BY <1>t, <1>7, <2>2, <2>3 DEF Assign, TypeOK
  <2> QED BY <2>2, <2>3, <2>4 DEF Entitlement
<1>18. ASSUME NEW w \in Workers, NEW p \in Positions, UploadAgain(w, p) PROVE Entitlement'
  <2> DEFINE c == held[w].candidate
             row == Granted(c, held[w].user)
  <2>1. /\ c \in Candidates /\ held[w].locker \in Person /\ Finish(w)
        /\ SameLocker(c, row)
        /\ cand[c].formal_locked_by \in MayLock(c)
    BY <1>t, <1>k, <1>18, <1>l, GrantedKeepsLocker DEF UploadAgain
  <2>2. /\ UNCHANGED <<upload, now, position, flows, changes>>
        /\ \/ cand' = [cand EXCEPT ![c] = row] /\ UNCHANGED <<application, entitled>>
           \/ AssignTo(c, p, row, held[w].user, held[w].locker)
           \/ /\ apply_lock(c, row, held[w].locker, NoUser)
              /\ UNCHANGED <<application, entitled>>
    BY <1>18 DEF UploadAgain
  <2> HIDE DEF c, row
  <2>3. /\ cand' \in [Candidates -> Image]
        /\ entitled' \in [Candidates -> SUBSET Users]
        /\ application' \in [Candidates -> [Positions -> Application]]
        /\ LockersEntitled'
        /\ \A x \in Candidates : MayLock(x) \subseteq MayLock(x)'
    <3>1. CASE AssignTo(c, p, row, held[w].user, held[w].locker)
      BY <1>t, <2>1, <3>1, AssignedLocker
    <3>2. CASE cand' = [cand EXCEPT ![c] = row] /\ UNCHANGED <<application, entitled>>
      <4>1. /\ cand' \in [Candidates -> Image]
            /\ \A x \in Candidates : x # c => cand'[x] = cand[x]
            /\ cand'[c].formal_locked_by \in MayLock(c)
        BY <1>t, <2>1, <3>2 DEF SameLocker, TypeOK
      <4> QED BY <1>t, <2>1, <3>2, <4>1, LockerKept DEF TypeOK
    <3>3. CASE apply_lock(c, row, held[w].locker, NoUser) /\ UNCHANGED <<application, entitled>>
      <4>1. /\ cand' \in [Candidates -> Image]
            /\ \A x \in Candidates : x # c => cand'[x] = cand[x]
            /\ cand'[c].formal_locked_by \in {NoUser, cand[c].formal_locked_by}
        BY <1>t, <1>n, <2>1, <3>3, LockerWritten
      <4>2. cand'[c].formal_locked_by \in MayLock(c)
        BY <2>1, <4>1 DEF MayLock
      <4> QED BY <1>t, <2>1, <3>3, <4>1, <4>2, LockerKept DEF TypeOK
    <3> QED BY <2>2, <3>1, <3>2, <3>3
  <2>4. HeldEntitled' /\ held' \in [Workers -> Work \cup {Idle}]
    BY <1>f, <2>1, <2>3
  <2>5. TypeOK'
    BY <1>t, <2>2, <2>3, <2>4 DEF TypeOK
  <2> QED BY <2>3, <2>4, <2>5 DEF Entitlement
<1>8. ASSUME NEW w \in Workers, PoolAdd(w) PROVE Entitlement'
  <2> DEFINE c == held[w].candidate
  <2>1. /\ c \in Candidates /\ held[w].locker \in Person /\ Finish(w)
        /\ SameLocker(c, cand[c])
        /\ cand[c].formal_locked_by \in MayLock(c)
        /\ apply_lock(c, cand[c], held[w].locker, NoUser)
    BY <1>t, <1>k, <1>8, <1>l, GrantedKeepsLocker DEF PoolAdd
  <2>2. UNCHANGED <<upload, now, position, application, flows, changes, entitled>>
    BY <1>8 DEF PoolAdd
  <2> HIDE DEF c
  <2>3. /\ cand' \in [Candidates -> Image]
        /\ \A x \in Candidates : x # c => cand'[x] = cand[x]
        /\ cand'[c].formal_locked_by \in {NoUser, cand[c].formal_locked_by}
    BY <1>t, <1>n, <2>1, LockerWritten
  <2>4. cand'[c].formal_locked_by \in MayLock(c)
    BY <2>1, <2>3 DEF MayLock
  <2>5. LockersEntitled' /\ \A x \in Candidates : MayLock(x) \subseteq MayLock(x)'
    BY <1>t, <2>1, <2>2, <2>3, <2>4, LockerKept
  <2>6. HeldEntitled' /\ held' \in [Workers -> Work \cup {Idle}]
    BY <1>f, <2>1, <2>5
  <2>7. TypeOK'
    BY <1>t, <2>2, <2>3, <2>6 DEF TypeOK
  <2> QED BY <2>5, <2>6, <2>7 DEF Entitlement
<1>9. ASSUME NEW w \in Workers, Save(w) PROVE Entitlement'
  <2>1. held[w].candidate \in Candidates /\ held[w].image \in Image
    BY <1>t, <1>9 DEF Save, Handling, TypeOK, Work
  <2>2. TypeOK'
    BY <1>t, <1>9, <2>1 DEF Save, Finish, TypeOK
  <2>3. LockersEntitled'
    BY <1>t, <1>9, <2>1 DEF Save, LockersEntitled, HeldEntitled, MayLock, TypeOK
  <2>4. HeldEntitled'
    BY <1>t, <1>9 DEF Save, Finish, HeldEntitled, Handling, MayLock, TypeOK
  <2> QED BY <2>2, <2>3, <2>4 DEF Entitlement
<1>10. ASSUME NEW w \in Workers, InsertApproval(w) PROVE Entitlement'
  <2>1. held[w].candidate \in Candidates /\ held[w].user \in Users
    BY <1>t, <1>10 DEF InsertApproval, Handling, TypeOK, Work
  <2>2. TypeOK'
    <3>1. [status |-> "PENDING", created_by |-> held[w].user] \in Flow
      BY <2>1 DEF Flow, FlowStatus
    <3>2. flows' \in [Candidates -> Seq(Flow)]
      BY <1>t, <1>10, <2>1, <3>1 DEF InsertApproval, AddFlow, TypeOK
    <3> QED BY <1>t, <1>10, <3>2 DEF InsertApproval, Finish, TypeOK
  <2>3. LockersEntitled' /\ HeldEntitled'
    BY <1>t, <1>10 DEF InsertApproval, Finish, LockersEntitled, HeldEntitled, Handling,
       MayLock, TypeOK
  <2> QED BY <2>2, <2>3 DEF Entitlement
<1>11. ASSUME NEW w \in Workers, Refuse(w) PROVE Entitlement'
  BY <1>t, <1>11 DEF Refuse, Finish, Entitlement, TypeOK, LockersEntitled, HeldEntitled,
     MayLock, Handling
<1>12. ASSUME NEW c \in Candidates, NEW k \in 1..MaxFlows, NEW status \in FlowStatus,
              SetApproval(c, k, status)
       PROVE  Entitlement'
  <2>1. flows' \in [Candidates -> Seq(Flow)]
    BY <1>t, <1>12, FlowsTyped DEF SetApproval, TypeOK
  <2>2. TypeOK'
    BY <1>t, <1>12, <2>1, BoundsAssumption DEF SetApproval, Change, TypeOK
  <2> QED BY <1>t, <1>12, <2>2 DEF SetApproval, Entitlement, LockersEntitled, HeldEntitled,
     MayLock, Handling
<1>13. ASSUME NEW c \in Candidates, NEW u \in Users, BatchAssign(c, u) PROVE Entitlement'
  <2>1. TypeOK'
    <3>1. cand' \in [Candidates -> Image]
      BY <1>t, <1>13 DEF BatchAssign, TypeOK, Image, Person
    <3>2. changes' \in 0..MaxChanges
      BY <1>t, <1>13, BoundsAssumption DEF BatchAssign, Change, TypeOK
    <3> QED BY <1>t, <1>13, <3>1, <3>2 DEF BatchAssign, TypeOK
  <2>2. LockersEntitled' /\ HeldEntitled'
    BY <1>t, <1>13 DEF BatchAssign, LockersEntitled, HeldEntitled, MayLock, Handling,
       TypeOK, Image
  <2> QED BY <2>1, <2>2 DEF Entitlement
<1>14. ASSUME NEW p \in Positions, EditPosition(p) PROVE Entitlement'
  <2>1. position' \in [Positions -> Position]
    BY <1>t, <1>14 DEF EditPosition, TypeOK
  <2>2. changes' \in 0..MaxChanges
    BY <1>t, <1>14, BoundsAssumption DEF EditPosition, Change, TypeOK
  <2>3. TypeOK'
    BY <1>t, <1>14, <2>1, <2>2 DEF EditPosition, TypeOK
  <2> QED BY <1>t, <1>14, <2>3 DEF EditPosition, Entitlement, LockersEntitled,
     HeldEntitled, MayLock, Handling
<1>15. ASSUME NEW c \in Candidates, NEW p \in Positions, DeleteApplication(c, p)
       PROVE  Entitlement'
  <2>1. [application[c][p] EXCEPT !.state = "deleted"] \in Application
    <3>1. application[c][p] \in Application
      BY <1>t DEF TypeOK
    <3> QED BY <3>1, ApplicationUpdates
  <2>2. application' = [application EXCEPT ![c][p] =
                          [application[c][p] EXCEPT !.state = "deleted"]]
    BY <1>15 DEF DeleteApplication
  <2>3. TypeOK'
    BY <1>t, <1>15, <2>1, <2>2, ApplicationTyped DEF DeleteApplication, TypeOK
  <2> QED BY <1>t, <1>15, <2>3 DEF DeleteApplication, Entitlement, LockersEntitled,
     HeldEntitled, MayLock, Handling
<1>16. CASE UNCHANGED vars
  BY <1>t, <1>16 DEF vars, Entitlement, TypeOK, LockersEntitled, HeldEntitled,
     MayLock, Handling
<1> QED BY <1>0, <1>1, <1>2, <1>3, <1>5, <1>6, <1>7, <1>8, <1>9, <1>10, <1>11, <1>12,
           <1>13, <1>14, <1>15, <1>16, <1>17, <1>18 DEF Next

THEOREM EntitlementAlways == Spec => []Entitlement
  BY EntitlementInit, EntitlementStep, PTL DEF Spec

-----------------------------------------------------------------------------
(* Type correctness of the locks, approvals and requests.                  *)
THEOREM LocksTypeCorrect == Spec => []TypeOK
<1>1. Entitlement => TypeOK
  BY DEF Entitlement
<1> QED BY EntitlementAlways, <1>1, PTL

(* Whatever stale requests write back, a formal locker was an authority of *)
(* a position when the candidate was assigned to it.                       *)
THEOREM LockerAlwaysWasAuthority == Spec => []LockerWasAuthority
<1>1. Entitlement => LockerWasAuthority
  BY DEF Entitlement, LockersEntitled, MayLock, LockerWasAuthority
<1> QED BY EntitlementAlways, <1>1, PTL

-----------------------------------------------------------------------------
LEMMA UpToIsFinite ==
    ASSUME NEW n \in Nat
    PROVE  IsFiniteSet(1..n)
<1>1. 1 \in Int /\ n \in Int
  OBVIOUS
<1> QED BY <1>1, FS_Interval

(* With at most one approval in flight, the one the guard asks about is it.*)
LEMMA OneInFlight ==
    ASSUME TypeOK, NEW c \in Candidates, ~ Cardinality(InFlight(c)) > 1, InFlight(c) # {}
    PROVE  \E k \in InFlight(c) : InFlight(c) = {k} /\ in_flight_approval(c) = flows[c][k]
<1>1. /\ Len(flows[c]) \in Nat /\ DOMAIN flows[c] = 1..Len(flows[c])
  BY LenProperties DEF TypeOK
<1>2. InFlight(c) \subseteq 1..Len(flows[c])
  BY <1>1 DEF InFlight
<1>3. IsFiniteSet(InFlight(c))
  <2>1. IsFiniteSet(1..Len(flows[c]))
    BY <1>1, UpToIsFinite
  <2>2. InFlight(c) \in SUBSET (1..Len(flows[c]))
    BY <1>2
  <2> QED BY <2>1, <2>2, FS_Subset
<1>4. Cardinality(InFlight(c)) = 1
  BY <1>3, FS_CardinalityType, FS_EmptySet
<1>5. PICK k : InFlight(c) = {k}
  BY <1>3, <1>4, FS_Singleton
<1>6. k \in Nat
  BY <1>1, <1>2, <1>5
<1>7. (CHOOSE x \in InFlight(c) : \A j \in InFlight(c) : j <= x) = k
  BY <1>5, <1>6
<1> QED BY <1>5, <1>7 DEF in_flight_approval

(* Without a deleted application guard and filter mean the same by a       *)
(* candidate that has no relation to anybody.                              *)
LEMMA SameRelations ==
    ASSUME TypeOK, NEW c \in Candidates,
           ~ \E p \in Positions : application[c][p].state = "deleted"
    PROVE  Ownerless(c) <=> ~ has_any_relation(c)
<1>1. \A p \in Positions : application[c][p].state \in {"none", "live", "deleted"}
  BY DEF TypeOK, Application
<1> QED BY <1>1 DEF Ownerless, has_any_relation

LEMMA GuardsAgreeAlways == TypeOK => GuardsAgree
<1> SUFFICES ASSUME TypeOK, NEW u \in Users, NEW c \in Candidates,
                    ~ KnownDifference(u, c)
             PROVE  is_operable(u, c) <=> c \in operable_q(u)
  BY DEF GuardsAgree
<1>1. CASE InFlight(c) # {}
  <2>1. PICK k \in InFlight(c) : InFlight(c) = {k} /\ in_flight_approval(c) = flows[c][k]
    BY <1>1, OneInFlight DEF KnownDifference
  <2>2. is_operable(u, c) <=> flows[c][k].created_by = u
    BY <1>1, <2>1 DEF is_operable, KnownDifference
  <2>3. c \in operable_q(u) <=> flows[c][k].created_by = u
    BY <1>1, <2>1 DEF operable_q, Exclusive, NotInFlight
  <2> QED BY <2>2, <2>3
<1>2. CASE InFlight(c) = {}
  <2>1. Ownerless(c) <=> ~ has_any_relation(c)
    BY SameRelations DEF KnownDifference
  <2>2. is_operable(u, c) <=>
           \/ HasLock(c) /\ is_lock_owner(u, c)
           \/ /\ ~ HasLock(c)
              /\ IF u \in Scoped THEN <<u, c>> \in InScope
                 ELSE NamedPrincipal(u, c) \/ ~ has_any_relation(c)
    BY <1>2 DEF is_operable, KnownDifference, is_writable
  <2>3. c \in operable_q(u) <=> c \in Locked(u) \cup Unlocked(u)
    BY <1>2 DEF operable_q, Exclusive, NotInFlight
  <2> QED BY <2>1, <2>2, <2>3 DEF Locked, Unlocked
<1> QED BY <1>1, <1>2

(* The guard of one candidate and the filter of a list agree in every      *)
(* state but the three known cases.                                        *)
THEOREM GuardAndFilterAgree == Spec => []GuardsAgree
  BY LocksTypeCorrect, GuardsAgreeAlways, PTL

=============================================================================
