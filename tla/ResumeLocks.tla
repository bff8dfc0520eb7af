----------------------------- MODULE ResumeLocks -----------------------------
(***************************************************************************)
(* Who may operate a resume.  The lock engine sets the formal locker of a  *)
(* candidate when it is assigned to a position and clears it when it enters*)
(* the talent pool; uploading the resume of a candidate somebody else      *)
(* provided grants a temporary lock for 72 hours; an approval in flight    *)
(* reserves the candidate for whoever started it.  A guard decides for one *)
(* candidate, a filter for a list of them.                                 *)
(*                                                                         *)
(* Requests load a candidate and write it later: an assignment, an upload  *)
(* and the pool write the locker from the image they loaded, an edit or a  *)
(* transition saves every column of it, expired lock included.             *)
(*                                                                         *)
(* Kept of an image: the two lockers, the end of the temporary lock, the   *)
(* recruiter.  Left out: the uploader, whom neither guard nor filter asks  *)
(* about; the assigner on the candidate, always given by the caller;       *)
(* lock_version, which nothing reads; the provider of referral experts,    *)
(* never injected; positions and actions that are deleted or disabled.     *)
(***************************************************************************)
EXTENDS Naturals, Sequences, FiniteSets

CONSTANTS Candidates, Positions, Users, Workers, NoUser, Idle,
          SuperAdmins,
          Referrers,     \* the users who refer candidates
          Scoped,        \* the users whose role has a write scope
          InScope,       \* <<user, candidate>> pairs within that scope
          MaxTime,       \* bound on the clock, which counts periods of 72 hours
          MaxFlows,      \* bound on the approvals of a candidate
          MaxChanges     \* bound on edits of positions, approvals, recruiters

ASSUME NobodyAssumption == NoUser \notin Users
ASSUME ReferrersAssumption == Referrers \subseteq Users
ASSUME BoundsAssumption == MaxTime \in Nat /\ MaxFlows \in Nat /\ MaxChanges \in Nat

Person == Users \cup {NoUser}
FlowStatus == {"PENDING", "IN_PROGRESS", "CLOSED"}   \* approved, rejected, cancelled, deleted
IN_FLIGHT_STATUSES == {"PENDING", "IN_PROGRESS"}

Upload == [made : BOOLEAN, created_by : Person, referrer : Person]
Image == [formal_locked_by : Person, recruiter : Person,
          temp_locked_by : Person, until : 0..(MaxTime + 1)]
Position == [owner : Users, assistants : SUBSET Users, hrbp : Person]
Application == [state : {"none", "live", "deleted"}, grabbed_by : Person]
Flow == [status : FlowStatus, created_by : Users]

(* What a request keeps of what it loaded: all it writes from later.       *)
Work ==
    [for : {"lock"}, candidate : Candidates, user : Users, locker : Person] \cup
    [for : {"save"}, candidate : Candidates, image : Image] \cup
    [for : {"approval"}, candidate : Candidates, user : Users]

ASSUME IdleAssumption == Idle \notin Work

VARIABLES
    upload,        \* candidate -> what its creation set, for good
    cand,          \* candidate -> its lockers and recruiter
    now,
    position,      \* position -> its owner, assistants and HRBP
    application,   \* candidate -> position -> the application
    flows,         \* candidate -> its approvals, oldest first
    held,          \* worker -> Idle or the request it is handling
    changes,
    entitled       \* history: who was an authority when the candidate was assigned

vars == <<upload, cand, now, position, application, flows, held, changes, entitled>>

Nobody == [formal_locked_by |-> NoUser, recruiter |-> NoUser,
           temp_locked_by |-> NoUser, until |-> 0]

Init ==
    /\ upload = [c \in Candidates |->
                    [made |-> FALSE, created_by |-> NoUser, referrer |-> NoUser]]
    /\ cand = [c \in Candidates |-> Nobody]
    /\ now = 0
    /\ position \in [Positions -> [owner : Users, assistants : {{}}, hrbp : {NoUser}]]
    /\ application = [c \in Candidates |->
                        [p \in Positions |-> [state |-> "none", grabbed_by |-> NoUser]]]
    /\ flows = [c \in Candidates |-> <<>>]
    /\ held = [w \in Workers |-> Idle]
    /\ changes = 0
    /\ entitled = [c \in Candidates |-> {}]

Made(c) == upload[c].made
Change == changes < MaxChanges /\ changes' = changes + 1

-----------------------------------------------------------------------------
(* Lock engine.                                                            *)
position_authority(p) ==
    {position[p].owner} \cup position[p].assistants \cup
    {u \in Users : \E c \in Candidates : /\ application[c][p].state = "live"
                                         /\ application[c][p].grabbed_by = u}

HrbpUnchecked(p) == {position[p].hrbp} \ {NoUser}
HrbpLevel(p) == {position[p].hrbp} \cap position_authority(p)

(* The first level that names an authority decides: the assigner, the      *)
(* locker the request loaded, the HRBP, the owner.  The referral levels    *)
(* ask for the HRBP of the position itself: the candidate's newest         *)
(* application is the one that is being made.                              *)
decide_formal_lock(p, assigner, previous) ==
    LET authority == position_authority(p)
    IN  CASE assigner \in authority  -> assigner
          [] assigner \notin authority /\ previous \in authority -> previous
          [] OTHER -> CHOOSE u \in HrbpLevel(p) \cup {position[p].owner} :
                          HrbpLevel(p) # {} => u \in HrbpLevel(p)

(* The row is written when the decision differs from the loaded locker.    *)
apply_lock(c, row, locker, user) ==
    cand' = [cand EXCEPT ![c] =
                [row EXCEPT !.formal_locked_by = IF user = locker THEN @ ELSE user]]

(* Applications that ended still count, so a second one may be made.       *)
AssignTo(c, p, row, assigner, locker) ==
    /\ application[c][p].state # "deleted"
    /\ application' = [application EXCEPT ![c][p].state = "live"]
    /\ apply_lock(c, row, locker, decide_formal_lock(p, assigner, locker))
    /\ entitled' = [entitled EXCEPT ![c] = @ \cup position_authority(p)]

(* Who uploads a resume somebody else provided holds it for 72 hours.      *)
Granted(c, u) ==
    IF upload[c].referrer \in {NoUser, u} THEN cand[c]
    ELSE [cand[c] EXCEPT !.temp_locked_by = u, !.until = now + 1]

-----------------------------------------------------------------------------
(* Creation.  A candidate typed in has no creator but may have a referrer, *)
(* an uploaded one has its uploader for creator and no referrer, hence no  *)
(* temporary lock; it is assigned or not in the same transaction.  The     *)
(* pool would clear a locker it does not have.                             *)
Create(c, referrer) ==
    /\ ~ Made(c)
    /\ upload' = [upload EXCEPT ![c].made = TRUE, ![c].referrer = referrer]
    /\ UNCHANGED <<cand, now, position, application, flows, held, changes, entitled>>

UploadResume(u, c, p) ==
    /\ ~ Made(c)
    /\ upload' = [upload EXCEPT ![c].made = TRUE, ![c].created_by = u]
    /\ \/ AssignTo(c, p, cand[c], u, NoUser)
       \/ UNCHANGED <<application, cand, entitled>>
    /\ UNCHANGED <<now, position, flows, held, changes>>

(* 72 hours pass; nothing takes an expired lock away.                      *)
Tick ==
    /\ now < MaxTime
    /\ now' = now + 1
    /\ UNCHANGED <<upload, cand, position, application, flows, held, changes, entitled>>

-----------------------------------------------------------------------------
(* The guard of one candidate.                                             *)
InFlight(c) == {k \in DOMAIN flows[c] : flows[c][k].status \in IN_FLIGHT_STATUSES}
in_flight_approval(c) ==
    flows[c][CHOOSE k \in InFlight(c) : \A j \in InFlight(c) : j <= k]

is_lock_owner(u, c) ==
    \/ cand[c].formal_locked_by = u
    \/ cand[c].temp_locked_by = u /\ now < cand[c].until

HasLock(c) == cand[c].formal_locked_by # NoUser \/ cand[c].temp_locked_by # NoUser

PositionPrincipal(u, c) ==
    \E p \in Positions :
        /\ application[c][p].state # "none"     \* the join sees deleted ones
        /\ u \in {position[p].owner, application[c][p].grabbed_by} \cup position[p].assistants

NamedPrincipal(u, c) ==
    PositionPrincipal(u, c) \/ u \in {upload[c].created_by, cand[c].recruiter}

has_any_relation(c) ==
    \/ upload[c].created_by # NoUser \/ cand[c].recruiter # NoUser
    \/ \E p \in Positions : application[c][p].state = "live"

is_writable(u, c) == u \in Scoped => <<u, c>> \in InScope

is_operable(u, c) ==
    \/ u \in SuperAdmins
    \/ InFlight(c) # {} /\ in_flight_approval(c).created_by = u
    \/ InFlight(c) = {} /\ HasLock(c) /\ is_lock_owner(u, c)
    \/ /\ InFlight(c) = {} /\ ~ HasLock(c)
       /\ IF u \in Scoped THEN is_writable(u, c)
          ELSE NamedPrincipal(u, c) \/ ~ has_any_relation(c)

(* The filter of a list: the candidates u may operate.                     *)
Ownerless(c) ==
    /\ upload[c].created_by = NoUser /\ cand[c].recruiter = NoUser
    /\ \A p \in Positions : application[c][p].state = "none"

Unlocked(u) ==
    {c \in Candidates :
        ~ HasLock(c) /\ IF u \in Scoped THEN <<u, c>> \in InScope
                        ELSE NamedPrincipal(u, c) \/ Ownerless(c)}
Exclusive(u) ==
    {c \in Candidates : \E k \in InFlight(c) : flows[c][k].created_by = u}
NotInFlight == {c \in Candidates : InFlight(c) = {}}
Locked(u) == {c \in Candidates : HasLock(c) /\ is_lock_owner(u, c)}

operable_union(u) == Exclusive(u) \cup NotInFlight \cup Locked(u) \cup Unlocked(u)
operable_q(u) == Exclusive(u) \cup (NotInFlight \cap (Locked(u) \cup Unlocked(u)))

-----------------------------------------------------------------------------
(* A request loads the candidate: to assign it, upload its resume again or *)
(* pool it, of which it keeps the locker; to save all of it; to start an   *)
(* approval, when it finds none in flight and does not look again.         *)
(* Assignments and uploads ask for nothing, the pool and an edit for the   *)
(* write scope, a transition for the guard as well.                        *)
Start(w, work) ==
    /\ held[w] = Idle /\ Made(work.candidate)
    /\ held' = [held EXCEPT ![w] = work]
    /\ UNCHANGED <<upload, cand, now, position, application, flows, changes, entitled>>

LoadToLock(w, u, c) ==
    Start(w, [for |-> "lock", candidate |-> c, user |-> u,
              locker |-> cand[c].formal_locked_by])
LoadToSave(w, u, c) ==
    /\ is_writable(u, c)
    /\ Start(w, [for |-> "save", candidate |-> c, image |-> cand[c]])
CheckApproval(w, u, c) ==
    /\ InFlight(c) = {}
    /\ Start(w, [for |-> "approval", candidate |-> c, user |-> u])

Handling(w, purpose) == held[w] # Idle /\ held[w].for = purpose
Finish(w) == held' = [held EXCEPT ![w] = Idle]

Assign(w, p) ==
    /\ Handling(w, "lock")
    /\ LET c == held[w].candidate
       IN  AssignTo(c, p, cand[c], held[w].user, held[w].locker)
    /\ Finish(w)
    /\ UNCHANGED <<upload, now, position, flows, changes>>

(* An upload that finds its candidate: left pending, assigned or pooled.   *)
UploadAgain(w, p) ==
    /\ Handling(w, "lock")
    /\ LET c == held[w].candidate
           row == Granted(c, held[w].user)
       IN  \/ /\ cand' = [cand EXCEPT ![c] = row]
              /\ UNCHANGED <<application, entitled>>
           \/ AssignTo(c, p, row, held[w].user, held[w].locker)
           \/ /\ apply_lock(c, row, held[w].locker, NoUser)
              /\ UNCHANGED <<application, entitled>>
    /\ Finish(w)
    /\ UNCHANGED <<upload, now, position, flows, changes>>

(* Every entry is of the general kind: its rule says no locker.            *)
PoolAdd(w) ==
    /\ Handling(w, "lock") /\ is_writable(held[w].user, held[w].candidate)
    /\ apply_lock(held[w].candidate, cand[held[w].candidate], held[w].locker, NoUser)
    /\ Finish(w)
    /\ UNCHANGED <<upload, now, position, application, flows, changes, entitled>>

Save(w) ==
    /\ Handling(w, "save")
    /\ cand' = [cand EXCEPT ![held[w].candidate] = held[w].image]
    /\ Finish(w)
    /\ UNCHANGED <<upload, now, position, application, flows, changes, entitled>>

AddFlow(c, status, u) ==
    flows' = [flows EXCEPT ![c] = Append(@, [status |-> status, created_by |-> u])]

InsertAsCreated(w) ==
    /\ Handling(w, "approval")
    /\ Len(flows[held[w].candidate]) < MaxFlows
    /\ AddFlow(held[w].candidate, "CREATED", held[w].user)
    /\ Finish(w)
    /\ UNCHANGED <<upload, cand, now, position, application, changes, entitled>>

InsertApproval(w) ==
    /\ Handling(w, "approval")
    /\ Len(flows[held[w].candidate]) < MaxFlows
    /\ AddFlow(held[w].candidate, "PENDING", held[w].user)
    /\ Finish(w)
    /\ UNCHANGED <<upload, cand, now, position, application, changes, entitled>>

Refuse(w) ==
    /\ held[w] # Idle
    /\ Finish(w)
    /\ UNCHANGED <<upload, cand, now, position, application, flows, changes, entitled>>

-----------------------------------------------------------------------------
(* Approving and rejecting leave one of these statuses, from an instance   *)
(* loaded earlier; the generic edit writes any of them at any time.        *)
SetApproval(c, k, status) ==
    /\ Change
    /\ k \in DOMAIN flows[c]
    /\ flows' = [flows EXCEPT ![c][k].status = status]
    /\ UNCHANGED <<upload, cand, now, position, application, held, entitled>>

BatchAssign(c, u) ==
    /\ Change
    /\ Made(c)
    /\ cand' = [cand EXCEPT ![c].recruiter = u]
    /\ UNCHANGED <<upload, now, position, application, flows, held, entitled>>

EditPosition(p) ==
    /\ Change
    /\ \E r \in Position : position' = [position EXCEPT ![p] = r]
    /\ UNCHANGED <<upload, cand, now, application, flows, held, entitled>>

Grab(u, c, p) ==
    /\ application[c][p].state = "live"
    /\ application[c][p].grabbed_by = NoUser
    /\ application' = [application EXCEPT ![c][p].grabbed_by = u]
    /\ UNCHANGED <<upload, cand, now, position, flows, held, changes, entitled>>

DeleteApplication(c, p) ==
    /\ application[c][p].state = "live"
    /\ application' = [application EXCEPT ![c][p].state = "deleted"]
    /\ UNCHANGED <<upload, cand, now, position, flows, held, changes, entitled>>

Next ==
    \/ \E c \in Candidates, referrer \in Referrers \cup {NoUser} : Create(c, referrer)
    \/ Tick
    \/ \E u \in Users, c \in Candidates, p \in Positions :
          UploadResume(u, c, p) \/ Grab(u, c, p)
    \/ \E w \in Workers, u \in Users, c \in Candidates :
          LoadToLock(w, u, c) \/ LoadToSave(w, u, c) \/ CheckApproval(w, u, c)
    \/ \E w \in Workers, p \in Positions : Assign(w, p) \/ UploadAgain(w, p)
    \/ \E w \in Workers : PoolAdd(w) \/ Save(w) \/ InsertApproval(w) \/ Refuse(w)
    \/ \E c \in Candidates, k \in 1..MaxFlows, status \in FlowStatus : SetApproval(c, k, status)
    \/ \E c \in Candidates, u \in Users : BatchAssign(c, u)
    \/ \E p \in Positions : EditPosition(p)
    \/ \E c \in Candidates, p \in Positions : DeleteApplication(c, p)

Spec == Init /\ [][Next]_vars

-----------------------------------------------------------------------------
TypeOK ==
    /\ upload \in [Candidates -> Upload]
    /\ cand \in [Candidates -> Image]
    /\ now \in 0..MaxTime
    /\ position \in [Positions -> Position]
    /\ application \in [Candidates -> [Positions -> Application]]
    /\ flows \in [Candidates -> Seq(Flow)]
    /\ held \in [Workers -> Work \cup {Idle}]
    /\ changes \in 0..MaxChanges
    /\ entitled \in [Candidates -> SUBSET Users]

(* The core invariant of the lock engine, as far as it is kept: however    *)
(* assignments, uploads, the pool and stale saves overwrite one another, a *)
(* formal locker was an authority of a position when the candidate was     *)
(* assigned to it.                                                         *)
LockerWasAuthority ==
    \A c \in Candidates :
        cand[c].formal_locked_by # NoUser => cand[c].formal_locked_by \in entitled[c]

(* The guard and the filter agree for every user and candidate but in the  *)
(* three known cases: super administrators, who are exempt in the guard    *)
(* alone; two approvals in flight at once; a deleted application, which    *)
(* the filter still counts as a relation.                                  *)
KnownDifference(u, c) ==
    \/ u \in SuperAdmins
    \/ Cardinality(InFlight(c)) > 1
    \/ \E p \in Positions : application[c][p].state = "deleted"
GuardsAgree ==
    \A u \in Users, c \in Candidates :
        (Made(c) /\ ~ KnownDifference(u, c))
            => (is_operable(u, c) <=> c \in operable_q(u))

(* The guard's docstring: no resume may become data nobody can move; and   *)
(* the lock's: an expired temporary lock is taken back.  Violated.         *)
SomebodyOperates ==
    \A c \in Candidates :
        (Made(c) /\ InFlight(c) = {} /\ HasLock(c)) => \E u \in Users : is_operable(u, c)

=============================================================================
