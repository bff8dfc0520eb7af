---------------------------- MODULE Invitations ----------------------------
(***************************************************************************)
(* Invitations and their hourly clean-up.  A request loads its invitation  *)
(* outside any transaction and saves every column of what it loaded; the   *)
(* clean-up lists the overdue open ones, then loads and saves them one by  *)
(* one.  Requests and the clean-up interleave between loading and saving.  *)
(*                                                                         *)
(* Kept of a row: its state, its expiry, whether it is in the grab pool,   *)
(* who grabbed it, whether it was answered, whether it is deleted.  The    *)
(* clock counts as far as every expiry has passed.                         *)
(***************************************************************************)
EXTENDS Naturals

CONSTANTS Invitation, Workers, Users, Idle, Listed, NoRow, NoUser,
          MaxClock,      \* bound of the clock; expiries lie below it
          MaxRequests,   \* bound on requests that load an invitation
          MaxFailures    \* bound on workers of the clean-up that die

ASSUME BoundsAssumption ==
    MaxClock \in Nat /\ MaxRequests \in Nat /\ MaxFailures \in Nat

InvitationState == {"PENDING", "INVITING", "SUCCESS", "FAILED", "TIMEOUT"}
Open == {"PENDING", "INVITING"}
Expiries == {e \in 0..MaxClock : e < MaxClock}

Row == [state : InvitationState, expire_at : Expiries, is_grab_pool : BOOLEAN,
        grabbed_by : Users \cup {NoUser}, answered : BOOLEAN, deleted : BOOLEAN]
ImageType == [inv : Invitation, row : Row]

ASSUME NoneAssumption == /\ NoRow \notin Row /\ NoUser \notin Users
                         /\ {Idle, Listed} \cap ImageType = {} /\ Idle # Listed

VARIABLES
    row,        \* invitation -> its row, or NoRow
    held,       \* worker -> Idle, or the invitation it loaded and its image
    now,        \* the clock
    todo,       \* what the running clean-up has still to close
    task,       \* Idle, Listed, or the invitation the clean-up loaded
    requests,   \* requests that loaded an invitation so far
    failures    \* workers of the clean-up that died so far

vars == <<row, held, now, todo, task, requests, failures>>
sweepVars == <<todo, task, failures>>

Init ==
    /\ row = [i \in Invitation |-> NoRow]
    /\ held = [w \in Workers |-> Idle]
    /\ now = 0
    /\ todo = {} /\ task = Idle
    /\ requests = 0 /\ failures = 0

Live(i) == row[i] # NoRow /\ ~ row[i].deleted
Overdue(i) == Live(i) /\ row[i].state \in Open /\ row[i].expire_at < now
Image(i) == [inv |-> i, row |-> row[i]]

SaveState(i, r) == row' = IF row[i] = NoRow THEN [row EXCEPT ![i] = r]
                          ELSE [row EXCEPT ![i].state = r.state]

(* instance.save() writes every column of the image.                       *)
Save(i, r) == row' = [row EXCEPT ![i] = r]

-----------------------------------------------------------------------------
(* The endpoints.                                                          *)
Create(i) ==
    /\ row[i] = NoRow
    /\ \E e \in Expiries, g \in BOOLEAN :
          Save(i, [state |-> "PENDING", expire_at |-> e, is_grab_pool |-> g,
                   grabbed_by |-> NoUser, answered |-> FALSE, deleted |-> FALSE])
    /\ UNCHANGED <<held, now, requests, sweepVars>>

Load(w, i) ==
    /\ held[w] = Idle /\ Live(i)
    /\ requests < MaxRequests /\ requests' = requests + 1
    /\ held' = [held EXCEPT ![w] = Image(i)]
    /\ UNCHANGED <<row, now, sweepVars>>

(* The declared transitions; succeed and fail note when they were given.   *)
start_inviting(r) == {[r EXCEPT !.state = "INVITING"] : s \in {"PENDING"} \cap {r.state}}
answer(r)  == {[r EXCEPT !.state = s, !.answered = TRUE] :
                  s \in IF r.state = "INVITING" THEN {"SUCCESS", "FAILED"} ELSE {}}
timeoutMisspelt(r) == {[r EXCEPT !.state = "EXPIRED"] : s \in Open \cap {r.state}}
timeout(r) == {[r EXCEPT !.state = "TIMEOUT"] : s \in Open \cap {r.state}}
grab(r)    == {[r EXCEPT !.grabbed_by = u] :
                  u \in IF r.is_grab_pool /\ r.state = "INVITING" THEN Users ELSE {}}
edit(r)    == UNION {{[r EXCEPT !.expire_at = e, !.is_grab_pool = g] :
                         g \in BOOLEAN} : e \in Expiries}

Requested(r) == start_inviting(r) \cup answer(r) \cup timeout(r) \cup grab(r) \cup edit(r)

Commit(w) ==
    /\ held[w] # Idle
    /\ \E r \in Requested(held[w].row) : Save(held[w].inv, r)
    /\ held' = [held EXCEPT ![w] = Idle]
    /\ UNCHANGED <<now, requests, sweepVars>>

(* perform_destroy writes the deletion mark alone, whatever the state.     *)
Destroy(w) ==
    /\ held[w] # Idle
    /\ row' = [row EXCEPT ![held[w].inv].deleted = TRUE]
    /\ held' = [held EXCEPT ![w] = Idle]
    /\ UNCHANGED <<now, requests, sweepVars>>

Refuse(w) ==
    /\ held[w] # Idle
    /\ held' = [held EXCEPT ![w] = Idle]
    /\ UNCHANGED <<row, now, requests, sweepVars>>

-----------------------------------------------------------------------------
(* cleanup_expired, scheduled every hour.                                  *)
ListPending ==
    /\ task = Idle
    /\ \E i \in Invitation : Overdue(i) /\ row[i].state = "PENDING"
    /\ todo' = {i \in Invitation : Overdue(i) /\ row[i].state = "PENDING"}
    /\ task' = Listed
    /\ UNCHANGED <<row, held, now, requests, failures>>

List ==
    /\ task = Idle
    /\ \E i \in Invitation : Overdue(i)     \* else the run does nothing
    /\ todo' = {i \in Invitation : Overdue(i)}
    /\ task' = Listed
    /\ UNCHANGED <<row, held, now, requests, failures>>

(* InvitationService.timeout loads the row again; its expiry is not looked *)
(* at a second time.                                                       *)
TakeUp(i) ==
    /\ task = Listed /\ i \in todo
    /\ Live(i) /\ row[i].state \in Open
    /\ task' = Image(i)
    /\ UNCHANGED <<row, held, now, todo, requests, failures>>

Close ==
    /\ task \notin {Idle, Listed}
    /\ \E r \in timeout(task.row) : Save(task.inv, r)
    /\ todo' = todo \ {task.inv}
    /\ task' = Listed
    /\ UNCHANGED <<held, now, requests, failures>>

(* An invitation answered or deleted since it was listed: its exception is *)
(* not among those the loop catches, and the run ends there.               *)
Abort ==
    /\ task = Listed
    /\ \E i \in todo : ~ (Live(i) /\ row[i].state \in Open)
    /\ task' = Idle /\ todo' = {}
    /\ UNCHANGED <<row, held, now, requests, failures>>

Finish ==
    /\ task = Listed /\ todo = {}
    /\ task' = Idle
    /\ UNCHANGED <<row, held, now, todo, requests, failures>>

Die ==
    /\ task # Idle
    /\ failures < MaxFailures /\ failures' = failures + 1
    /\ task' = Idle /\ todo' = {}
    /\ UNCHANGED <<row, held, now, requests>>

Sweep == List \/ (\E i \in Invitation : TakeUp(i)) \/ Close \/ Abort \/ Finish

Tick ==
    /\ now < MaxClock
    /\ now' = now + 1
    /\ UNCHANGED <<row, held, todo, task, requests, failures>>

Next ==
    \/ \E i \in Invitation : Create(i)
    \/ \E w \in Workers, i \in Invitation : Load(w, i)
    \/ \E w \in Workers : Commit(w) \/ Destroy(w) \/ Refuse(w)
    \/ Sweep \/ Die \/ Tick

Spec == Init /\ [][Next]_vars

(* The scheduler starts the clean-up every hour and time goes on; nothing  *)
(* is asked of the users.                                                  *)
FairSpec == Spec /\ WF_vars(Sweep) /\ WF_vars(Tick)
-----------------------------------------------------------------------------
TypeOK ==
    /\ row \in [Invitation -> Row \cup {NoRow}]
    /\ held \in [Workers -> ImageType \cup {Idle}]
    /\ now \in 0..MaxClock
    /\ todo \subseteq Invitation
    /\ task \in ImageType \cup {Idle, Listed}
    /\ requests \in 0..MaxRequests /\ failures \in 0..MaxFailures

(* A row is always one the transitions lead to, however requests and the   *)
(* clean-up overwrite one another: it is answered exactly when its state   *)
(* is an answer, and only an invitation that was sent out was grabbed.     *)
Whole(r) ==
    /\ r.answered <=> r.state \in {"SUCCESS", "FAILED"}
    /\ r.grabbed_by # NoUser => r.state # "PENDING"
WholeRows == \A i \in Invitation : row[i] # NoRow => Whole(row[i])

(* When requests cease, the clean-up closes every overdue invitation for   *)
(* good, although a run ends early at each invitation answered meanwhile.  *)
OverdueAreClosed ==
    <>[](\A i \in Invitation : ~ Overdue(i))

=============================================================================
