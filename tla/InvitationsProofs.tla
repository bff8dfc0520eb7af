-------------------------- MODULE InvitationsProofs --------------------------
(***************************************************************************)
(* Theorems about invitations, for every number of invitations, requests   *)
(* and users.  Every write but the deletion mark writes a whole image, and *)
(* every image is one the transitions lead to: that is what survives.      *)
(***************************************************************************)
EXTENDS Invitations, TLAPS

HeldWhole == \A w \in Workers : held[w] # Idle => Whole(held[w].row)
TaskWhole == task \in ImageType => Whole(task.row)

HeldExist == \A w \in Workers : held[w] # Idle => row[held[w].inv] # NoRow

(* The inductive invariant.                                                *)
Sound == TypeOK /\ WholeRows /\ HeldWhole /\ TaskWhole /\ HeldExist

-----------------------------------------------------------------------------
(* What a request asks of a whole row is a whole row.                      *)
LEMMA RequestedWhole ==
    ASSUME NEW r \in Row, Whole(r), NEW q \in Requested(r)
    PROVE  q \in Row /\ Whole(q)
<1>1. CASE q \in start_inviting(r)
  BY <1>1 DEF start_inviting, Row, Whole, InvitationState
<1>2. CASE q \in answer(r)
  <2>1. PICK s \in {"SUCCESS", "FAILED"} : q = [r EXCEPT !.state = s, !.answered = TRUE]
    BY <1>2 DEF answer
  <2>2. r.state = "INVITING"
    BY <1>2 DEF answer
  <2> QED BY <2>1, <2>2 DEF Row, Whole, InvitationState
<1>3. CASE q \in timeout(r)
  BY <1>3 DEF timeout, Row, Whole, InvitationState, Open
<1>4. CASE q \in grab(r)
  <2>1. PICK u \in Users : q = [r EXCEPT !.grabbed_by = u]
    BY <1>4 DEF grab
  <2>2. r.state = "INVITING"
    BY <1>4 DEF grab
  <2> QED BY <2>1, <2>2 DEF Row, Whole, InvitationState
<1>5. CASE q \in edit(r)
  <2>1. PICK e \in Expiries, g \in BOOLEAN :
           q = [r EXCEPT !.expire_at = e, !.is_grab_pool = g]
    BY <1>5 DEF edit
  <2> QED BY <2>1 DEF Row, Whole, InvitationState
<1> QED BY <1>1, <1>2, <1>3, <1>4, <1>5 DEF Requested

LEMMA TimeoutWhole ==
    ASSUME NEW r \in Row, Whole(r), NEW q \in timeout(r)
    PROVE  q \in Row /\ Whole(q)
  BY RequestedWhole DEF Requested

-----------------------------------------------------------------------------
LEMMA SoundInit == Init => Sound
  BY BoundsAssumption, NoneAssumption
  DEF Init, Sound, TypeOK, WholeRows, HeldWhole, TaskWhole, HeldExist

LEMMA SoundStep == Sound /\ [Next]_vars => Sound'
<1> SUFFICES ASSUME Sound, [Next]_vars PROVE Sound'
  OBVIOUS
<1> USE BoundsAssumption, NoneAssumption DEF Sound, TypeOK
<1>1. ASSUME NEW i \in Invitation, Create(i) PROVE Sound'
  <2>1. PICK e \in Expiries, g \in BOOLEAN :
           row' = [row EXCEPT ![i] =
                     [state |-> "PENDING", expire_at |-> e, is_grab_pool |-> g,
                      grabbed_by |-> NoUser, answered |-> FALSE, deleted |-> FALSE]]
    BY <1>1 DEF Create, Save
  <2>2. row' \in [Invitation -> Row \cup {NoRow}]
    BY <2>1 DEF Row, InvitationState
  <2>3. WholeRows'
    BY <2>1 DEF WholeRows, Whole
  <2>4. HeldExist'
    BY <1>1, <2>1 DEF Create, HeldExist, ImageType, Row, InvitationState
  <2> QED BY <1>1, <2>2, <2>3, <2>4 DEF Create, HeldWhole, TaskWhole, sweepVars
<1>2. ASSUME NEW w \in Workers, NEW i \in Invitation, Load(w, i) PROVE Sound'
  <2>1. row[i] \in Row /\ Whole(row[i])
    BY <1>2 DEF Load, Live, WholeRows
  <2>2. held' = [held EXCEPT ![w] = [inv |-> i, row |-> row[i]]]
    BY <1>2 DEF Load, Image
  <2>3. held' \in [Workers -> ImageType \cup {Idle}] /\ HeldWhole' /\ HeldExist'
    BY <1>2, <2>1, <2>2 DEF HeldWhole, HeldExist, ImageType, Load
  <2> QED BY <1>2, <2>3 DEF Load, sweepVars, WholeRows, TaskWhole
<1>3. ASSUME NEW w \in Workers, Commit(w) PROVE Sound'
  <2>1. held[w] \in ImageType /\ held[w].inv \in Invitation
           /\ held[w].row \in Row /\ Whole(held[w].row)
    BY <1>3 DEF Commit, HeldWhole, ImageType
  <2>2. PICK q \in Requested(held[w].row) : row' = [row EXCEPT ![held[w].inv] = q]
    BY <1>3 DEF Commit, Save
  <2>3. q \in Row /\ Whole(q)
    BY <2>1, RequestedWhole
  <2>4. row' \in [Invitation -> Row \cup {NoRow}] /\ WholeRows'
    BY <2>1, <2>2, <2>3 DEF WholeRows
  <2>5. held' \in [Workers -> ImageType \cup {Idle}] /\ HeldWhole' /\ HeldExist'
    BY <1>3, <2>1, <2>2, <2>3 DEF Commit, HeldWhole, HeldExist, ImageType
  <2> QED BY <1>3, <2>4, <2>5 DEF Commit, sweepVars, TaskWhole
<1>4. ASSUME NEW w \in Workers, Destroy(w) PROVE Sound'
  <2>1. held' \in [Workers -> ImageType \cup {Idle}] /\ HeldWhole'
    BY <1>4 DEF Destroy, HeldWhole
  <2>2. row' \in [Invitation -> Row \cup {NoRow}] /\ WholeRows'
    <3>1. PICK i \in Invitation : row' = [row EXCEPT ![i].deleted = TRUE] /\ i = held[w].inv
      BY <1>4 DEF Destroy, ImageType
    <3>2. CASE row[i] \in Row
      BY <3>1, <3>2 DEF WholeRows, Whole, Row
    <3>3. row[i] \in Row
      BY <1>4, <3>1 DEF Destroy, HeldExist
    <3> QED BY <3>2, <3>3
  <2>3. HeldExist'
    BY <1>4 DEF Destroy, HeldExist, ImageType, Row
  <2> QED BY <1>4, <2>1, <2>2, <2>3 DEF Destroy, sweepVars, TaskWhole
<1>5. ASSUME NEW w \in Workers, Refuse(w) PROVE Sound'
  BY <1>5 DEF Refuse, sweepVars, WholeRows, HeldWhole, TaskWhole, HeldExist
<1>6. CASE List
  BY <1>6 DEF List, WholeRows, HeldWhole, TaskWhole, HeldExist
<1>7. ASSUME NEW i \in Invitation, TakeUp(i) PROVE Sound'
  <2>1. row[i] \in Row /\ Whole(row[i])
    BY <1>7 DEF TakeUp, Live, WholeRows
  <2>2. task' \in ImageType /\ TaskWhole'
    BY <1>7, <2>1 DEF TakeUp, Image, ImageType, TaskWhole
  <2> QED BY <1>7, <2>2 DEF TakeUp, WholeRows, HeldWhole, HeldExist
<1>8. CASE Close
  <2>1. task \in ImageType /\ task.inv \in Invitation
           /\ task.row \in Row /\ Whole(task.row)
    BY <1>8 DEF Close, TaskWhole, ImageType
  <2>2. PICK q \in timeout(task.row) : row' = [row EXCEPT ![task.inv] = q]
    BY <1>8 DEF Close, Save
  <2>3. q \in Row /\ Whole(q)
    BY <2>1, TimeoutWhole
  <2>4. row' \in [Invitation -> Row \cup {NoRow}] /\ WholeRows'
    BY <2>1, <2>2, <2>3 DEF WholeRows
  <2>5. HeldExist'
    BY <1>8, <2>1, <2>2, <2>3 DEF Close, HeldExist, ImageType
  <2> QED BY <1>8, <2>4, <2>5 DEF Close, HeldWhole, TaskWhole
<1>9. CASE Abort
  BY <1>9 DEF Abort, WholeRows, HeldWhole, TaskWhole, HeldExist
<1>10. CASE Finish
  BY <1>10 DEF Finish, WholeRows, HeldWhole, TaskWhole, HeldExist
<1>11. CASE Die
  BY <1>11 DEF Die, WholeRows, HeldWhole, TaskWhole, HeldExist
<1>12. CASE Tick
  BY <1>12 DEF Tick, WholeRows, HeldWhole, TaskWhole, HeldExist
<1>13. CASE UNCHANGED vars
  BY <1>13 DEF vars, WholeRows, HeldWhole, TaskWhole, HeldExist
<1> QED BY <1>1, <1>2, <1>3, <1>4, <1>5, <1>6, <1>7, <1>8, <1>9, <1>10, <1>11,
           <1>12, <1>13 DEF Next, Sweep

THEOREM SoundAlways == Spec => []Sound
  BY SoundInit, SoundStep, PTL DEF Spec

-----------------------------------------------------------------------------
(* Rows, images and the clean-up's list keep their types however requests  *)
(* and the clean-up overlap.                                               *)
THEOREM InvitationsTypeCorrect == Spec => []TypeOK
<1>1. Sound => TypeOK
  BY DEF Sound
<1> QED BY SoundAlways, <1>1, PTL

(* An invitation is answered exactly when its state is an answer, and was  *)
(* sent out if it was grabbed, though stale images overwrite newer ones.   *)
THEOREM InvitationsWhole == Spec => []WholeRows
<1>1. Sound => WholeRows
  BY DEF Sound
<1> QED BY SoundAlways, <1>1, PTL

=============================================================================
