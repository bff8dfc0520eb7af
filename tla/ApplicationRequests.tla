------------------------ MODULE ApplicationRequests ------------------------
(***************************************************************************)
(* The application service under overlapping requests.  A view loads its   *)
(* instance outside the service's transaction and without a row lock, and  *)
(* the service decides and writes from that instance, so the handlers of   *)
(* ApplicationLifecycle run here on instances that other requests may have *)
(* overtaken.  Each service call is still one transaction, and grab and    *)
(* release still reload the row under its lock.                            *)
(*                                                                         *)
(* create_application looks for a duplicate and inserts with no lock and   *)
(* no unique constraint between: the check is the load of its request.     *)
(***************************************************************************)
EXTENDS ApplicationLifecycle

CONSTANTS Workers, Idle

VARIABLE held    \* worker -> Idle, the instance it loaded, or a checked creation

rvars == <<row, rec, stray, cand, soft, held>>

RInit == Init /\ held = [w \in Workers |-> Idle]

(* A view loads its instance, joined with the candidate.  A creation       *)
(* loads that there is no duplicate.                                       *)
Load(w, a) ==
    /\ held[w] = Idle
    /\ row[a].state = "ABSENT" => ~ Duplicate(a)
    /\ held' = [held EXCEPT ![w] = View(a)]
    /\ UNCHANGED vars

(* Editing, blacklisting and merging candidates save every column of the   *)
(* candidate they loaded, the state among them.                            *)
SaveCandidate(x) ==
    /\ SetCandidate(CandidateOf[x.app], x.cand)
    /\ UNCHANGED <<row, rec, stray, soft>>

(* The call: the candidate's own endpoints use only the candidate.         *)
Commit(w) ==
    /\ held[w] # Idle
    /\ held' = [held EXCEPT ![w] = Idle]
    /\ LET x == held[w]
       IN  \/ /\ x.row.state = "ABSENT"
              /\ \E p \in Processes, l \in Links : InsertApplication(x.app, p, l)
           \/ Request(x)
           \/ CandidateTransition(CandidateOf[x.app], x.cand)
           \/ SaveCandidate(x)

(* The service refuses with 409, or the request dies: nothing is written.  *)
Refuse(w) ==
    /\ held[w] # Idle
    /\ held' = [held EXCEPT ![w] = Idle]
    /\ UNCHANGED vars

RNext ==
    \/ \E w \in Workers, a \in Apps : Load(w, a)
    \/ \E w \in Workers : Commit(w) \/ Refuse(w)
    \/ Next /\ UNCHANGED held      \* a request that nothing overtakes

RSpec == RInit /\ [][RNext]_rvars

-----------------------------------------------------------------------------
(* What a worker holds is nothing or an instance of some application.      *)
HeldOK ==
    held \in [Workers -> {Idle} \cup Instance]

RTypeOK == TypeOK /\ HeldOK

=============================================================================
