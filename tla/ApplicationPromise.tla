------------------------- MODULE ApplicationPromise -------------------------
(***************************************************************************)
(* What the application service promises of an application and of its      *)
(* candidate, stages, records and claims left out: each takes only the     *)
(* transitions its state machine declares, and the two are coupled.  A     *)
(* candidate enters the process when a first application starts, and an    *)
(* application is withdrawn together with its candidate or not at all.     *)
(***************************************************************************)
EXTENDS RecruitmentStates

CONSTANTS Apps, Candidates, CandidateOf

VARIABLES state, cand

Init ==
    /\ state = [a \in Apps |-> "ABSENT"]
    /\ cand = [c \in Candidates |-> "APPLIED"]

Apply(a) ==
    /\ state[a] = "ABSENT"
    /\ state' = [state EXCEPT ![a] = "PENDING"]
    /\ UNCHANGED cand

(* An application created in bulk is ACTIVE at once, its candidate untold. *)
Import(a) ==
    /\ state[a] = "ABSENT"
    /\ state' = [state EXCEPT ![a] = "ACTIVE"]
    /\ UNCHANGED cand

Start(a) ==
    /\ state[a] \in ApplicationFSM.start.from
    /\ state' = [state EXCEPT ![a] = ApplicationFSM.start.to]
    /\ LET c == CandidateOf[a]
       IN  IF cand[c] \in CandidateFSM.enter_process.from
           THEN cand' = [cand EXCEPT ![c] = CandidateFSM.enter_process.to]
           ELSE UNCHANGED cand

Withdraw(a) ==
    /\ state[a] \in ApplicationFSM.withdraw.from
    /\ cand[CandidateOf[a]] \in CandidateFSM.withdraw.from
    /\ state' = [state EXCEPT ![a] = ApplicationFSM.withdraw.to]
    /\ cand' = [cand EXCEPT ![CandidateOf[a]] = CandidateFSM.withdraw.to]

(* Every other transition of the application leaves its candidate alone.   *)
ApplicationStep(a) ==
    \E m \in DOMAIN ApplicationFSM \ {"start", "withdraw"} :
        /\ state[a] \in ApplicationFSM[m].from
        /\ state' = [state EXCEPT ![a] = ApplicationFSM[m].to]
        /\ UNCHANGED cand

CandidateStep(c) ==
    \E m \in DOMAIN CandidateFSM :
        /\ cand[c] \in CandidateFSM[m].from
        /\ cand' = [cand EXCEPT ![c] = CandidateFSM[m].to]
        /\ UNCHANGED state

Next ==
    \/ \E a \in Apps : Apply(a) \/ Import(a) \/ Start(a) \/ Withdraw(a) \/ ApplicationStep(a)
    \/ \E c \in Candidates : CandidateStep(c)

Spec == Init /\ [][Next]_<<state, cand>>

=============================================================================
