-------------------------- MODULE RecruitmentStates --------------------------
(***************************************************************************)
(* The state tables of the recruitment backend: the states of an           *)
(* application, of a candidate and of an application's stage record, and   *)
(* the transitions their finite-state machines declare.                    *)
(*                                                                         *)
(* A transition is a record [from, to]: the set of source states and the   *)
(* target of a `@transition` method.  django-fsm raises                    *)
(* TransitionNotAllowed, and the services answer 409, from any other       *)
(* source state.                                                           *)
(***************************************************************************)

ApplicationState ==
    {"PENDING", "ACTIVE", "PAUSED", "OFFER_SENT", "OFFER_ACCEPTED",
     "ONBOARDED", "REJECTED", "WITHDRAWN", "TIMEOUT"}

ApplicationFSM ==
    [start            |-> [from |-> {"PENDING"},            to |-> "ACTIVE"],
     pause            |-> [from |-> {"ACTIVE"},             to |-> "PAUSED"],
     resume           |-> [from |-> {"PAUSED"},             to |-> "ACTIVE"],
     send_offer_state |-> [from |-> {"ACTIVE"},             to |-> "OFFER_SENT"],
     accept_offer     |-> [from |-> {"OFFER_SENT"},         to |-> "OFFER_ACCEPTED"],
     mark_onboarded   |-> [from |-> {"OFFER_ACCEPTED"},     to |-> "ONBOARDED"],
     mark_rejected    |-> [from |-> {"ACTIVE", "PAUSED"},   to |-> "REJECTED"],
     withdraw         |-> [from |-> {"PENDING", "ACTIVE", "PAUSED", "OFFER_SENT",
                                     "OFFER_ACCEPTED"},
                           to   |-> "WITHDRAWN"],
     timeout_archive  |-> [from |-> {"PENDING", "ACTIVE", "PAUSED"},
                           to   |-> "TIMEOUT"]]

(* Faulty form of LiveStates: an application with an offer is forgotten.   *)
LiveWithoutOffer == {"PENDING", "ACTIVE", "PAUSED"}

(* The states the creation check counts as "not finished".                 *)
LiveStates == {"PENDING", "ACTIVE", "PAUSED", "OFFER_SENT", "OFFER_ACCEPTED"}

(* Faulty form of MovableStates: stages can still be decided after an offer. *)
MovableWithOffer == {"ACTIVE", "PENDING", "OFFER_SENT"}

(* advance, jump and soft_reject accept an application in these states.    *)
MovableStates == {"ACTIVE", "PENDING"}

(* What the stale-application task selects.                                *)
StaleTaskStates == {"ACTIVE", "PAUSED"}

CandidateState ==
    {"APPLIED", "IN_PROCESS", "OFFER_SENT", "PENDING_ONBOARDING", "ONBOARDED",
     "PROCESS_FAILED", "WITHDRAWN", "TALENT_POOL", "PROCESS_PAUSED"}

CandidateFSM ==
    [enter_process       |-> [from |-> {"APPLIED"},    to |-> "IN_PROCESS"],
     send_offer          |-> [from |-> {"IN_PROCESS"}, to |-> "OFFER_SENT"],
     move_to_pool        |-> [from |-> {"APPLIED", "IN_PROCESS", "OFFER_SENT"},
                              to   |-> "TALENT_POOL"],
     mark_onboarded      |-> [from |-> {"OFFER_SENT", "PENDING_ONBOARDING"},
                              to   |-> "ONBOARDED"],
     withdraw            |-> [from |-> {"APPLIED", "IN_PROCESS", "OFFER_SENT",
                                        "PENDING_ONBOARDING", "PROCESS_PAUSED"},
                              to   |-> "WITHDRAWN"],
     mark_process_failed |-> [from |-> {"APPLIED", "IN_PROCESS", "OFFER_SENT",
                                        "PROCESS_PAUSED"},
                              to   |-> "PROCESS_FAILED"],
     pause_process       |-> [from |-> {"IN_PROCESS"},     to |-> "PROCESS_PAUSED"],
     resume_process      |-> [from |-> {"PROCESS_PAUSED"}, to |-> "IN_PROCESS"]]

StageState ==
    {"NOT_STARTED", "PENDING", "TO_BE_SCHEDULED", "PROCESSING", "PASSED",
     "FAILED", "SKIPPED", "REJECTED", "TIMEOUT", "ARCHIVED"}

(* The states of a stage record somebody still has to work on: the ones    *)
(* withdraw closes.                                                        *)
OpenStates == {"PENDING", "PROCESSING", "TO_BE_SCHEDULED"}

=============================================================================
