------------------------ MODULE ApplicationRefinement ------------------------
(***************************************************************************)
(* The application service, with its stages, records and claims, implements *)
(* ApplicationPromise while requests run one after another.                *)
(***************************************************************************)
EXTENDS ApplicationLifecycle

stateOf == [a \in Apps |-> row[a].state]

Promise == INSTANCE ApplicationPromise WITH state <- stateOf, cand <- cand

(* Every step of the service is a step its state machines allow, of one    *)
(* application or one candidate or of both together, or changes neither.   *)
KeepsPromise == Promise!Spec

=============================================================================
