-------------------------- MODULE ApplicationClaims --------------------------
(***************************************************************************)
(* A statement the comments of the repository make about applications and  *)
(* the code does not keep, refuted by a run.  The specification adds to    *)
(* ApplicationLifecycle the one request it leaves out because it changes   *)
(* nothing: an advance the entry condition refuses.                        *)
(***************************************************************************)
EXTENDS ApplicationLifecycle

VARIABLE refused    \* ACTIVE applications an entry condition has refused

cvars == <<row, rec, stray, cand, soft, refused>>

CInit == Init /\ refused = {}

(* The refused branch of advance moves the candidate to the pool, makes    *)
(* the entry, rejects and saves the application, and then raises inside    *)
(* its own transaction: every write of the call is rolled back.            *)
AdvanceRefused(x) ==
    /\ x.row.state = "ACTIVE"
    /\ HasRecord(x.app, x.row.link)
    /\ NextLinks(x.row.proc, x.row.link) # {}
    /\ refused' = refused \cup {x.app}
    /\ UNCHANGED vars

CNext ==
    \/ Next /\ UNCHANGED refused
    \/ \E a \in Apps : AdvanceRefused(View(a))

CSpec == CInit /\ [][CNext]_cvars

-----------------------------------------------------------------------------
(* "The reject state machine is the main path": an application whose       *)
(* advance the entry condition refused is REJECTED.                        *)
RefusedIsRejected == \A a \in refused : row[a].state = "REJECTED"

=============================================================================
