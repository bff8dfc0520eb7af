---------------------------- MODULE VersionLines ----------------------------
(***************************************************************************)
(* What process versioning promises, requests and rows left out: the       *)
(* versions of a line are added one on top of the other and stay; the      *)
(* newest one at most has the latest mark, which it takes as it is added,  *)
(* may lose, and never gets back.                                          *)
(***************************************************************************)
EXTENDS Naturals

VARIABLES
    versions,     \* the versions there ever were: line and number
    latest        \* those with the latest mark

Init == versions = {} /\ latest = {}

OfLine(S, l) == {v \in S : v.line = l}

(* A line begins, with the latest mark (copy) or without (creation).       *)
First(v) ==
    /\ v.seq = 1
    /\ OfLine(versions, v.line) = {}
    /\ versions' = versions \cup {v}
    /\ latest' \in {latest, latest \cup {v}}

(* A version on top of the newest one takes the mark from whoever has it.  *)
Upgrade(v) ==
    /\ \E u \in OfLine(versions, v.line) :
          /\ v.seq = u.seq + 1
          /\ \A s \in OfLine(versions, v.line) : s.seq <= u.seq
    /\ versions' = versions \cup {v}
    /\ latest' = (latest \ OfLine(latest, v.line)) \cup {v}

Retire(v) ==
    /\ v \in latest
    /\ latest' = latest \ {v}
    /\ UNCHANGED versions

Next ==
    \/ \E v \in versions' \ versions : First(v) \/ Upgrade(v)
    \/ \E v \in latest : Retire(v)

Spec == Init /\ [][Next]_<<versions, latest>>

=============================================================================
