----------------------------- MODULE OrderLedger -----------------------------
(***************************************************************************)
(* What the integration app promises of a background-check order, the      *)
(* supplier, handlers and failing writes left out.  The history of an      *)
(* order is written ahead of it and lives and dies with it: one beginning  *)
(* at most, and no status the order takes that was not told before.        *)
(***************************************************************************)
CONSTANTS Orders, Statuses,
          Missing       \* the status of an order that does not exist

VARIABLES
    status,       \* order -> its status, or Missing
    told          \* order -> the statuses told of it, each as its first or not

Init == status = [o \in Orders |-> Missing] /\ told = [o \in Orders |-> {}]

Appear(o, s) ==
    /\ status[o] = Missing
    /\ status' = [status EXCEPT ![o] = s]
    /\ UNCHANGED told

Tell(o, s, first) ==
    /\ status[o] # Missing
    /\ first => \A t \in told[o] : ~ t.first
    /\ told' = [told EXCEPT ![o] = @ \cup {[first |-> first, status |-> s]}]
    /\ UNCHANGED status

Take(o, s) ==
    /\ status[o] # Missing
    /\ \E t \in told[o] : t.status = s
    /\ status' = [status EXCEPT ![o] = s]
    /\ UNCHANGED told

Remove(o) ==
    /\ status[o] # Missing
    /\ status' = [status EXCEPT ![o] = Missing]
    /\ told' = [told EXCEPT ![o] = {}]

Next ==
    \E o \in Orders :
        \/ \E s \in Statuses : Appear(o, s) \/ Take(o, s)
        \/ \E s \in Statuses, first \in BOOLEAN : Tell(o, s, first)
        \/ Remove(o)

Spec == Init /\ [][Next]_<<status, told>>

=============================================================================
