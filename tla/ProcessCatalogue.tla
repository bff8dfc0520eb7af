-------------------------- MODULE ProcessCatalogue --------------------------
(***************************************************************************)
(* The recruitment processes an application can run through, as the rows   *)
(* of `recruitment_processes` and `process_stage_links`: versions of       *)
(* process lines, and the links that place a stage in a version.           *)
(*                                                                         *)
(* The catalogue is a constant of the application modules: while an        *)
(* application moves, versions are not published or archived under it.     *)
(* Several links of one process may carry the same order: the code states  *)
(* that the real database holds such rows.                                 *)
(***************************************************************************)
EXTENDS Integers, FiniteSets

CONSTANTS
    Processes,      \* version rows of all process lines
    Links,          \* process_stage_links rows
    Stages,
    ProcessOf,      \* link -> its process
    StageOf,        \* link -> its stage
    Order,          \* link -> its `order`
    Rank,           \* link -> place in (created_at, id) order, breaks ties of Order
    Required,       \* the links with is_required
    Schedulable,    \* the stages with supports_to_be_scheduled
    LineOf,         \* process -> its `code`
    SeqOf,          \* process -> its version_seq
    Latest,         \* the rows with is_latest
    Archived        \* the rows with status ARCHIVED; the others are ENABLED

ASSUME CatalogueAssumption ==
    /\ ProcessOf \in [Links -> Processes]
    /\ StageOf \in [Links -> Stages]
    /\ Order \in [Links -> Nat]
    /\ Rank \in [Links -> Nat]
    /\ Required \subseteq Links
    /\ Schedulable \subseteq Stages
    /\ SeqOf \in [Processes -> Nat]
    /\ Latest \subseteq Processes
    /\ Archived \subseteq Processes

(* unique_together(process, stage), and (created_at, id) identifies a row. *)
ASSUME UniqueLinksAssumption ==
    \A k, l \in Links :
        k # l => /\ Rank[k] # Rank[l]
                 /\ ProcessOf[k] = ProcessOf[l] => StageOf[k] # StageOf[l]

LinksOf(p) == {l \in Links : ProcessOf[l] = p}

RequiredLinks(p) == LinksOf(p) \cap Required

(***************************************************************************)
(* The next required stage after link l in process p: a required link of   *)
(* p with the least order above l's.  `.order_by('order').first()` leaves  *)
(* the choice among equal orders to the database.                          *)
(***************************************************************************)
NextLinks(p, l) ==
    LET after == {m \in RequiredLinks(p) : Order[m] > Order[l]}
    IN  {m \in after : \A n \in after : Order[m] <= Order[n]}

(* What a new record of link l starts in, except the one creation makes.   *)
EntryState(l) == IF StageOf[l] \in Schedulable THEN "TO_BE_SCHEDULED" ELSE "PENDING"

(***************************************************************************)
(* The links an automatic skip cascade of process p can run through from   *)
(* link t: t, and after each link that is left one of its next required    *)
(* links.  The cascade ends at its last link, a set of one.                *)
(***************************************************************************)
Cascades(p, t) ==
    {S \in SUBSET LinksOf(p) :
        /\ t \in S
        /\ \A l \in S \ {t} : \E k \in S : l \in NextLinks(p, k)
        /\ \A k, l \in S : Order[k] = Order[l] => k = l}

LastLinks(S) == {l \in S : \A k \in S : Order[k] <= Order[l]}

(***************************************************************************)
(* The landing of a version upgrade, a set of one link: the link of the    *)
(* target process with the same stage, else the last link ordered before   *)
(* the current one, else the first link.  Without a current link it is the *)
(* first link.                                                             *)
(***************************************************************************)
SortsBefore(k, l) ==
    Order[k] < Order[l] \/ (Order[k] = Order[l] /\ Rank[k] <= Rank[l])

FirstOf(S) == {k \in S : \A l \in S : SortsBefore(k, l)}
LastOf(S)  == {k \in S : \A l \in S : SortsBefore(l, k)}

Landing(l, q) ==
    LET exact == {m \in LinksOf(q) : StageOf[m] = StageOf[l]}
        predecessors == {m \in LinksOf(q) : Order[m] < Order[l]}
    IN  IF l \notin Links THEN FirstOf(LinksOf(q))
        ELSE IF exact # {} THEN FirstOf(exact)
        ELSE IF predecessors # {} THEN LastOf(predecessors)
        ELSE FirstOf(LinksOf(q))

(* What the upgrade endpoint accepts as the target of process p.           *)
UpgradeTargets(p) ==
    {q \in Latest \ (Archived \cup {p}) :
        LineOf[q] = LineOf[p] /\ SeqOf[q] >= SeqOf[p] /\ LinksOf(q) # {}}

=============================================================================
