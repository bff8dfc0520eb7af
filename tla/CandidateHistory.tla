-------------------------- MODULE CandidateHistory --------------------------
(***************************************************************************)
(* The history of a candidate, a chain of hashed rows.  An append takes the*)
(* newest row of the candidate, locks it, and inserts a row that carries   *)
(* the next number and the hash of that row.  Merging moves the rows of the*)
(* duplicate to the primary candidate in bulk; purging personal data       *)
(* rewrites the details and hashes the whole chain again.                  *)
(*                                                                         *)
(* The databases of the repository (external) run at READ COMMITTED.  The  *)
(* lock on the newest row makes an overtaken append wait, but not look     *)
(* again: the row it waited for has not changed, and it goes on from it, or*)
(* from a newer one its scan comes across.  A candidate without rows has   *)
(* nothing to lock.                                                        *)
(*                                                                         *)
(* Kept of a row: candidate, number, detail (which stands for action and   *)
(* author too), both hashes.  A hash is an operator of what is hashed.     *)
(***************************************************************************)
EXTENDS Naturals, Sequences, FiniteSets

CONSTANTS Candidates, Transactions, Idle, NoHash,
          Hash(_, _, _, _),   \* of candidate, number, detail and previous hash
          Details,            \* what a row may say
          Scrubbed,           \* a detail with its personal data taken out
          MaxRows             \* bound on the rows of the table

(* What a transaction goes on from: the newest row it saw, and for a purge *)
(* all the rows it saw.                                                    *)
Work == [candidate : Candidates, base : 0..MaxRows, seen : SUBSET (1..MaxRows),
         purge : BOOLEAN]

ASSUME IdleAssumption == Idle \notin Work
ASSUME DetailAssumption == Scrubbed \in Details /\ MaxRows \in Nat

VARIABLES
    table,        \* the rows in the order of their insertion
    held,         \* transaction -> Idle or the append or purge it is doing
    merged,       \* the duplicates that were merged away
    overlapped,   \* history: candidates two transactions worked on at once
    moved         \* history: candidates that rows were moved from or to

vars == <<table, held, merged, overlapped, moved>>

Init ==
    /\ table = <<>>
    /\ held = [t \in Transactions |-> Idle]
    /\ merged = {} /\ overlapped = {} /\ moved = {}

RowsOf(rows, c) == {i \in DOMAIN rows : rows[i].candidate = c}
Before(rows, i, j) ==
    \/ rows[i].seq < rows[j].seq
    \/ rows[i].seq = rows[j].seq /\ i < j

(* The newest row, as a set of one: the greatest number, the youngest of   *)
(* those; 0 if there is no row.                                            *)
Newest(rows, c) ==
    IF RowsOf(rows, c) = {} THEN {0}
    ELSE {i \in RowsOf(rows, c) : \A j \in RowsOf(rows, c) \ {i} : Before(rows, j, i)}

NumberFromZero(rows, base) == IF base = 0 THEN 0 ELSE rows[base].seq + 1
NumberByCount(rows, base) ==
    IF base = 0 THEN 1 ELSE Cardinality(RowsOf(rows, rows[base].candidate)) + 1
NextNumber(rows, base) == IF base = 0 THEN 1 ELSE rows[base].seq + 1

(* The rows with one more, which continues the chain of c after row base.  *)
Chained(rows, c, base, d) ==
    LET seq  == NextNumber(rows, base)
        prev == IF base = 0 THEN NoHash ELSE rows[base].row_hash
    IN  Append(rows, [candidate |-> c, seq |-> seq, detail |-> d, prev_hash |-> prev,
                      row_hash |-> Hash(c, seq, d, prev)])

-----------------------------------------------------------------------------
(* A transaction begins to append to, or to purge, the history of c: it has*)
(* seen the rows there are.                                                *)
Begin(t, c, purge) ==
    /\ held[t] = Idle
    /\ c \notin merged
    /\ \E base \in Newest(table, c) :
          held' = [held EXCEPT ![t] = [candidate |-> c, base |-> base,
                                       seen |-> IF purge THEN RowsOf(table, c) ELSE {},
                                       purge |-> purge]]
    /\ overlapped' = overlapped \cup
          {x \in {c} : \E s \in Transactions : held[s] # Idle /\ held[s].candidate = c}
    /\ UNCHANGED <<table, merged, moved>>

End(t) == held' = [held EXCEPT ![t] = Idle] /\ UNCHANGED <<merged, overlapped, moved>>

AppendRow(t) ==
    /\ held[t] # Idle /\ ~ held[t].purge
    /\ Len(table) < MaxRows
    /\ \E base \in {held[t].base} \cup Newest(table, held[t].candidate),
          d \in Details \ {Scrubbed} :
          table' = Chained(table, held[t].candidate, base, d)
    /\ End(t)

(* Of the rows R those before row i, the last of rows S, and the hash that *)
(* row i names when the rows R have the new hashes.                        *)
Earlier(R, i) == {j \in R : Before(table, j, i)}
LastOf(S) == CHOOSE j \in S : \A k \in S \ {j} : Before(table, k, j)
Previous(R, hash, i) == IF Earlier(R, i) = {} THEN NoHash ELSE hash[LastOf(Earlier(R, i))]

(* The rows R hashed again for c, one after the other by their numbers.    *)
HashesOfDetails(c, R) ==
    LET hash[i \in R] == Hash(c, table[i].seq, table[i].detail, Previous(R, hash, i))
    IN  hash
NewHashes(c, R) ==
    LET hash[i \in R] == Hash(c, table[i].seq, Scrubbed, Previous(R, hash, i)) IN hash

(* The rows R scrubbed, and hashed again.                                  *)
RehashAlone(c, R) ==
    [i \in DOMAIN table |->
        IF i \in R
        THEN [table[i] EXCEPT !.detail = Scrubbed,
                 !.row_hash = Hash(c, table[i].seq, Scrubbed, table[i].prev_hash)]
        ELSE table[i]]

Rehash(c, R) ==
    LET hash == NewHashes(c, R)
    IN  [i \in DOMAIN table |->
            IF i \in R
            THEN [table[i] EXCEPT !.detail = Scrubbed,
                                  !.prev_hash = Previous(R, hash, i),
                                  !.row_hash = hash[i]]
            ELSE table[i]]

(* A purge rewrites the rows it has seen, wherever a merge has moved them, *)
(* and appends its mark.                                                   *)
Purge(t) ==
    LET c == held[t].candidate
        rows == Rehash(c, held[t].seen)
    IN  /\ held[t] # Idle /\ held[t].purge
        /\ Len(table) < MaxRows
        /\ \E base \in Newest(rows, c) : table' = Chained(rows, c, base, Scrubbed)
        /\ End(t)

Rollback(t) == held[t] # Idle /\ End(t) /\ UNCHANGED table

(* merge_candidates: every row of the duplicate changes hands as it is,    *)
(* and the primary's history goes on from the newest of all.               *)
Merge(primary, dup) ==
    LET rows == [i \in DOMAIN table |->
                    IF table[i].candidate = dup
                    THEN [table[i] EXCEPT !.candidate = primary] ELSE table[i]]
    IN  /\ primary # dup /\ {primary, dup} \cap merged = {}
        /\ Len(table) < MaxRows
        /\ \E base \in Newest(rows, primary), d \in Details \ {Scrubbed} :
              table' = Chained(rows, primary, base, d)
        /\ merged' = merged \cup {dup}
        /\ moved' = moved \cup {primary, dup}
        /\ UNCHANGED <<held, overlapped>>

Next ==
    \/ \E t \in Transactions, c \in Candidates, purge \in BOOLEAN : Begin(t, c, purge)
    \/ \E t \in Transactions : AppendRow(t) \/ Purge(t) \/ Rollback(t)
    \/ \E primary, dup \in Candidates : Merge(primary, dup)

Spec == Init /\ [][Next]_vars

-----------------------------------------------------------------------------
(* histories_verify: the numbers are 1, 2, ..., each row hashes to its own *)
(* and names the hash of the row before.                                   *)
OwnHash(row) == row.row_hash = Hash(row.candidate, row.seq, row.detail, row.prev_hash)
Linked(c, i) ==
    \/ table[i].seq = 1 /\ table[i].prev_hash = NoHash
    \/ \E j \in RowsOf(table, c) : /\ table[j].seq + 1 = table[i].seq
                                   /\ table[i].prev_hash = table[j].row_hash
Verified(c) ==
    \A i \in RowsOf(table, c) :
        /\ \A j \in RowsOf(table, c) : table[j].seq = table[i].seq => j = i
        /\ OwnHash(table[i])
        /\ Linked(c, i)

TypeOK ==
    /\ Len(table) <= MaxRows
    /\ \A i \in DOMAIN table : /\ table[i].candidate \in Candidates
                               /\ table[i].seq \in 1..MaxRows
                               /\ table[i].detail \in Details
    /\ held \in [Transactions -> Work \cup {Idle}]
    /\ \A t \in Transactions : held[t] # Idle => held[t].seen \subseteq DOMAIN table
    /\ merged \subseteq moved /\ moved \subseteq Candidates
    /\ overlapped \subseteq Candidates

(* A history whose appends and purges never overlapped, and which was never*)
(* merged, always verifies: also after a purge that rewrote all of it.     *)
SerialHistoryVerifies ==
    \A c \in Candidates \ (overlapped \cup moved) : Verified(c)

(* However appends and purges overlap, a row of a history that was never  *)
(* merged hashes to its own: what an overlap breaks are the links.         *)
RowsHashToTheirOwn ==
    \A c \in Candidates \ moved : \A i \in RowsOf(table, c) : OwnHash(table[i])

(* However appends, purges and merges overlap, no number of a history that *)
(* is still a candidate's own is left out: what they can do is to give one *)
(* twice.                                                                  *)
NoNumberMissing ==
    \A c \in Candidates \ merged : \A i \in RowsOf(table, c) :
        table[i].seq = 1 \/ \E j \in RowsOf(table, c) : table[j].seq + 1 = table[i].seq

=============================================================================
