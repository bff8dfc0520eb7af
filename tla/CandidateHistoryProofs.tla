----------------------- MODULE CandidateHistoryProofs -----------------------
(***************************************************************************)
(* Theorems about the history chains, for every number of candidates, rows *)
(* and transactions, and whatever the hash is.                             *)
(***************************************************************************)
EXTENDS CandidateHistory, SequenceTheorems, WellFoundedInduction, TLAPS

Columns == {"candidate", "seq", "detail", "prev_hash", "row_hash"}

(* A table is a sequence of rows; the i-th row has at most the number i.   *)
IsTable(rows) ==
    /\ rows \in Seq({rows[i] : i \in 1..Len(rows)})
    /\ \A i \in 1..Len(rows) :
          /\ DOMAIN rows[i] = Columns
          /\ rows[i].candidate \in Candidates
          /\ rows[i].seq \in 1..i
          /\ rows[i].detail \in Details

(* A row that was seen as one of c is still one, unless c was merged away. *)
StillOf(i, c) ==
    \/ table[i].candidate = c
    \/ c \in merged /\ table[i].candidate \in moved

HeldOK ==
    \A t \in Transactions : held[t] # Idle =>
        /\ held[t].base \in 0..Len(table)
        /\ held[t].seen \subseteq 1..Len(table)
        /\ \A i \in held[t].seen \cup ({held[t].base} \ {0}) : StillOf(i, held[t].candidate)

(* No number of the history of c is left out in the table rows.            *)
Gapless(rows, c) ==
    \A i \in RowsOf(rows, c) :
        rows[i].seq = 1 \/ \E j \in RowsOf(rows, c) : rows[j].seq + 1 = rows[i].seq

(* The inductive invariant the others rest on.                             *)
Chains ==
    /\ IsTable(table)
    /\ TypeOK
    /\ HeldOK
    /\ \A c \in Candidates \ merged : Gapless(table, c)

-----------------------------------------------------------------------------
LEMMA TableDomain ==
    ASSUME NEW rows, IsTable(rows)
    PROVE  Len(rows) \in Nat /\ DOMAIN rows = 1..Len(rows)
  BY LenProperties DEF IsTable

(* A function over 1..n is a sequence of its values.                       *)
LEMMA FunctionIsSeq ==
    ASSUME NEW n \in Nat, NEW rows, rows = [i \in 1..n |-> rows[i]]
    PROVE  /\ Len(rows) = n
           /\ rows \in Seq({rows[i] : i \in 1..Len(rows)})
<1> DEFINE S == {rows[i] : i \in 1..n}
<1>1. rows \in [1..n -> S]
  OBVIOUS
<1>2. rows \in Seq(S) /\ Len(rows) = n
  <2> HIDE DEF S
  <2> QED BY <1>1
<1> QED BY <1>2

(* Newest is no row or a row of the candidate.                             *)
LEMMA NewestIsOfCandidate ==
    ASSUME NEW rows, NEW c, NEW i \in Newest(rows, c)
    PROVE  i = 0 \/ i \in RowsOf(rows, c)
  BY DEF Newest

(* What a table with one more row holds.                                   *)
LEMMA ChainedTable ==
    ASSUME NEW rows, IsTable(rows), NEW c \in Candidates, NEW d \in Details,
           NEW base \in 0..Len(rows)
    PROVE  LET new == Chained(rows, c, base, d)
               n == Len(rows)
           IN  /\ IsTable(new)
               /\ Len(new) = n + 1
               /\ \A i \in 1..n : new[i] = rows[i]
               /\ new[n + 1].candidate = c
               /\ new[n + 1].seq = NextNumber(rows, base)
               /\ new[n + 1].prev_hash = IF base = 0 THEN NoHash ELSE rows[base].row_hash
               /\ OwnHash(new[n + 1])
<1> DEFINE n == Len(rows)
           prev == IF base = 0 THEN NoHash ELSE rows[base].row_hash
           seq == NextNumber(rows, base)
           row == [candidate |-> c, seq |-> seq, detail |-> d, prev_hash |-> prev,
                   row_hash |-> Hash(c, seq, d, prev)]
           new == Chained(rows, c, base, d)
           S == {rows[i] : i \in 1..n} \cup {row}
<1>1. n \in Nat /\ DOMAIN rows = 1..n
  BY TableDomain
<1>2. seq \in 1..(n + 1)
  BY <1>1 DEF NextNumber, IsTable
<1>3. new = Append(rows, row)
  BY DEF Chained
<1>4. rows \in Seq(S) /\ row \in S
  <2> DEFINE T == {rows[i] : i \in 1..n}
  <2>1. rows \in Seq(T)
    BY DEF IsTable
  <2>2. S = T \cup {row}
    OBVIOUS
  <2> HIDE DEF T, row
  <2> QED BY <2>1, <2>2
<1>5. /\ new \in Seq(S) /\ Len(new) = n + 1
      /\ \A i \in 1..n : new[i] = rows[i]
      /\ new[n + 1] = row
  <2> HIDE DEF S, row, new
  <2> QED BY <1>3, <1>4, AppendProperties
<1>6. new \in Seq({new[i] : i \in 1..Len(new)})
  <2> HIDE DEF S, new
  <2>1. new = [i \in 1..(n + 1) |-> new[i]]
    BY <1>5, <1>1, LenProperties
  <2> QED BY <2>1, <1>1, FunctionIsSeq
<1>7. /\ row.candidate = c /\ row.seq = seq /\ row.detail = d /\ DOMAIN row = Columns
      /\ row.prev_hash = prev /\ OwnHash(row)
  BY DEF Columns, OwnHash
<1>8. \A i \in 1..Len(new) :
         /\ DOMAIN new[i] = Columns
         /\ new[i].candidate \in Candidates
         /\ new[i].seq \in 1..i
         /\ new[i].detail \in Details
  <2> SUFFICES ASSUME NEW i \in 1..(n + 1)
               PROVE  /\ DOMAIN new[i] = Columns
                      /\ new[i].candidate \in Candidates
                      /\ new[i].seq \in 1..i
                      /\ new[i].detail \in Details
    BY <1>5
  <2> HIDE DEF new, row, seq
  <2>1. CASE i = n + 1
    BY <2>1, <1>1, <1>2, <1>5, <1>7
  <2>2. CASE i \in 1..n
    BY <2>2, <1>5 DEF IsTable
  <2> QED BY <2>1, <2>2, <1>1
<1> HIDE DEF new, row, seq
<1>9. IsTable(new)
  BY <1>6, <1>8 DEF IsTable
<1> QED BY <1>5, <1>7, <1>9 DEF new, seq

(* A row more leaves out no number when it continues a row of its candidate*)
(* or there is none.                                                       *)
LEMMA ChainedGapless ==
    ASSUME NEW rows, IsTable(rows), NEW c \in Candidates, NEW d \in Details,
           NEW base \in 0..Len(rows), NEW x,
           Gapless(rows, x),
           (x = c /\ base # 0) => base \in RowsOf(rows, c)
    PROVE  Gapless(Chained(rows, c, base, d), x)
<1> DEFINE new == Chained(rows, c, base, d)
           n == Len(rows)
<1>1. n \in Nat /\ DOMAIN rows = 1..n
  BY TableDomain
<1>2. /\ IsTable(new) /\ Len(new) = n + 1
      /\ \A i \in 1..n : new[i] = rows[i]
      /\ new[n + 1].candidate = c
      /\ new[n + 1].seq = NextNumber(rows, base)
  BY ChainedTable
<1>3. DOMAIN new = 1..(n + 1)
  BY <1>2, TableDomain
<1> HIDE DEF new
<1>4. RowsOf(rows, x) \subseteq RowsOf(new, x)
  BY <1>1, <1>2, <1>3 DEF RowsOf
<1>5. ASSUME NEW i \in RowsOf(new, x)
      PROVE  new[i].seq = 1 \/ \E j \in RowsOf(new, x) : new[j].seq + 1 = new[i].seq
  <2>1. CASE i \in 1..n
    <3>1. i \in RowsOf(rows, x)
      BY <2>1, <1>1, <1>2, <1>5 DEF RowsOf
    <3>2. CASE rows[i].seq = 1
      BY <3>2, <2>1, <1>2
    <3>3. CASE \E j \in RowsOf(rows, x) : rows[j].seq + 1 = rows[i].seq
      <4>1. PICK j \in RowsOf(rows, x) : rows[j].seq + 1 = rows[i].seq
        BY <3>3
      <4>2. j \in 1..n
        BY <1>1 DEF RowsOf
      <4> QED BY <4>1, <4>2, <2>1, <1>2, <1>4
    <3> QED BY <3>1, <3>2, <3>3 DEF Gapless
  <2>2. CASE i = n + 1
    <3>1. x = c
      BY <2>2, <1>2, <1>5 DEF RowsOf
    <3>2. CASE base = 0
      BY <3>2, <2>2, <1>2 DEF NextNumber
    <3>3. CASE base # 0
      <4>1. base \in RowsOf(new, x) /\ base \in 1..n
        BY <3>1, <3>3, <1>1, <1>4
      <4> QED BY <4>1, <3>3, <2>2, <1>2 DEF NextNumber
    <3> QED BY <3>2, <3>3
  <2> QED BY <2>1, <2>2, <1>1, <1>3 DEF RowsOf
<1> QED BY <1>5 DEF Gapless, new

-----------------------------------------------------------------------------
(* Rows rewritten one by one, which keep their numbers and a candidate.    *)
LEMMA RewrittenTable ==
    ASSUME NEW rows, IsTable(rows),
           NEW new, new = [i \in DOMAIN rows |-> new[i]],
           \A i \in DOMAIN rows :
              /\ DOMAIN new[i] = Columns
              /\ new[i].candidate \in Candidates
              /\ new[i].seq = rows[i].seq
              /\ new[i].detail \in Details
    PROVE  IsTable(new) /\ Len(new) = Len(rows) /\ DOMAIN new = DOMAIN rows
<1>1. Len(rows) \in Nat /\ DOMAIN rows = 1..Len(rows)
  BY TableDomain
<1>2. Len(new) = Len(rows) /\ new \in Seq({new[i] : i \in 1..Len(new)})
  BY <1>1, FunctionIsSeq
<1> QED BY <1>1, <1>2 DEF IsTable

LEMMA RehashRewrites ==
    ASSUME IsTable(table), NEW c, NEW R
    PROVE  LET new == Rehash(c, R)
           IN  /\ IsTable(new) /\ Len(new) = Len(table)
               /\ \A i \in DOMAIN table :
                     /\ new[i].candidate = table[i].candidate
                     /\ new[i].seq = table[i].seq
<1> DEFINE new == Rehash(c, R)
<1>1. new = [i \in DOMAIN table |-> new[i]]
  BY DEF Rehash
<1>2. ASSUME NEW i \in DOMAIN table
      PROVE  \E x, y : new[i] \in {table[i],
                [table[i] EXCEPT !.detail = Scrubbed, !.prev_hash = x, !.row_hash = y]}
  BY <1>2 DEF Rehash
<1>3. \A i \in DOMAIN table :
         /\ DOMAIN table[i] = Columns
         /\ table[i].candidate \in Candidates
         /\ table[i].detail \in Details
  BY TableDomain DEF IsTable
<1> HIDE DEF new
<1>4. ASSUME NEW i \in DOMAIN table
      PROVE  /\ DOMAIN new[i] = Columns
             /\ new[i].candidate = table[i].candidate
             /\ new[i].seq = table[i].seq
             /\ new[i].detail \in Details
  <2>1. PICK x, y : new[i] \in {table[i],
                [table[i] EXCEPT !.detail = Scrubbed, !.prev_hash = x, !.row_hash = y]}
    BY <1>2
  <2>2. CASE new[i] = table[i]
    BY <2>2, <1>3
  <2>3. CASE new[i] = [table[i] EXCEPT !.detail = Scrubbed, !.prev_hash = x, !.row_hash = y]
    BY <2>3, <1>3, DetailAssumption DEF Columns
  <2> QED BY <2>1, <2>2, <2>3
<1>5. IsTable(new) /\ Len(new) = Len(table)
  BY <1>1, <1>3, <1>4, RewrittenTable
<1> QED BY <1>4, <1>5 DEF new

(* Rewritten in this way a history has the gaps it had.                    *)
LEMMA SameGaps ==
    ASSUME IsTable(table), NEW new, IsTable(new), Len(new) = Len(table), NEW x,
           \A i \in DOMAIN table :
              /\ new[i].candidate = x <=> table[i].candidate = x
              /\ new[i].seq = table[i].seq
    PROVE  /\ RowsOf(new, x) = RowsOf(table, x)
           /\ Gapless(table, x) => Gapless(new, x)
<1>1. DOMAIN new = DOMAIN table
  BY TableDomain
<1>2. RowsOf(new, x) = RowsOf(table, x)
  BY <1>1 DEF RowsOf
<1>3. \A i \in RowsOf(table, x) : new[i].seq = table[i].seq
  BY DEF RowsOf
<1> QED BY <1>2, <1>3 DEF Gapless

-----------------------------------------------------------------------------
LEMMA ChainsInit == Init => Chains
<1> SUFFICES ASSUME Init PROVE Chains
  OBVIOUS
<1>1. table = <<>> /\ Len(table) = 0 /\ \A c : RowsOf(table, c) = {}
  BY DEF Init, RowsOf
<1>2. IsTable(table)
  <2>1. table \in Seq({table[i] : i \in 1..Len(table)})
    BY <1>1, EmptySeq
  <2> QED BY <1>1, <2>1 DEF IsTable
<1>3. TypeOK /\ HeldOK
  BY <1>1, DetailAssumption DEF Init, TypeOK, HeldOK
<1> QED BY <1>1, <1>2, <1>3 DEF Chains, Gapless

(* A step that keeps the table and the held work, or lets go of some.      *)
LEMMA TableStep ==
    ASSUME Chains, IsTable(table'), Len(table)' <= MaxRows, Len(table)' >= Len(table),
           \A i \in DOMAIN table :
              \/ table'[i].candidate = table[i].candidate
              \/ table[i].candidate \in merged' /\ table'[i].candidate \in moved',
           \A t \in Transactions : held'[t] \in {held[t], Idle},
           held' \in [Transactions -> Work \cup {Idle}],
           merged \subseteq merged', moved \subseteq moved',
           merged' \subseteq moved', moved' \subseteq Candidates,
           overlapped' = overlapped,
           \A c \in Candidates \ merged' : Gapless(table', c)
    PROVE  Chains'
<1>1. /\ Len(table) \in Nat /\ DOMAIN table = 1..Len(table)
      /\ Len(table)' \in Nat /\ DOMAIN table' = 1..Len(table)'
  BY TableDomain DEF Chains
<1>2. HeldOK'
  <2> SUFFICES ASSUME NEW t \in Transactions, (held[t] # Idle)'
               PROVE  (/\ held[t].base \in 0..Len(table)
                       /\ held[t].seen \subseteq 1..Len(table)
                       /\ \A i \in held[t].seen \cup ({held[t].base} \ {0}) :
                             StillOf(i, held[t].candidate))'
    BY DEF HeldOK
  <2>1. held'[t] = held[t] /\ held[t] # Idle
    OBVIOUS
  <2>2. /\ held[t].base \in 0..Len(table)
        /\ held[t].seen \subseteq 1..Len(table)
        /\ \A i \in held[t].seen \cup ({held[t].base} \ {0}) :
              StillOf(i, held[t].candidate)
    BY <2>1 DEF Chains, HeldOK
  <2>3. ASSUME NEW i \in held[t].seen \cup ({held[t].base} \ {0})
        PROVE  StillOf(i, held[t].candidate)'
    <3>1. i \in DOMAIN table /\ StillOf(i, held[t].candidate)
      BY <1>1, <2>2
    <3> QED BY <3>1, <2>1 DEF StillOf
  <2> QED BY <1>1, <2>1, <2>2, <2>3
<1>3. TypeOK'
  <2>1. \A i \in 1..Len(table)' : i <= MaxRows
    BY <1>1, DetailAssumption
  <2>2. \A i \in DOMAIN table' : /\ table'[i].candidate \in Candidates
                                 /\ table'[i].seq \in 1..MaxRows
                                 /\ table'[i].detail \in Details
    BY <1>1, <2>1, DetailAssumption DEF IsTable
  <2>3. \A t \in Transactions : held'[t] # Idle => held'[t].seen \subseteq DOMAIN table'
    BY <1>1, <1>2 DEF HeldOK
  <2> QED BY <2>2, <2>3 DEF Chains, TypeOK
<1> QED BY <1>2, <1>3 DEF Chains

(* The rows of a candidate that takes over those of another.               *)
LEMMA MergedGapless ==
    ASSUME IsTable(table), NEW new, IsTable(new), Len(new) = Len(table),
           NEW primary, NEW dup, primary # dup,
           \A i \in DOMAIN table :
              /\ new[i].seq = table[i].seq
              /\ table[i].candidate # dup => new[i].candidate = table[i].candidate
              /\ table[i].candidate = dup => new[i].candidate = primary,
           Gapless(table, primary), Gapless(table, dup)
    PROVE  Gapless(new, primary)
<1>1. DOMAIN new = DOMAIN table
  BY TableDomain
<1>2. RowsOf(new, primary) = RowsOf(table, primary) \cup RowsOf(table, dup)
  BY <1>1 DEF RowsOf
<1>3. \A i \in RowsOf(new, primary) : new[i].seq = table[i].seq
  BY <1>1 DEF RowsOf
<1> QED BY <1>2, <1>3 DEF Gapless

LEMMA ChainsStep == Chains /\ [Next]_vars => Chains'
<1> SUFFICES ASSUME Chains, [Next]_vars PROVE Chains'
  OBVIOUS
<1>t. /\ IsTable(table) /\ TypeOK /\ HeldOK
      /\ Len(table) \in Nat /\ DOMAIN table = 1..Len(table)
      /\ \A c \in Candidates \ merged : Gapless(table, c)
      /\ merged \subseteq moved /\ moved \subseteq Candidates
  BY TableDomain DEF Chains, TypeOK
<1>h. ASSUME NEW t \in Transactions, held[t] # Idle
      PROVE  held[t] \in Work /\ held[t].candidate \in Candidates
  BY <1>t, <1>h DEF TypeOK, Work
<1>n. ASSUME NEW rows, IsTable(rows), NEW c, NEW base \in Newest(rows, c)
      PROVE  base \in 0..Len(rows) /\ (base # 0 => base \in RowsOf(rows, c))
  <2>1. Len(rows) \in Nat /\ DOMAIN rows = 1..Len(rows)
    BY <1>n, TableDomain
  <2> QED BY <1>n, <2>1, NewestIsOfCandidate DEF RowsOf
<1>1. ASSUME NEW t \in Transactions, NEW c \in Candidates, NEW purge \in BOOLEAN,
             Begin(t, c, purge)
      PROVE  Chains'
  <2>1. PICK base \in Newest(table, c) :
           held' = [held EXCEPT ![t] = [candidate |-> c, base |-> base,
                                        seen |-> IF purge THEN RowsOf(table, c) ELSE {},
                                        purge |-> purge]]
    BY <1>1 DEF Begin
  <2>2. base \in 0..Len(table) /\ (base # 0 => base \in RowsOf(table, c))
    BY <1>n, <1>t
  <2>3. UNCHANGED <<table, merged, moved>>
    BY <1>1 DEF Begin
  <2>4. Len(table) <= MaxRows
    BY <1>t DEF TypeOK
  <2>5. [candidate |-> c, base |-> base,
        seen |-> IF purge THEN RowsOf(table, c) ELSE {}, purge |-> purge] \in Work
    BY <1>t, <2>2, <2>4, DetailAssumption DEF Work, RowsOf
  <2>6. overlapped' \subseteq Candidates
    BY <1>1, <1>t DEF Begin, TypeOK
  <2>7. HeldOK'
    <3>1. /\ held'[t].base = base /\ held'[t].candidate = c
          /\ held'[t].seen \subseteq RowsOf(table, c)
      BY <1>t, <2>1 DEF TypeOK
    <3>2. \A s \in Transactions \ {t} : held'[s] = held[s]
      BY <1>t, <2>1 DEF TypeOK
    <3>3. \A i \in RowsOf(table, c) : i \in 1..Len(table) /\ StillOf(i, c)
      BY <1>t DEF RowsOf, StillOf
    <3>4. \A i, x : StillOf(i, x)' <=> StillOf(i, x)
      BY <2>3 DEF StillOf
    <3>5. ASSUME NEW s \in Transactions, held'[s] # Idle
          PROVE  /\ held'[s].base \in 0..Len(table)
                 /\ held'[s].seen \subseteq 1..Len(table)
                 /\ \A i \in held'[s].seen \cup ({held'[s].base} \ {0}) :
                       StillOf(i, held'[s].candidate)
      <4>1. CASE s = t
        BY <4>1, <2>2, <3>1, <3>3
      <4>2. CASE s # t
        BY <4>2, <3>2, <3>5, <1>t DEF HeldOK
      <4> QED BY <4>1, <4>2
    <3> QED BY <3>4, <3>5, <2>3 DEF HeldOK
  <2>8. held' \in [Transactions -> Work \cup {Idle}]
    BY <1>t, <2>1, <2>5 DEF TypeOK
  <2>9. TypeOK'
    BY <1>t, <2>3, <2>6, <2>7, <2>8 DEF TypeOK, HeldOK
  <2>10. IsTable(table)' /\ \A x \in Candidates \ merged' : Gapless(table', x)
    BY <1>t, <2>3
  <2> QED BY <2>7, <2>9, <2>10 DEF Chains
<1>2. ASSUME NEW t \in Transactions, AppendRow(t) PROVE Chains'
  <2> DEFINE c == held[t].candidate
  <2>1. PICK base \in {held[t].base} \cup Newest(table, c), d \in Details \ {Scrubbed} :
           table' = Chained(table, c, base, d)
    BY <1>2 DEF AppendRow
  <2>2. held[t] # Idle /\ Len(table) < MaxRows /\ End(t) /\ c \in Candidates
    BY <1>2, <1>h DEF AppendRow
  <2>3. /\ base \in 0..Len(table)
        /\ (base # 0 /\ c \notin merged) => base \in RowsOf(table, c)
    BY <1>t, <2>1, <2>2, <1>n DEF HeldOK, StillOf, RowsOf
  <2> HIDE DEF c
  <2>4. /\ IsTable(table') /\ Len(table)' = Len(table) + 1
        /\ \A i \in 1..Len(table) : table'[i] = table[i]
    BY <1>t, <2>1, <2>2, <2>3, ChainedTable
  <2>5. \A x \in Candidates \ merged : Gapless(table', x)
    BY <1>t, <2>1, <2>2, <2>3, ChainedGapless
  <2>6. Len(table)' <= MaxRows /\ Len(table)' >= Len(table)
    BY <1>t, <2>2, <2>4, DetailAssumption
  <2> QED BY <1>t, <2>2, <2>4, <2>5, <2>6, TableStep DEF End, TypeOK
<1>3. ASSUME NEW t \in Transactions, Purge(t) PROVE Chains'
  <2> DEFINE c == held[t].candidate
             rows == Rehash(c, held[t].seen)
  <2>1. PICK base \in Newest(rows, c) : table' = Chained(rows, c, base, Scrubbed)
    BY <1>3 DEF Purge
  <2>2. held[t] # Idle /\ Len(table) < MaxRows /\ End(t) /\ c \in Candidates
    BY <1>3, <1>h DEF Purge
  <2>3. /\ IsTable(rows) /\ Len(rows) = Len(table)
        /\ \A i \in DOMAIN table : /\ rows[i].candidate = table[i].candidate
                                    /\ rows[i].seq = table[i].seq
    BY <1>t, RehashRewrites
  <2> HIDE DEF c, rows
  <2>4. base \in 0..Len(rows) /\ (base # 0 => base \in RowsOf(rows, c))
    BY <2>1, <2>3, <1>n
  <2>5. /\ IsTable(table') /\ Len(table)' = Len(table) + 1
        /\ \A i \in 1..Len(table) : table'[i] = rows[i]
    BY <2>1, <2>2, <2>3, <2>4, ChainedTable, DetailAssumption
  <2>6. \A x \in Candidates \ merged : Gapless(table', x)
    <3> SUFFICES ASSUME NEW x \in Candidates \ merged PROVE Gapless(table', x)
      OBVIOUS
    <3>1. Gapless(rows, x)
      BY <1>t, <2>3, SameGaps
    <3> QED BY <2>1, <2>2, <2>3, <2>4, <3>1, ChainedGapless, DetailAssumption
  <2>7. Len(table)' <= MaxRows /\ Len(table)' >= Len(table)
    BY <1>t, <2>2, <2>5, DetailAssumption
  <2> QED BY <1>t, <2>2, <2>3, <2>5, <2>6, <2>7, TableStep DEF End, TypeOK
<1>4. ASSUME NEW t \in Transactions, Rollback(t) PROVE Chains'
  <2>1. Len(table) <= MaxRows
    BY <1>t DEF TypeOK
  <2>2. table' = table /\ moved' = moved /\ merged' = merged /\ overlapped' = overlapped
    BY <1>4 DEF Rollback, End
  <2>3. held' = [held EXCEPT ![t] = Idle]
    BY <1>4 DEF Rollback, End
  <2> QED BY <1>t, <2>1, <2>2, <2>3, TableStep DEF TypeOK
<1>5. ASSUME NEW primary \in Candidates, NEW dup \in Candidates, Merge(primary, dup)
      PROVE  Chains'
  <2> DEFINE rows == [i \in DOMAIN table |->
                        IF table[i].candidate = dup
                        THEN [table[i] EXCEPT !.candidate = primary] ELSE table[i]]
  <2>1. PICK base \in Newest(rows, primary), d \in Details \ {Scrubbed} :
           table' = Chained(rows, primary, base, d)
    BY <1>5 DEF Merge
  <2>2. /\ Len(table) < MaxRows /\ primary # dup
        /\ merged' = merged \cup {dup} /\ moved' = moved \cup {primary, dup}
        /\ UNCHANGED <<held, overlapped>>
    BY <1>5 DEF Merge
  <2>3. /\ IsTable(rows) /\ Len(rows) = Len(table)
        /\ \A i \in DOMAIN table :
              /\ rows[i].seq = table[i].seq
              /\ table[i].candidate # dup => rows[i].candidate = table[i].candidate
              /\ table[i].candidate = dup => rows[i].candidate = primary
    <3>1. \A i \in DOMAIN table :
             /\ DOMAIN table[i] = Columns
             /\ table[i].candidate \in Candidates
             /\ table[i].detail \in Details
      BY <1>t DEF IsTable
    <3>2. \A i \in DOMAIN table :
             /\ DOMAIN rows[i] = Columns
             /\ rows[i].candidate \in Candidates
             /\ rows[i].detail \in Details
             /\ rows[i].seq = table[i].seq
             /\ table[i].candidate # dup => rows[i].candidate = table[i].candidate
             /\ table[i].candidate = dup => rows[i].candidate = primary
      BY <3>1 DEF Columns
    <3>3. rows = [i \in DOMAIN table |-> rows[i]]
      OBVIOUS
    <3> HIDE DEF rows
    <3> QED BY <1>t, <3>2, <3>3, RewrittenTable
  <2> HIDE DEF rows
  <2>4. base \in 0..Len(rows) /\ (base # 0 => base \in RowsOf(rows, primary))
    BY <2>1, <2>3, <1>n
  <2>5. /\ IsTable(table') /\ Len(table)' = Len(table) + 1
        /\ \A i \in 1..Len(table) : table'[i] = rows[i]
    BY <2>1, <2>3, <2>4, ChainedTable
  <2>6. \A x \in Candidates \ merged' : Gapless(table', x)
    <3> SUFFICES ASSUME NEW x \in Candidates \ merged' PROVE Gapless(table', x)
      OBVIOUS
    <3>1. x # dup /\ x \in Candidates \ merged /\ {primary, dup} \cap merged = {}
      BY <2>2, <1>5 DEF Merge
    <3>2. Gapless(rows, x)
      <4>1. CASE x = primary
        BY <4>1, <1>t, <2>2, <2>3, <3>1, MergedGapless
      <4>2. CASE x # primary
        BY <4>2, <1>t, <2>3, <3>1, SameGaps
      <4> QED BY <4>1, <4>2
    <3> QED BY <2>1, <2>3, <2>4, <3>1, <3>2, ChainedGapless
  <2>7. Len(table)' <= MaxRows /\ Len(table)' >= Len(table)
    BY <1>t, <2>2, <2>5, DetailAssumption
  <2>8. \A i \in DOMAIN table :
           \/ table'[i].candidate = table[i].candidate
           \/ table[i].candidate \in merged' /\ table'[i].candidate \in moved'
    BY <1>t, <2>2, <2>3, <2>5
  <2> QED BY <1>t, <2>2, <2>5, <2>6, <2>7, <2>8, TableStep DEF TypeOK
<1>6. CASE UNCHANGED vars
  BY <1>t, <1>6 DEF vars, Chains, IsTable, TypeOK, HeldOK, StillOf, RowsOf, Gapless
<1> QED BY <1>1, <1>2, <1>3, <1>4, <1>5, <1>6 DEF Next

THEOREM ChainsAlways == Spec => []Chains
  BY ChainsInit, ChainsStep, PTL DEF Spec

-----------------------------------------------------------------------------
(* The less-than relation of the naturals, without an operator argument.   *)
Less == {p \in Nat \X Nat : p[1] < p[2]}

LEMMA LeastNatural ==
    ASSUME NEW S \in SUBSET Nat, S # {}
    PROVE  \E n \in S : \A m \in S : n <= m
<1>1. IsWellFoundedOn(Less, Nat)
  BY NatLessThanWellFounded DEF OpToRel, Less
<1>2. PICK n \in S : \A m \in S : ~ (<<m, n>> \in Less)
  BY <1>1, WFMin
<1>3. \A m \in S : ~ (m < n)
  BY <1>2 DEF Less
<1> QED BY <1>3

LEMMA GreatestNatural ==
    ASSUME NEW S \in SUBSET Nat, S # {}, NEW b \in Nat, \A n \in S : n <= b
    PROVE  \E n \in S : \A m \in S : m <= n
<1> DEFINE Above == {u \in Nat : \A m \in S : m <= u}
<1>1. PICK u \in Above : \A v \in Above : u <= v
  <2>1. b \in Above
    OBVIOUS
  <2> QED BY <2>1, LeastNatural
<1>2. u \in S
  <2> SUFFICES ASSUME u \notin S PROVE FALSE
    OBVIOUS
  <2>1. PICK m \in S : TRUE
    OBVIOUS
  <2>2. u - 1 \in Above
    BY <2>1
  <2> QED BY <2>2, <1>1
<1> QED BY <1>1, <1>2

-----------------------------------------------------------------------------
LEMMA RowNumbers ==
    ASSUME IsTable(table)
    PROVE  /\ Len(table) \in Nat
           /\ \A i \in DOMAIN table : /\ i \in Nat /\ i <= Len(table)
                                      /\ table[i].seq \in Nat /\ table[i].seq <= Len(table)
  BY TableDomain DEF IsTable

LEMMA BeforeIsOrder ==
    ASSUME IsTable(table), NEW i \in DOMAIN table, NEW j \in DOMAIN table,
           NEW k \in DOMAIN table
    PROVE  /\ i # j => Before(table, i, j) \/ Before(table, j, i)
           /\ ~ (Before(table, i, j) /\ Before(table, j, i))
           /\ ~ Before(table, i, i)
           /\ Before(table, i, j) /\ Before(table, j, k) => Before(table, i, k)
<1>1. /\ i \in Nat /\ table[i].seq \in Nat
      /\ j \in Nat /\ table[j].seq \in Nat
      /\ k \in Nat /\ table[k].seq \in Nat
  BY RowNumbers
<1>2. i # j => Before(table, i, j) \/ Before(table, j, i)
  BY <1>1 DEF Before
<1>3. ~ (Before(table, i, j) /\ Before(table, j, i)) /\ ~ Before(table, i, i)
  BY <1>1 DEF Before
<1>4. Before(table, i, j) /\ Before(table, j, k) => Before(table, i, k)
  BY <1>1 DEF Before
<1> QED BY <1>2, <1>3, <1>4

(* Rows are in line by number and place: of some there is a first and a    *)
(* last one.                                                               *)
LEMMA FirstRow ==
    ASSUME IsTable(table), NEW S \in SUBSET DOMAIN table, S # {}
    PROVE  \E i \in S : \A k \in S \ {i} : Before(table, i, k)
<1>1. \A i \in DOMAIN table : i \in Nat /\ table[i].seq \in Nat
  BY RowNumbers
<1> DEFINE Numbers == {table[i].seq : i \in S}
<1>2. PICK n \in Numbers : \A m \in Numbers : n <= m
  <2>1. Numbers \in SUBSET Nat /\ Numbers # {}
    BY <1>1
  <2> QED BY <2>1, LeastNatural
<1> DEFINE T == {i \in S : table[i].seq = n}
<1>3. PICK i \in T : \A k \in T : i <= k
  <2>1. T \in SUBSET Nat /\ T # {}
    BY <1>1
  <2> QED BY <2>1, LeastNatural
<1>4. ASSUME NEW k \in S \ {i} PROVE Before(table, i, k)
  <2>1. /\ i \in Nat /\ k \in Nat /\ table[i].seq = n /\ n \in Nat
        /\ table[k].seq \in Nat /\ n <= table[k].seq
    BY <1>1, <1>2, <1>3
  <2>2. table[k].seq = n => i <= k
    BY <1>3
  <2> QED BY <2>1, <2>2 DEF Before
<1> QED BY <1>3, <1>4

LEMMA LastRow ==
    ASSUME IsTable(table), NEW S \in SUBSET DOMAIN table, S # {}
    PROVE  LastOf(S) \in S /\ \A k \in S \ {LastOf(S)} : Before(table, k, LastOf(S))
<1>1. /\ Len(table) \in Nat
      /\ \A i \in DOMAIN table : /\ i \in Nat /\ i <= Len(table)
                                 /\ table[i].seq \in Nat /\ table[i].seq <= Len(table)
  BY RowNumbers
<1> DEFINE Numbers == {table[i].seq : i \in S}
<1>2. PICK n \in Numbers : \A m \in Numbers : m <= n
  <2>1. Numbers \in SUBSET Nat /\ Numbers # {} /\ \A m \in Numbers : m <= Len(table)
    BY <1>1
  <2> QED BY <1>1, <2>1, GreatestNatural
<1> DEFINE T == {i \in S : table[i].seq = n}
<1>3. PICK i \in T : \A k \in T : k <= i
  <2>1. T \in SUBSET Nat /\ T # {} /\ \A m \in T : m <= Len(table)
    BY <1>1
  <2> QED BY <1>1, <2>1, GreatestNatural
<1>4. ASSUME NEW k \in S \ {i} PROVE Before(table, k, i)
  <2>1. /\ i \in Nat /\ k \in Nat /\ table[i].seq = n /\ n \in Nat
        /\ table[k].seq \in Nat /\ table[k].seq <= n
    BY <1>1, <1>2, <1>3
  <2>2. table[k].seq = n => k <= i
    BY <1>3
  <2> QED BY <2>1, <2>2 DEF Before
<1> QED BY <1>3, <1>4 DEF LastOf

-----------------------------------------------------------------------------
(* The hashes of the rows R up to some row, when each row is hashed with   *)
(* the hash of the row before.                                             *)
HashesOf(h, c, R, D) ==
    h = [i \in D |-> Hash(c, table[i].seq, Scrubbed, Previous(R, h, i))]
UpTo(R, i) == Earlier(R, i) \cup {i}

LEMMA HashesExtend ==
    ASSUME IsTable(table), NEW c, NEW R \in SUBSET DOMAIN table, NEW i \in R,
           Earlier(R, i) # {} =>
              \E h : HashesOf(h, c, R, UpTo(R, LastOf(Earlier(R, i))))
    PROVE  \E h : HashesOf(h, c, R, UpTo(R, i))
<1> DEFINE E == Earlier(R, i)
           D == UpTo(R, i)
<1>1. E \subseteq R /\ i \notin E /\ R \subseteq DOMAIN table /\ D = E \cup {i}
  BY BeforeIsOrder DEF Earlier, UpTo
<1>2. CASE E = {}
  <2> DEFINE h == [j \in D |-> Hash(c, table[j].seq, Scrubbed, NoHash)]
  <2>1. \A j \in D : j = i
    BY <1>1, <1>2
  <2>2. \A j \in D : Previous(R, h, j) = NoHash
    BY <2>1, <1>2 DEF Previous
  <2>3. HashesOf(h, c, R, D)
    BY <2>2 DEF HashesOf
  <2> QED BY <2>3
<1>3. CASE E # {}
  <2> DEFINE l == LastOf(E)
  <2>1. l \in E /\ \A k \in E \ {l} : Before(table, k, l)
    BY <1>1, <1>3, LastRow
  <2>2. UpTo(R, l) = E
    <3>1. E \subseteq UpTo(R, l)
      BY <1>1, <2>1 DEF UpTo, Earlier
    <3>2. UpTo(R, l) \subseteq E
      BY <1>1, <2>1, BeforeIsOrder DEF UpTo, Earlier
    <3> QED BY <3>1, <3>2
  <2>3. PICK g : HashesOf(g, c, R, E)
    BY <1>3, <2>2
  <2> DEFINE h == [j \in D |-> IF j = i THEN Hash(c, table[i].seq, Scrubbed, g[l]) ELSE g[j]]
  <2>4. \A j \in E : h[j] = g[j]
    BY <1>1
  <2>5. \A j \in E : Previous(R, h, j) = Previous(R, g, j)
    <3> SUFFICES ASSUME NEW j \in E, Earlier(R, j) # {}
                 PROVE  h[LastOf(Earlier(R, j))] = g[LastOf(Earlier(R, j))]
      BY DEF Previous
    <3>1. Earlier(R, j) \subseteq DOMAIN table
      BY <1>1 DEF Earlier
    <3>2. LastOf(Earlier(R, j)) \in Earlier(R, j)
      BY <3>1, LastRow
    <3>3. Earlier(R, j) \subseteq E
      BY <1>1, BeforeIsOrder DEF Earlier
    <3> QED BY <2>4, <3>2, <3>3
  <2>6. Previous(R, h, i) = g[l]
    BY <1>3, <2>1, <2>4 DEF Previous
  <2>7. \A j \in D : h[j] = Hash(c, table[j].seq, Scrubbed, Previous(R, h, j))
    <3>1. \A j \in E : g[j] = Hash(c, table[j].seq, Scrubbed, Previous(R, g, j))
      BY <2>3 DEF HashesOf
    <3>2. \A j \in E : h[j] = Hash(c, table[j].seq, Scrubbed, Previous(R, h, j))
      BY <2>4, <2>5, <3>1
    <3>3. h[i] = Hash(c, table[i].seq, Scrubbed, Previous(R, h, i))
      BY <1>1, <2>6
    <3> HIDE DEF h, E, D
    <3> QED BY <1>1, <3>2, <3>3
  <2>8. HashesOf(h, c, R, D)
    <3>1. h = [j \in D |-> h[j]]
      OBVIOUS
    <3> HIDE DEF h
    <3> QED BY <2>7, <3>1 DEF HashesOf
  <2> QED BY <2>8
<1> QED BY <1>2, <1>3

(* The recursive definition of the new hashes has a solution, so each is   *)
(* the hash of its row after the hash of the row before.                   *)
LEMMA NewHashesRecur ==
    ASSUME IsTable(table), NEW c, NEW R \in SUBSET DOMAIN table
    PROVE  \A i \in R : NewHashes(c, R)[i] =
               Hash(c, table[i].seq, Scrubbed, Previous(R, NewHashes(c, R), i))
<1> DEFINE Unsolved == {i \in R : ~ \E h : HashesOf(h, c, R, UpTo(R, i))}
<1>1. Unsolved = {}
  <2> SUFFICES ASSUME Unsolved # {} PROVE FALSE
    OBVIOUS
  <2>1. PICK i \in Unsolved : \A k \in Unsolved \ {i} : Before(table, i, k)
    BY FirstRow
  <2>2. PICK j \in Earlier(R, i) :
           j = LastOf(Earlier(R, i)) /\ ~ \E h : HashesOf(h, c, R, UpTo(R, j))
    <3>1. /\ Earlier(R, i) # {}
          /\ ~ \E h : HashesOf(h, c, R, UpTo(R, LastOf(Earlier(R, i))))
      BY HashesExtend
    <3>2. LastOf(Earlier(R, i)) \in Earlier(R, i)
      BY <3>1, LastRow DEF Earlier
    <3> QED BY <3>1, <3>2
  <2>3. j \in Unsolved /\ Before(table, j, i)
    BY <2>2 DEF Earlier
  <2>4. ~ Before(table, i, j) /\ j # i
    BY <2>3, BeforeIsOrder
  <2> QED BY <2>1, <2>3, <2>4
<1>2. \E h : HashesOf(h, c, R, R)
  <2>1. CASE R = {}
    <3> DEFINE h == [i \in R |-> NoHash]
    <3>1. HashesOf(h, c, R, R)
      BY <2>1 DEF HashesOf
    <3> QED BY <3>1
  <2>2. CASE R # {}
    <3>1. LastOf(R) \in R /\ \A k \in R \ {LastOf(R)} : Before(table, k, LastOf(R))
      BY <2>2, LastRow
    <3>2. UpTo(R, LastOf(R)) = R
      BY <3>1 DEF UpTo, Earlier
    <3> QED BY <1>1, <3>1, <3>2
  <2> QED BY <2>1, <2>2
<1>3. NewHashes(c, R) = CHOOSE h : HashesOf(h, c, R, R)
  BY DEF NewHashes, HashesOf
<1>4. HashesOf(NewHashes(c, R), c, R, R)
  BY <1>2, <1>3
<1> HIDE DEF Unsolved
<1> QED BY <1>4 DEF HashesOf

-----------------------------------------------------------------------------
(* Two tables with the same rows of c.                                     *)
SameRows(rows, new, c) ==
    /\ RowsOf(new, c) = RowsOf(rows, c)
    /\ \A i \in RowsOf(rows, c) : new[i] = rows[i]

LEMMA SameNewest ==
    ASSUME NEW rows, NEW new, NEW c, SameRows(rows, new, c)
    PROVE  Newest(new, c) = Newest(rows, c)
  BY DEF SameRows, Newest, Before

(* The rows of a table with one more: those there were, and the last for c.*)
LEMMA ChainedRows ==
    ASSUME NEW rows, IsTable(rows), NEW c \in Candidates, NEW d \in Details,
           NEW base \in 0..Len(rows)
    PROVE  LET new == Chained(rows, c, base, d)
               n == Len(rows)
           IN  /\ \A x : x # c => SameRows(rows, new, x)
               /\ RowsOf(new, c) = RowsOf(rows, c) \cup {n + 1}
               /\ RowsOf(rows, c) \subseteq 1..n
<1> DEFINE new == Chained(rows, c, base, d)
           n == Len(rows)
<1>1. n \in Nat /\ DOMAIN rows = 1..n
  BY TableDomain
<1>2. /\ IsTable(new) /\ Len(new) = n + 1
      /\ \A i \in 1..n : new[i] = rows[i]
      /\ new[n + 1].candidate = c
  BY ChainedTable
<1>3. DOMAIN new = 1..(n + 1)
  BY <1>2, TableDomain
<1> HIDE DEF new
<1>4. \A x : RowsOf(new, x) = RowsOf(rows, x) \cup {i \in {n + 1} : x = c}
  BY <1>1, <1>2, <1>3 DEF RowsOf
<1>5. \A x : RowsOf(rows, x) \subseteq 1..n
  BY <1>1 DEF RowsOf
<1>6. \A x : x # c => SameRows(rows, new, x)
  BY <1>2, <1>4, <1>5 DEF SameRows
<1> QED BY <1>4, <1>5, <1>6 DEF new

LEMMA RehashedRows ==
    ASSUME IsTable(table), NEW c, NEW R \in SUBSET DOMAIN table, NEW x
    PROVE  LET new == Rehash(c, R)
           IN  /\ RowsOf(new, x) = RowsOf(table, x)
               /\ R \cap RowsOf(table, x) = {} => SameRows(table, new, x)
               /\ \A i \in R :
                     /\ new[i].candidate = table[i].candidate
                     /\ new[i].seq = table[i].seq
                     /\ new[i].prev_hash = Previous(R, NewHashes(c, R), i)
                     /\ new[i].row_hash = NewHashes(c, R)[i]
                     /\ new[i].row_hash =
                           Hash(c, new[i].seq, new[i].detail, new[i].prev_hash)
<1> DEFINE new == Rehash(c, R)
           hash == NewHashes(c, R)
<1>1. /\ DOMAIN new = DOMAIN table
      /\ \A i \in DOMAIN table : i \notin R => new[i] = table[i]
      /\ \A i \in R : new[i] = [table[i] EXCEPT !.detail = Scrubbed,
                                  !.prev_hash = Previous(R, hash, i), !.row_hash = hash[i]]
  BY DEF Rehash
<1>2. \A i \in DOMAIN table : DOMAIN table[i] = Columns
  BY TableDomain DEF IsTable
<1> HIDE DEF new, hash
<1>3. \A i \in R : /\ new[i].candidate = table[i].candidate
                    /\ new[i].seq = table[i].seq
                    /\ new[i].detail = Scrubbed
                    /\ new[i].prev_hash = Previous(R, hash, i)
                    /\ new[i].row_hash = hash[i]
  BY <1>1, <1>2 DEF Columns
<1>4. RowsOf(new, x) = RowsOf(table, x)
  BY <1>1, <1>3 DEF RowsOf
<1>5. R \cap RowsOf(table, x) = {} => SameRows(table, new, x)
  BY <1>1, <1>4 DEF SameRows, RowsOf
<1>6. \A i \in R : hash[i] = Hash(c, table[i].seq, Scrubbed, Previous(R, hash, i))
  BY NewHashesRecur DEF hash
<1>7. \A i \in R : new[i].row_hash = Hash(c, new[i].seq, new[i].detail, new[i].prev_hash)
  BY <1>3, <1>6
<1> QED BY <1>3, <1>4, <1>5, <1>7 DEF new, hash

(* What a purge of c has done before it appends its mark.                  *)
LEMMA PurgeParts ==
    ASSUME Chains, NEW t \in Transactions, Purge(t)
    PROVE  LET c == held[t].candidate
               rows == Rehash(c, held[t].seen)
           IN  /\ c \in Candidates /\ held[t].seen \in SUBSET DOMAIN table
               /\ IsTable(rows) /\ Len(rows) = Len(table)
               /\ \E base \in Newest(rows, c) :
                     base \in 0..Len(rows) /\ table' = Chained(rows, c, base, Scrubbed)
<1> DEFINE c == held[t].candidate
           rows == Rehash(c, held[t].seen)
<1>1. IsTable(table) /\ DOMAIN table = 1..Len(table) /\ Len(table) \in Nat
  BY TableDomain DEF Chains
<1>2. held[t] # Idle /\ held[t] \in Work /\ c \in Candidates
  BY DEF Purge, Chains, TypeOK, Work
<1>3. held[t].seen \subseteq 1..Len(table)
  BY <1>2 DEF Chains, HeldOK
<1>4. IsTable(rows) /\ Len(rows) = Len(table)
  BY <1>1, RehashRewrites
<1>5. PICK base \in Newest(rows, c) : table' = Chained(rows, c, base, Scrubbed)
  BY DEF Purge
<1> HIDE DEF rows, c
<1>6. base \in 0..Len(rows)
  BY <1>1, <1>4, NewestIsOfCandidate, TableDomain DEF RowsOf
<1> QED BY <1>1, <1>2, <1>3, <1>4, <1>5, <1>6 DEF rows, c

LEMMA AppendParts ==
    ASSUME Chains, NEW t \in Transactions, AppendRow(t)
    PROVE  LET c == held[t].candidate
           IN  /\ c \in Candidates
               /\ \E base \in {held[t].base} \cup Newest(table, c), d \in Details :
                     base \in 0..Len(table) /\ table' = Chained(table, c, base, d)
<1> DEFINE c == held[t].candidate
<1>1. IsTable(table) /\ DOMAIN table = 1..Len(table) /\ Len(table) \in Nat
  BY TableDomain DEF Chains
<1>2. held[t] # Idle /\ held[t] \in Work /\ c \in Candidates
  BY DEF AppendRow, Chains, TypeOK, Work
<1>3. PICK base \in {held[t].base} \cup Newest(table, c), d \in Details \ {Scrubbed} :
         table' = Chained(table, c, base, d)
  BY DEF AppendRow
<1>4. held[t].base \in 0..Len(table)
  BY <1>2 DEF Chains, HeldOK
<1>5. base \in 0..Len(table)
  BY <1>1, <1>3, <1>4, NewestIsOfCandidate DEF RowsOf
<1> QED BY <1>2, <1>3, <1>5

(* A step leaves the rows of a candidate alone, or it is an append or a    *)
(* purge of that candidate, unless the candidate is one of a merge.        *)
Works(t, c) == held[t] # Idle /\ held[t].candidate = c

LEMMA OthersUntouched ==
    ASSUME Chains, [Next]_vars, NEW x \in Candidates \ moved'
    PROVE  \/ SameRows(table, table', x)
           \/ \E t \in Transactions : Works(t, x) /\ (AppendRow(t) \/ Purge(t))
<1>t. IsTable(table) /\ DOMAIN table = 1..Len(table) /\ Len(table) \in Nat
  BY TableDomain DEF Chains
<1>1. CASE table' = table
  BY <1>1 DEF SameRows
<1>2. ASSUME NEW t \in Transactions, AppendRow(t), held[t].candidate # x
      PROVE  SameRows(table, table', x)
  <2>1. PICK base \in 0..Len(table), d \in Details :
           table' = Chained(table, held[t].candidate, base, d)
    BY <1>2, AppendParts
  <2>2. held[t].candidate \in Candidates
    BY <1>2, AppendParts
  <2> QED BY <1>t, <1>2, <2>1, <2>2, ChainedRows
<1>3. ASSUME NEW t \in Transactions, Purge(t), held[t].candidate # x
      PROVE  SameRows(table, table', x)
  <2> DEFINE c == held[t].candidate
             rows == Rehash(c, held[t].seen)
  <2>1. /\ c \in Candidates /\ held[t].seen \in SUBSET DOMAIN table
        /\ IsTable(rows) /\ Len(rows) = Len(table)
        /\ \E base \in Newest(rows, c) :
              base \in 0..Len(rows) /\ table' = Chained(rows, c, base, Scrubbed)
    BY <1>3, PurgeParts
  <2>2. moved \subseteq moved' /\ held[t] # Idle
    BY <1>3 DEF Purge, End
  <2>3. \A i \in held[t].seen : StillOf(i, c)
    BY <2>2 DEF Chains, HeldOK
  <2>4. held[t].seen \cap RowsOf(table, x) = {}
    BY <1>3, <2>2, <2>3 DEF StillOf, RowsOf
  <2>5. SameRows(table, rows, x)
    BY <1>t, <2>1, <2>4, RehashedRows
  <2> HIDE DEF c, rows
  <2>6. SameRows(rows, table', x)
    BY <1>3, <2>1, ChainedRows, DetailAssumption DEF c
  <2> QED BY <2>5, <2>6 DEF SameRows
<1>4. ASSUME NEW primary \in Candidates, NEW dup \in Candidates, Merge(primary, dup)
      PROVE  SameRows(table, table', x)
  <2> DEFINE rows == [i \in DOMAIN table |->
                        IF table[i].candidate = dup
                        THEN [table[i] EXCEPT !.candidate = primary] ELSE table[i]]
  <2>1. PICK base \in Newest(rows, primary), d \in Details \ {Scrubbed} :
           table' = Chained(rows, primary, base, d)
    BY <1>4 DEF Merge
  <2>2. x # primary /\ x # dup
    BY <1>4 DEF Merge
  <2>3. \A i \in DOMAIN table :
           /\ DOMAIN table[i] = Columns
           /\ table[i].candidate \in Candidates
           /\ table[i].detail \in Details
    BY <1>t DEF IsTable
  <2>4. \A i \in DOMAIN table :
           /\ DOMAIN rows[i] = Columns
           /\ rows[i].candidate \in Candidates
           /\ rows[i].detail \in Details
           /\ rows[i].seq = table[i].seq
           /\ table[i].candidate # dup => rows[i] = table[i]
           /\ table[i].candidate = dup => rows[i].candidate = primary
    BY <2>3 DEF Columns
  <2>5. rows = [i \in DOMAIN table |-> rows[i]]
    OBVIOUS
  <2> HIDE DEF rows
  <2>6. IsTable(rows) /\ Len(rows) = Len(table) /\ DOMAIN rows = DOMAIN table
    BY <1>t, <2>4, <2>5, RewrittenTable
  <2>7. SameRows(table, rows, x)
    BY <2>2, <2>4, <2>6 DEF SameRows, RowsOf
  <2>8. base \in 0..Len(rows)
    BY <1>t, <2>6, NewestIsOfCandidate DEF RowsOf
  <2>9. SameRows(rows, table', x)
    BY <2>1, <2>2, <2>6, <2>8, ChainedRows
  <2> QED BY <2>7, <2>9 DEF SameRows
<1>5. CASE Next
  <2>1. ASSUME NEW t \in Transactions, NEW c \in Candidates, NEW purge \in BOOLEAN,
               Begin(t, c, purge)
        PROVE  table' = table
    BY <2>1 DEF Begin
  <2>2. ASSUME NEW t \in Transactions, Rollback(t) PROVE table' = table
    BY <2>2 DEF Rollback
  <2>3. \A t \in Transactions : AppendRow(t) \/ Purge(t) => held[t] # Idle
    BY DEF AppendRow, Purge
  <2> QED BY <1>1, <1>2, <1>3, <1>4, <1>5, <2>1, <2>2, <2>3 DEF Next, Works
<1> QED BY <1>1, <1>5 DEF vars

-----------------------------------------------------------------------------
(* Each row hashes to its own.                                             *)
AllOwn(rows, c) == \A i \in RowsOf(rows, c) : OwnHash(rows[i])

LEMMA ChainedOwn ==
    ASSUME NEW rows, IsTable(rows), NEW c \in Candidates, NEW d \in Details,
           NEW base \in 0..Len(rows), AllOwn(rows, c)
    PROVE  AllOwn(Chained(rows, c, base, d), c)
  BY ChainedTable, ChainedRows DEF AllOwn

LEMMA RehashedOwn ==
    ASSUME IsTable(table), NEW c, NEW R \in SUBSET DOMAIN table, AllOwn(table, c)
    PROVE  AllOwn(Rehash(c, R), c)
<1> DEFINE new == Rehash(c, R)
<1>1. RowsOf(new, c) = RowsOf(table, c)
  BY RehashedRows
<1>2. ASSUME NEW i \in RowsOf(table, c) PROVE OwnHash(new[i])
  <2>1. CASE i \in R
    BY <2>1, RehashedRows DEF OwnHash, RowsOf
  <2>2. CASE i \notin R
    <3>1. new[i] = table[i]
      BY <2>2 DEF Rehash, RowsOf
    <3> QED BY <3>1 DEF AllOwn
  <2> QED BY <2>1, <2>2
<1> QED BY <1>1, <1>2 DEF AllOwn

LEMMA RowsHashStep ==
    Chains /\ RowsHashToTheirOwn /\ [Next]_vars => RowsHashToTheirOwn'
<1> SUFFICES ASSUME Chains, RowsHashToTheirOwn, [Next]_vars,
                    NEW x \in Candidates \ moved'
             PROVE  AllOwn(table', x)
  BY DEF RowsHashToTheirOwn, AllOwn
<1>1. moved \subseteq moved'
  BY DEF Next, Begin, AppendRow, Purge, Rollback, Merge, End, vars
<1>2. AllOwn(table, x) /\ IsTable(table)
  BY <1>1 DEF RowsHashToTheirOwn, AllOwn, Chains
<1>3. CASE SameRows(table, table', x)
  BY <1>2, <1>3 DEF SameRows, AllOwn
<1>4. ASSUME NEW t \in Transactions, Works(t, x), AppendRow(t) PROVE AllOwn(table', x)
  BY <1>2, <1>4, AppendParts, ChainedOwn DEF Works
<1>5. ASSUME NEW t \in Transactions, Works(t, x), Purge(t) PROVE AllOwn(table', x)
  <2> DEFINE rows == Rehash(x, held[t].seen)
  <2>1. /\ held[t].seen \in SUBSET DOMAIN table /\ IsTable(rows)
        /\ \E base \in 0..Len(rows) : table' = Chained(rows, x, base, Scrubbed)
    BY <1>5, PurgeParts DEF Works
  <2>2. AllOwn(rows, x)
    BY <1>2, <2>1, RehashedOwn
  <2> HIDE DEF rows
  <2> QED BY <2>1, <2>2, ChainedOwn, DetailAssumption
<1> QED BY <1>3, <1>4, <1>5, OthersUntouched

-----------------------------------------------------------------------------
(* A history in line: its numbers grow with its rows, and each row names   *)
(* the hash of the row before.                                             *)
InLine(rows, c) ==
    /\ \A i, j \in RowsOf(rows, c) : i < j => rows[i].seq < rows[j].seq
    /\ \A i \in RowsOf(rows, c) :
          \/ rows[i].seq = 1 /\ rows[i].prev_hash = NoHash
          \/ \E j \in RowsOf(rows, c) : /\ rows[j].seq + 1 = rows[i].seq
                                         /\ rows[i].prev_hash = rows[j].row_hash

(* Who works on a candidate does so alone, and has seen all there is.      *)
Alone(c) ==
    \A t \in Transactions : Works(t, c) =>
        /\ held[t].base \in Newest(table, c)
        /\ held[t].purge => held[t].seen = RowsOf(table, c)
        /\ \A s \in Transactions : Works(s, c) => s = t

Serial == \A c \in Candidates \ (overlapped \cup moved) : InLine(table, c) /\ Alone(c)

LEMMA ChainedInLine ==
    ASSUME NEW rows, IsTable(rows), NEW c \in Candidates, NEW d \in Details,
           NEW base \in Newest(rows, c), base \in 0..Len(rows), InLine(rows, c)
    PROVE  InLine(Chained(rows, c, base, d), c)
<1> DEFINE new == Chained(rows, c, base, d)
           n == Len(rows)
<1>1. n \in Nat /\ RowsOf(rows, c) \subseteq 1..n /\ RowsOf(new, c) = RowsOf(rows, c) \cup {n + 1}
  BY TableDomain, ChainedRows
<1>2. /\ \A i \in 1..n : new[i] = rows[i]
      /\ new[n + 1].seq = NextNumber(rows, base)
      /\ new[n + 1].prev_hash = IF base = 0 THEN NoHash ELSE rows[base].row_hash
  BY ChainedTable
<1>3. \A i \in RowsOf(rows, c) : rows[i].seq \in Nat
  BY <1>1 DEF IsTable
<1>4. IF base = 0 THEN RowsOf(rows, c) = {} ELSE base \in RowsOf(rows, c)
  BY <1>1 DEF Newest
<1>5. \A i \in RowsOf(rows, c) : rows[i].seq < NextNumber(rows, base)
  <2> SUFFICES ASSUME NEW i \in RowsOf(rows, c) PROVE rows[i].seq < NextNumber(rows, base)
    OBVIOUS
  <2>1. base # 0 /\ base \in RowsOf(rows, c)
    BY <1>4
  <2>2. i = base \/ Before(rows, i, base)
    BY <2>1 DEF Newest
  <2>3. rows[i].seq \in Nat /\ rows[base].seq \in Nat
    BY <1>3, <2>1
  <2> QED BY <2>1, <2>2, <2>3 DEF Before, NextNumber
<1> HIDE DEF new, n
<1>6. ASSUME NEW i \in RowsOf(new, c), NEW j \in RowsOf(new, c), i < j
      PROVE  new[i].seq < new[j].seq
  <2>1. CASE j = n + 1
    <3>1. i \in RowsOf(rows, c)
      BY <1>1, <1>6, <2>1
    <3> QED BY <1>1, <1>2, <1>5, <2>1, <3>1
  <2>2. CASE j # n + 1
    <3>1. j \in RowsOf(rows, c) /\ i \in RowsOf(rows, c)
      BY <1>1, <1>6, <2>2
    <3> QED BY <1>1, <1>2, <1>6, <3>1 DEF InLine
  <2> QED BY <2>1, <2>2
<1>7. ASSUME NEW i \in RowsOf(new, c)
      PROVE  \/ new[i].seq = 1 /\ new[i].prev_hash = NoHash
             \/ \E j \in RowsOf(new, c) : /\ new[j].seq + 1 = new[i].seq
                                           /\ new[i].prev_hash = new[j].row_hash
  <2>1. CASE i = n + 1 /\ base = 0
    BY <1>2, <2>1 DEF NextNumber
  <2>2. CASE i = n + 1 /\ base # 0
    <3>1. base \in RowsOf(new, c) /\ new[base] = rows[base]
      BY <1>1, <1>2, <1>4, <2>2
    <3> QED BY <1>2, <2>2, <3>1 DEF NextNumber
  <2>3. CASE i # n + 1
    <3>1. i \in RowsOf(rows, c) /\ new[i] = rows[i]
      BY <1>1, <1>2, <2>3
    <3>2. \A j \in RowsOf(rows, c) : j \in RowsOf(new, c) /\ new[j] = rows[j]
      BY <1>1, <1>2
    <3> QED BY <3>1, <3>2 DEF InLine
  <2> QED BY <2>1, <2>2, <2>3
<1> QED BY <1>6, <1>7 DEF InLine, new

(* Purged as a whole a history stays in line.                              *)
LEMMA RehashedInLine ==
    ASSUME IsTable(table), NEW c, InLine(table, c), Gapless(table, c)
    PROVE  InLine(Rehash(c, RowsOf(table, c)), c)
<1> DEFINE R == RowsOf(table, c)
           new == Rehash(c, R)
           hash == NewHashes(c, R)
<1>1. R \in SUBSET DOMAIN table
  BY DEF RowsOf
<1>2. /\ RowsOf(new, c) = R
      /\ \A i \in R : /\ new[i].seq = table[i].seq
                        /\ new[i].prev_hash = Previous(R, hash, i)
                        /\ new[i].row_hash = hash[i]
  BY <1>1, RehashedRows
<1>3. \A i \in R : i \in Nat /\ table[i].seq \in Nat
  BY <1>1, RowNumbers
<1> HIDE DEF new, hash
<1>4. ASSUME NEW i \in R
      PROVE  \/ new[i].seq = 1 /\ new[i].prev_hash = NoHash
             \/ \E j \in R : new[j].seq + 1 = new[i].seq /\ new[i].prev_hash = new[j].row_hash
  <2> DEFINE E == Earlier(R, i)
             l == LastOf(E)
  <2>1. CASE table[i].seq = 1
    <3>1. E = {}
      <4> SUFFICES ASSUME NEW j \in R, Before(table, j, i) PROVE FALSE
        BY DEF Earlier
      <4>1. j \in DOMAIN table /\ table[j].seq >= 1
        BY <1>1, TableDomain DEF IsTable
      <4>2. table[j].seq = table[i].seq /\ j < i
        BY <1>3, <2>1, <4>1 DEF Before
      <4> QED BY <1>3, <4>2 DEF InLine
    <3> QED BY <1>2, <2>1, <3>1 DEF Previous
  <2>2. CASE table[i].seq # 1
    <3>1. PICK j \in R : table[j].seq + 1 = table[i].seq
      BY <2>2 DEF Gapless
    <3>2. j \in E
      BY <1>3, <3>1 DEF Earlier, Before
    <3>3. l \in E /\ \A k \in E \ {l} : Before(table, k, l)
      BY <1>1, <3>2, LastRow DEF Earlier
    <3>4. l \in R /\ table[l].seq < table[i].seq
      <4>1. l \in R /\ Before(table, l, i)
        BY <3>3 DEF Earlier
      <4>2. ~ (table[l].seq = table[i].seq /\ l < i)
        BY <1>3, <4>1 DEF InLine
      <4> QED BY <1>3, <4>1, <4>2 DEF Before
    <3>5. table[l].seq + 1 = table[i].seq
      <4>1. j = l \/ Before(table, j, l)
        BY <3>2, <3>3
      <4>2. table[j].seq <= table[l].seq
        BY <1>3, <3>4, <4>1 DEF Before
      <4> QED BY <1>3, <3>1, <3>4, <4>2
    <3>6. new[i].prev_hash = hash[l]
      BY <1>2, <3>2 DEF Previous
    <3> QED BY <1>2, <3>4, <3>5, <3>6
  <2> QED BY <2>1, <2>2
<1>5. \A i, j \in R : i < j => new[i].seq < new[j].seq
  BY <1>2 DEF InLine
<1> QED BY <1>2, <1>4, <1>5 DEF InLine, new

(* In line, with numbers from one on, a history has a number but once.     *)
LEMMA SerialVerifies == Chains /\ RowsHashToTheirOwn /\ Serial => SerialHistoryVerifies
<1> SUFFICES ASSUME Chains, RowsHashToTheirOwn, Serial,
                    NEW c \in Candidates \ (overlapped \cup moved),
                    NEW i \in RowsOf(table, c)
             PROVE  /\ \A j \in RowsOf(table, c) : table[j].seq = table[i].seq => j = i
                    /\ OwnHash(table[i])
                    /\ Linked(c, i)
  BY DEF SerialHistoryVerifies, Verified
<1>1. InLine(table, c) /\ IsTable(table)
  BY DEF Serial, Chains
<1>2. \A j \in RowsOf(table, c) : j \in Nat /\ table[j].seq \in Nat
  BY <1>1, RowNumbers DEF RowsOf
<1>3. ASSUME NEW j \in RowsOf(table, c), table[j].seq = table[i].seq PROVE j = i
  <2>1. ~ (i < j) /\ ~ (j < i)
    BY <1>1, <1>2, <1>3 DEF InLine
  <2>2. i \in Nat /\ j \in Nat
    BY <1>2
  <2> QED BY <2>1, <2>2
<1>4. OwnHash(table[i])
  BY DEF RowsHashToTheirOwn
<1>5. Linked(c, i)
  BY <1>1 DEF InLine, Linked
<1> QED BY <1>3, <1>4, <1>5

LEMMA InLineStep ==
    ASSUME Chains, Serial, [Next]_vars, NEW x \in Candidates \ (overlapped' \cup moved')
    PROVE  InLine(table', x)
<1>1. moved \subseteq moved' /\ overlapped \subseteq overlapped'
  BY DEF Next, Begin, AppendRow, Purge, Rollback, Merge, End, vars
<1>2. InLine(table, x) /\ Alone(x) /\ IsTable(table) /\ Gapless(table, x)
  BY <1>1 DEF Serial, Chains, TypeOK
<1>3. CASE SameRows(table, table', x)
  BY <1>2, <1>3 DEF SameRows, InLine
<1>4. ASSUME NEW t \in Transactions, Works(t, x), AppendRow(t) PROVE InLine(table', x)
  <2>1. held[t].base \in Newest(table, x) /\ held[t].candidate = x
    BY <1>2, <1>4 DEF Alone, Works
  <2>2. PICK base \in Newest(table, x), d \in Details :
           base \in 0..Len(table) /\ table' = Chained(table, x, base, d)
    BY <1>4, <2>1, AppendParts
  <2> QED BY <1>2, <2>2, ChainedInLine
<1>5. ASSUME NEW t \in Transactions, Works(t, x), Purge(t) PROVE InLine(table', x)
  <2> DEFINE rows == Rehash(x, RowsOf(table, x))
  <2>1. held[t].seen = RowsOf(table, x) /\ held[t].candidate = x
    BY <1>2, <1>5 DEF Alone, Works, Purge
  <2>2. /\ IsTable(rows)
        /\ \E base \in Newest(rows, x) :
              base \in 0..Len(rows) /\ table' = Chained(rows, x, base, Scrubbed)
    BY <1>5, <2>1, PurgeParts
  <2>3. InLine(rows, x)
    BY <1>2, RehashedInLine
  <2> HIDE DEF rows
  <2> QED BY <2>2, <2>3, ChainedInLine, DetailAssumption
<1> QED BY <1>3, <1>4, <1>5, OthersUntouched

LEMMA AloneStep ==
    ASSUME Chains, Serial, [Next]_vars, NEW x \in Candidates \ (overlapped' \cup moved')
    PROVE  Alone(x)'
<1>1. moved \subseteq moved' /\ overlapped \subseteq overlapped'
  BY DEF Next, Begin, AppendRow, Purge, Rollback, Merge, End, vars
<1>2. Alone(x) /\ IsTable(table) /\ held \in [Transactions -> Work \cup {Idle}]
  BY <1>1 DEF Serial, Chains, TypeOK
(* Whoever works on x did so before, and its rows are those there were.    *)
<1>3. ASSUME SameRows(table, table', x),
             \A s \in Transactions : Works(s, x)' => held'[s] = held[s]
      PROVE  Alone(x)'
  <2>1. \A s \in Transactions : Works(s, x)' => Works(s, x)
    BY <1>3 DEF Works
  <2>2. Newest(table', x) = Newest(table, x) /\ RowsOf(table', x) = RowsOf(table, x)
    BY <1>3, SameNewest DEF SameRows
  <2> QED BY <1>2, <1>3, <2>1, <2>2 DEF Alone
(* Nobody works on x any more.                                             *)
<1>4. ASSUME NEW t \in Transactions, Works(t, x), held' = [held EXCEPT ![t] = Idle]
      PROVE  Alone(x)'
  <2>1. \A s \in Transactions : ~ Works(s, x)'
    BY <1>2, <1>4 DEF Alone, Works
  <2> QED BY <2>1 DEF Alone
<1>5. ASSUME NEW t \in Transactions, AppendRow(t) \/ Purge(t) \/ Rollback(t)
      PROVE  Alone(x)'
  <2>1. held' = [held EXCEPT ![t] = Idle] /\ held[t] # Idle
    BY <1>5 DEF AppendRow, Purge, Rollback, End
  <2>2. CASE Works(t, x)
    BY <1>4, <2>1, <2>2
  <2>3. CASE ~ Works(t, x)
    <3>1. \A s \in Transactions : Works(s, x)' => held'[s] = held[s]
      BY <1>2, <2>1 DEF Works
    <3>2. SameRows(table, table', x)
      <4>1. CASE Rollback(t)
        BY <4>1 DEF Rollback, SameRows
      <4>2. ASSUME NEW s \in Transactions, Works(s, x), AppendRow(s) \/ Purge(s)
            PROVE  FALSE
        <5>1. held' = [held EXCEPT ![s] = Idle]
          BY <4>2 DEF AppendRow, Purge, End
        <5>2. held'[s] = Idle /\ s # t
          BY <1>2, <2>3, <4>2, <5>1
        <5>3. held'[s] = held[s]
          BY <1>2, <2>1, <5>2
        <5> QED BY <4>2, <5>2, <5>3 DEF Works
      <4> QED BY <4>2, OthersUntouched
    <3> QED BY <1>3, <3>1, <3>2
  <2> QED BY <2>2, <2>3
<1>6. ASSUME NEW t \in Transactions, NEW c \in Candidates, NEW purge \in BOOLEAN,
             Begin(t, c, purge)
      PROVE  Alone(x)'
  <2>1. PICK base \in Newest(table, c) :
           held' = [held EXCEPT ![t] = [candidate |-> c, base |-> base,
                                        seen |-> IF purge THEN RowsOf(table, c) ELSE {},
                                        purge |-> purge]]
    BY <1>6 DEF Begin
  <2>2. table' = table /\ held[t] = Idle
    BY <1>6 DEF Begin
  <2>3. /\ held'[t].candidate = c /\ held'[t].base = base
        /\ held'[t].purge = purge
        /\ held'[t].seen = IF purge THEN RowsOf(table, c) ELSE {}
    BY <1>2, <2>1
  <2>4. \A s \in Transactions \ {t} : held'[s] = held[s]
    BY <1>2, <2>1
  <2>5. CASE c = x
    <3>1. \A s \in Transactions : ~ Works(s, x)
      BY <1>6, <2>5 DEF Begin, Works
    <3>2. \A s \in Transactions : Works(s, x)' => s = t
      BY <2>4, <3>1 DEF Works
    <3> QED BY <2>2, <2>3, <2>5, <3>2 DEF Alone
  <2>6. CASE c # x
    <3>1. \A s \in Transactions : Works(s, x)' => held'[s] = held[s]
      BY <2>3, <2>4, <2>6 DEF Works
    <3> QED BY <1>3, <2>2, <3>1 DEF SameRows
  <2> QED BY <2>5, <2>6
<1>7. ASSUME NEW primary \in Candidates, NEW dup \in Candidates, Merge(primary, dup)
      PROVE  Alone(x)'
  <2>1. held' = held /\ x # primary
    BY <1>7 DEF Merge
  <2>2. SameRows(table, table', x)
    <3>1. ASSUME NEW s \in Transactions, AppendRow(s) \/ Purge(s), held[s] # Idle PROVE FALSE
      BY <1>2, <2>1, <3>1, IdleAssumption DEF AppendRow, Purge, End
    <3> QED BY <3>1, OthersUntouched DEF Works
  <2> QED BY <1>3, <2>1, <2>2
<1>8. CASE UNCHANGED vars
  BY <1>2, <1>8 DEF vars, Alone, Works
<1> QED BY <1>5, <1>6, <1>7, <1>8 DEF Next

LEMMA SerialStep == Chains /\ Serial /\ [Next]_vars => Serial'
  BY InLineStep, AloneStep DEF Serial

LEMMA SerialInit == Init => RowsHashToTheirOwn /\ Serial
<1> SUFFICES ASSUME Init PROVE RowsHashToTheirOwn /\ Serial
  OBVIOUS
<1>1. \A c : RowsOf(table, c) = {}
  BY DEF Init, RowsOf
<1>2. \A t \in Transactions, c \in Candidates : ~ Works(t, c)
  BY DEF Init, Works
<1> QED BY <1>1, <1>2 DEF RowsHashToTheirOwn, Serial, InLine, Alone
-----------------------------------------------------------------------------
(* Type correctness of the table and of what the transactions hold.        *)
THEOREM HistoryTypeCorrect == Spec => []TypeOK
<1>1. Chains => TypeOK
  BY DEF Chains
<1> QED BY ChainsAlways, <1>1, PTL

(* However the appends, purges and merges of any number of transactions    *)
(* overlap, the history of a candidate that was not merged away has no     *)
(* number missing.                                                         *)
THEOREM NoNumberEverMissing == Spec => []NoNumberMissing
<1>1. Chains => NoNumberMissing
  BY DEF Chains, Gapless, NoNumberMissing
<1> QED BY ChainsAlways, <1>1, PTL

(* However appends and purges overlap, each row of a history that was never*)
(* merged hashes to its own.                                               *)
THEOREM RowsAlwaysHashToTheirOwn == Spec => []RowsHashToTheirOwn
  BY ChainsAlways, SerialInit, RowsHashStep, PTL DEF Spec

(* The history of a candidate that one transaction at a time worked on, and*)
(* which was never merged, verifies from its first row to its last, with   *)
(* any number of rows, after any number of purges, and whatever the hash.  *)
THEOREM SerialHistoryAlwaysVerifies == Spec => []SerialHistoryVerifies
<1>1. Spec => []Serial
  BY ChainsAlways, SerialInit, SerialStep, PTL DEF Spec
<1> QED BY ChainsAlways, RowsAlwaysHashToTheirOwn, <1>1, SerialVerifies, PTL

=============================================================================
