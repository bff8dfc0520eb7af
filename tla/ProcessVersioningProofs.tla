---------------------- MODULE ProcessVersioningProofs ----------------------
(***************************************************************************)
(* Theorems about process lines, for every number of rows, lines and       *)
(* overlapping requests.  The numbering of versions survives overtaken     *)
(* edits, so it is proved of EditSpec; the other three properties and the  *)
(* refinement of VersionLines are proved of Spec, from the numbering.      *)
(***************************************************************************)
EXTENDS ProcessVersioning, TLAPS

(***************************************************************************)
(* What a request under way may rely on, whatever the others do meanwhile. *)
(* A version to be inserted follows numbers that are taken, and starts     *)
(* enabled; only a clone goes on with a number above 1.                    *)
(***************************************************************************)
InsertSound(h) ==
    /\ h.job \in {"clone", "new"}
    /\ h.image.status = "ENABLED"
    /\ ~ h.image.deleted
    /\ h.image.seq >= 1
    /\ \A n \in 1 .. (h.image.seq - 1) : Taken(h.image.line, n)
    /\ h.job = "new" => h.image.seq = 1
    /\ h.job = "clone" => h.image.latest

(* A row that was loaded stays stored, under the same number.              *)
SaveSound(h) ==
    /\ h.job \in {"destroy", "edit"}
    /\ h.row \in Stored
    /\ h.image.line = row[h.row].line
    /\ h.image.seq = row[h.row].seq
    /\ h.image.status # "ABSENT"

HeldSound ==
    \A w \in Workers :
        held[w] # Idle => \/ held[w] \in Inserts /\ InsertSound(held[w])
                          \/ held[w] \in Saves /\ SaveSound(held[w])

Positive == \A r \in Stored : row[r].seq >= 1

(* The inductive invariant of EditSpec.                                    *)
Numbering == TypeOK /\ VersionNumbers /\ Positive /\ HeldSound

-----------------------------------------------------------------------------
(***************************************************************************)
(* Steps are of three kinds: a request begins or is refused (rows stay), a *)
(* row is inserted, or columns other than the number are updated.  In all  *)
(* of them stored rows stay stored under their number.                     *)
(***************************************************************************)
RowsKept ==
    \A r \in Stored : /\ row'[r].status # "ABSENT"
                      /\ row'[r].line = row[r].line
                      /\ row'[r].seq = row[r].seq

(* A number that is taken stays taken.                                     *)
LEMMA TakenStays ==
    ASSUME RowsKept, NEW l, NEW n, Taken(l, n)
    PROVE  Taken(l, n)'
  BY DEF RowsKept, Taken, VersionsOf, Stored

(* Without a new row, the numbering of versions is what it was.            *)
LEMMA NumbersStay ==
    ASSUME RowsKept, Stored' = Stored, VersionNumbers, Positive
    PROVE  VersionNumbers' /\ Positive'
<1>1. \A r \in Stored : row'[r].line = row[r].line /\ row'[r].seq = row[r].seq
  BY DEF RowsKept
<1>2. \A r \in Stored : \A n \in 1 .. row[r].seq : Taken(row[r].line, n)
  BY DEF VersionNumbers
<1>3. ASSUME NEW r \in Stored', NEW n \in 1 .. row[r].seq
      PROVE  \E s \in Stored' : row'[s].line = row'[r].line /\ row'[s].seq = n
  BY <1>1, <1>2 DEF Taken, VersionsOf
<1>4. \A r, s \in Stored :
          r # s => row'[r].line # row'[s].line \/ row'[r].seq # row'[s].seq
  BY <1>1 DEF VersionNumbers
<1>5. \A r \in Stored' : \A n \in 1 .. row'[r].seq :
          \E s \in Stored' : row'[s].line = row'[r].line /\ row'[s].seq = n
  BY <1>1, <1>3
<1>6. VersionNumbers'
  BY <1>4, <1>5 DEF VersionNumbers, Taken, VersionsOf
<1>7. Positive'
  BY <1>1 DEF Positive
<1> QED BY <1>6, <1>7

(* What a request relies on, it may rely on after any step.                *)
LEMMA SoundStays ==
    ASSUME RowsKept, NEW h,
           \/ h \in Inserts /\ InsertSound(h)
           \/ h \in Saves /\ SaveSound(h)
    PROVE  \/ h \in Inserts /\ InsertSound(h)'
           \/ h \in Saves /\ SaveSound(h)'
<1>1. CASE h \in Inserts /\ InsertSound(h)
  <2>1. \A n \in 1 .. (h.image.seq - 1) : Taken(h.image.line, n)'
    BY <1>1, TakenStays DEF InsertSound
  <2> QED BY <1>1, <2>1 DEF InsertSound
<1>2. CASE h \in Saves /\ SaveSound(h)
  <2>1. h.row \in Stored'
    BY <1>2 DEF SaveSound, RowsKept, Stored
  <2>2. row'[h.row].line = row[h.row].line /\ row'[h.row].seq = row[h.row].seq
    BY <1>2 DEF SaveSound, RowsKept
  <2> QED BY <1>2, <2>1, <2>2 DEF SaveSound
<1> QED BY <1>1, <1>2

(* One worker takes up or changes its request, the others keep theirs.     *)
LEMMA HeldStays ==
    ASSUME HeldSound, TypeOK, RowsKept, NEW w \in Workers, NEW h,
           held' = [held EXCEPT ![w] = h],
           h # Idle => \/ h \in Inserts /\ InsertSound(h)'
                       \/ h \in Saves /\ SaveSound(h)'
    PROVE  HeldSound' /\ held' \in [Workers -> {h} \cup {Idle} \cup Inserts \cup Saves]
<1>1. held'[w] = h /\ \A v \in Workers \ {w} : held'[v] = held[v]
  BY DEF TypeOK
<1>2. ASSUME NEW v \in Workers, NEW g, g = held'[v], g # Idle
      PROVE  \/ g \in Inserts /\ InsertSound(g)'
             \/ g \in Saves /\ SaveSound(g)'
  <2>1. CASE v = w
    BY <2>1, <1>1, <1>2
  <2>2. CASE v # w
    <3>1. g = held[v]
      BY <2>2, <1>1, <1>2
    <3>2. \/ g \in Inserts /\ InsertSound(g)
          \/ g \in Saves /\ SaveSound(g)
      BY <3>1, <1>2 DEF HeldSound
    <3> QED BY <3>2, SoundStays
  <2> QED BY <2>1, <2>2
<1>3. held' \in [Workers -> {h} \cup {Idle} \cup Inserts \cup Saves]
  BY DEF TypeOK
<1> QED BY <1>2, <1>3 DEF HeldSound

-----------------------------------------------------------------------------
(* A request begins with something sound, or ends; no row changes.         *)
LEMMA BeginKeeps ==
    ASSUME Numbering, NEW w \in Workers, NEW h, Begin(w, h),
           \/ h \in Inserts /\ InsertSound(h)
           \/ h \in Saves /\ SaveSound(h)
    PROVE  Numbering'
<1>1. row' = row /\ held' = [held EXCEPT ![w] = h]
  BY DEF Begin
<1>2. RowsKept /\ Stored' = Stored
  BY <1>1 DEF RowsKept, Stored
<1>3. \/ h \in Inserts /\ InsertSound(h)'
      \/ h \in Saves /\ SaveSound(h)'
  BY <1>2, SoundStays
<1>4. HeldSound' /\ held' \in [Workers -> {h} \cup {Idle} \cup Inserts \cup Saves]
  BY <1>1, <1>2, <1>3, HeldStays DEF Numbering
<1>5. VersionNumbers' /\ Positive'
  BY <1>2, NumbersStay DEF Numbering
<1>6. TypeOK'
  BY <1>1, <1>3, <1>4 DEF Numbering, TypeOK
<1> QED BY <1>4, <1>5, <1>6 DEF Numbering

(* The next number of a line follows the numbers of its versions.          *)
LEMMA NextSeqFollows ==
    ASSUME Numbering, NEW l \in Nat, NEW n \in NextSeqs(l)
    PROVE  n \in Nat /\ n >= 2 /\ \A k \in 1 .. (n - 1) : Taken(l, k)
<1>1. PICK r \in VersionsOf(l) : n = row[r].seq + 1
  BY DEF NextSeqs
<1>2. r \in Stored /\ row[r].line = l /\ row[r].seq \in Nat /\ row[r].seq >= 1
  BY <1>1 DEF Numbering, TypeOK, Positive, VersionsOf, Stored, Image
<1>3. \A k \in 1 .. row[r].seq : Taken(l, k)
  BY <1>2 DEF Numbering, VersionNumbers
<1> QED BY <1>1, <1>2, <1>3

LEMMA NextCodeIsCode ==
    ASSUME TypeOK, NEW c \in NextCodes
    PROVE  c \in Nat
  BY DEF TypeOK, NextCodes, Live, Stored, Image

LEMMA VersionIsImage ==
    ASSUME NEW l \in Nat, NEW n \in Nat, NEW top \in BOOLEAN
    PROVE  Version(l, n, top) \in Image
  BY DEF Version, Image

(* Clone, copy and create begin with a number that may be inserted.        *)
LEMMA NumberedSound ==
    ASSUME Numbering, NEW w \in Workers,
           \/ \E r \in Rows : CloneVersion(w, r)
           \/ CopyProcess(w)
           \/ CreateProcess(w)
    PROVE  Numbering'
<1>1. CASE \E r \in Rows : CloneVersion(w, r)
  <2>1. PICK r \in Rows : CloneVersion(w, r)
    BY <1>1
  <2>2. row[r].line \in Nat
    BY <2>1 DEF CloneVersion, Numbering, TypeOK, Image
  <2>3. PICK n \in NextSeqs(row[r].line) :
            Begin(w, [job |-> "clone", image |-> Version(row[r].line, n, TRUE)])
    BY <2>1 DEF CloneVersion
  <2>4. PICK l \in Nat : l = row[r].line
    BY <2>2
  <2> DEFINE h == [job |-> "clone", image |-> Version(l, n, TRUE)]
  <2>5. n \in Nat /\ n >= 2 /\ \A k \in 1 .. (n - 1) : Taken(l, k)
    BY <2>3, <2>4, NextSeqFollows
  <2>6. h \in Inserts
    BY <2>5, VersionIsImage DEF Inserts
  <2>7. InsertSound(h)
    BY <2>5 DEF InsertSound, Version
  <2>8. Begin(w, h)
    BY <2>3, <2>4
  <2> QED BY <2>6, <2>7, <2>8, BeginKeeps
<1>2. CASE CopyProcess(w) \/ CreateProcess(w)
  <2>1. PICK c \in GivenCodes \cup NextCodes, top \in BOOLEAN :
            Begin(w, [job |-> "new", image |-> Version(c, 1, top)])
    BY <1>2 DEF CopyProcess, CreateProcess
  <2>2. c \in Nat
    BY GivenCodesAssumption, NextCodeIsCode DEF Numbering
  <2> DEFINE h == [job |-> "new", image |-> Version(c, 1, top)]
  <2>3. h \in Inserts
    BY <2>2, VersionIsImage DEF Inserts
  <2>4. InsertSound(h)
    BY DEF InsertSound, Version
  <2> QED BY <2>1, <2>3, <2>4, BeginKeeps
<1> QED BY <1>1, <1>2

(* Deletion and edit begin with a row as it is.                            *)
LEMMA LoadedSound ==
    ASSUME Numbering, NEW w \in Workers, NEW r \in Rows,
           DestroyProcess(w, r) \/ EditProcess(w, r)
    PROVE  Numbering'
<1>1. PICK j \in {"destroy", "edit"}, x \in {row[r]} :
          Begin(w, [job |-> j, row |-> r, image |-> x])
  BY DEF DestroyProcess, EditProcess
<1> DEFINE h == [job |-> j, row |-> r, image |-> x]
<1>2. r \in Stored
  BY DEF DestroyProcess, EditProcess, Live
<1>3. h \in Saves
  BY DEF Numbering, TypeOK, Saves
<1>4. SaveSound(h)
  BY <1>2 DEF SaveSound, Stored
<1> QED BY <1>1, <1>3, <1>4, BeginKeeps

-----------------------------------------------------------------------------
(* Updates that leave every row its number, and end or keep a request.     *)
LEMMA UpdateKeeps ==
    ASSUME Numbering, row' \in [Rows -> Image], RowsKept, Stored' = Stored,
           NEW w \in Workers, NEW h, held' = [held EXCEPT ![w] = h],
           h # Idle => h \in Saves /\ SaveSound(h)
    PROVE  Numbering'
<1>1. h # Idle => h \in Saves /\ SaveSound(h)'
  <2> SUFFICES ASSUME h # Idle PROVE h \in Saves /\ SaveSound(h)'
    OBVIOUS
  <2>1. h.row \in Stored'
    BY DEF SaveSound
  <2>2. row'[h.row].line = row[h.row].line /\ row'[h.row].seq = row[h.row].seq
    BY DEF SaveSound, RowsKept
  <2> QED BY <2>1, <2>2 DEF SaveSound
<1>2. HeldSound' /\ held' \in [Workers -> {h} \cup {Idle} \cup Inserts \cup Saves]
  BY <1>1, HeldStays DEF Numbering
<1>3. VersionNumbers' /\ Positive'
  BY NumbersStay DEF Numbering
<1>4. TypeOK'
  BY <1>1, <1>2 DEF TypeOK
<1> QED BY <1>2, <1>3, <1>4 DEF Numbering

LEMMA ArchiveKeepsNumbers ==
    ASSUME Numbering, NEW l \in Lines, ArchiveProcess(l)
    PROVE  Numbering'
<1>1. row' \in [Rows -> Image]
  BY DEF ArchiveProcess, Numbering, TypeOK, Image
<1>2. RowsKept /\ Stored' = Stored
  BY DEF ArchiveProcess, Numbering, TypeOK, Image, RowsKept, Stored, Live
<1>3. VersionNumbers' /\ Positive'
  BY <1>2, NumbersStay DEF Numbering
<1>4. held' = held
  BY DEF ArchiveProcess
<1>5. TypeOK'
  BY <1>1, <1>4 DEF Numbering, TypeOK
<1>6. ASSUME NEW v \in Workers, NEW g, g = held[v], g # Idle
      PROVE  \/ g \in Inserts /\ InsertSound(g)'
             \/ g \in Saves /\ SaveSound(g)'
  <2>1. \/ g \in Inserts /\ InsertSound(g)
        \/ g \in Saves /\ SaveSound(g)
    BY <1>6 DEF Numbering, HeldSound
  <2> QED BY <2>1, <1>2, SoundStays
<1>7. HeldSound'
  BY <1>4, <1>6 DEF HeldSound
<1> QED BY <1>3, <1>5, <1>7 DEF Numbering

(* What a worker at a row has in hand.                                     *)
LEMMA SaveInHand ==
    ASSUME Numbering, NEW w \in Workers, Busy(w, {"destroy", "edit"})
    PROVE  held[w] \in Saves /\ SaveSound(held[w])
  BY DEF Numbering, HeldSound, Busy, InsertSound

LEMMA DemoteKeepsNumbers ==
    ASSUME Numbering, NEW w \in Workers, DemoteRow(w)
    PROVE  Numbering'
<1>1. PICK x \in Saves : x = held[w] /\ SaveSound(x) /\ x.job = "destroy"
  BY SaveInHand DEF DemoteRow, Busy
<1> DEFINE r == x.row
           h == [x EXCEPT !.image.latest = FALSE]
<1>2. row' = [row EXCEPT ![r].latest = FALSE] /\ held' = [held EXCEPT ![w] = h]
  BY <1>1 DEF DemoteRow, Numbering, TypeOK
<1>3. r \in Rows /\ x.image \in Image
  BY DEF Saves
<1>4. row' \in [Rows -> Image]
  BY <1>2, <1>3 DEF Numbering, TypeOK, Image
<1>5. RowsKept /\ Stored' = Stored
  BY <1>2, <1>3 DEF Numbering, TypeOK, Image, RowsKept, Stored
<1>6. h \in Saves /\ SaveSound(h)
  BY <1>1, <1>3 DEF Saves, SaveSound, Image
<1> QED BY <1>2, <1>4, <1>5, <1>6, UpdateKeeps

LEMMA DeleteKeepsNumbers ==
    ASSUME Numbering, NEW w \in Workers, DeleteRow(w)
    PROVE  Numbering'
<1>1. PICK x \in Saves : x = held[w]
  BY SaveInHand DEF DeleteRow, Busy
<1>2. row' = [row EXCEPT ![x.row].deleted = TRUE] /\ held' = [held EXCEPT ![w] = Idle]
  BY <1>1 DEF DeleteRow
<1>3. x.row \in Rows
  BY DEF Saves
<1>4. row' \in [Rows -> Image]
  BY <1>2, <1>3 DEF Numbering, TypeOK, Image
<1>5. RowsKept /\ Stored' = Stored
  BY <1>2, <1>3 DEF Numbering, TypeOK, Image, RowsKept, Stored
<1> QED BY <1>2, <1>4, <1>5, UpdateKeeps

LEMMA EditKeepsNumbers ==
    ASSUME Numbering, NEW w \in Workers, SaveEdit(w)
    PROVE  Numbering'
<1>1. PICK x \in Saves : x = held[w] /\ SaveSound(x)
  BY SaveInHand DEF SaveEdit, Busy
<1>2. row' = [row EXCEPT ![x.row] = x.image] /\ held' = [held EXCEPT ![w] = Idle]
  BY <1>1 DEF SaveEdit
<1>3. x.row \in Rows /\ x.image \in Image
  BY DEF Saves
<1>4. row' \in [Rows -> Image]
  BY <1>2, <1>3 DEF Numbering, TypeOK
<1>5. RowsKept /\ Stored' = Stored
  BY <1>1, <1>2, <1>3 DEF Numbering, TypeOK, SaveSound, RowsKept, Stored
<1> QED BY <1>2, <1>4, <1>5, UpdateKeeps

LEMMA RefuseKeepsNumbers ==
    ASSUME Numbering, NEW w \in Workers, Refuse(w)
    PROVE  Numbering'
<1>1. row' = row /\ held' = [held EXCEPT ![w] = Idle]
  BY DEF Refuse
<1>2. RowsKept /\ Stored' = Stored /\ row' \in [Rows -> Image]
  BY <1>1 DEF RowsKept, Stored, Numbering, TypeOK
<1> QED BY <1>1, <1>2, UpdateKeeps

(***************************************************************************)
(* An insertion.  All numbers below the new one are taken and it is not,   *)
(* so it is one more than the newest version, or 1 in a line with none.    *)
(***************************************************************************)
LEMMA InsertEffect ==
    ASSUME Numbering, NEW w \in Workers, InsertRow(w)
    PROVE  \E x \in Image, r \in Rows \ Stored, D \in SUBSET Stored :
               /\ x = held[w].image
               /\ InsertSound(held[w])
               /\ ~ Taken(x.line, x.seq)
               /\ D = IF held[w].job = "clone" THEN VersionsOf(x.line) ELSE {}
               /\ row' = [q \in Rows |->
                             IF q = r THEN x
                             ELSE IF q \in D THEN [row[q] EXCEPT !.latest = FALSE]
                             ELSE row[q]]
               /\ held' = [held EXCEPT ![w] = Idle]
<1>1. held[w] \in Inserts /\ InsertSound(held[w])
  BY DEF InsertRow, Busy, Numbering, HeldSound, SaveSound
<1>2. held[w].image \in Image
  BY <1>1 DEF Inserts
<1> DEFINE x == held[w].image
           D == IF held[w].job = "clone" THEN VersionsOf(x.line) ELSE {}
<1>3. PICK r \in Rows \ Stored :
          row' = [q \in Rows |->
                     IF q = r THEN x
                     ELSE IF q \in D THEN [row[q] EXCEPT !.latest = FALSE]
                     ELSE row[q]]
  BY DEF InsertRow, Demoted
<1>4. ~ Taken(x.line, x.seq) /\ held' = [held EXCEPT ![w] = Idle]
  BY DEF InsertRow
<1>5. D \in SUBSET Stored
  BY DEF VersionsOf
<1> HIDE DEF D
<1>6. D = IF held[w].job = "clone" THEN VersionsOf(x.line) ELSE {}
  BY DEF D
<1> QED BY <1>1, <1>2, <1>3, <1>4, <1>5, <1>6

LEMMA InsertKeepsNumbers ==
    ASSUME Numbering, NEW w \in Workers, InsertRow(w)
    PROVE  Numbering'
<1>1. PICK x \in Image, r \in Rows \ Stored, D \in SUBSET Stored :
          /\ x = held[w].image
          /\ InsertSound(held[w])
          /\ ~ Taken(x.line, x.seq)
          /\ row' = [q \in Rows |->
                        IF q = r THEN x
                        ELSE IF q \in D THEN [row[q] EXCEPT !.latest = FALSE]
                        ELSE row[q]]
          /\ held' = [held EXCEPT ![w] = Idle]
  BY InsertEffect
<1>2. /\ x.status = "ENABLED"
      /\ x.seq >= 1 /\ x.seq \in Nat
      /\ \A n \in 1 .. (x.seq - 1) : Taken(x.line, n)
  BY <1>1 DEF InsertSound, Image
<1>3. row' \in [Rows -> Image]
  BY <1>1 DEF Numbering, TypeOK, Image
<1>4. RowsKept
  BY <1>1 DEF Numbering, TypeOK, Image, RowsKept, Stored
<1>5. Stored' = Stored \cup {r}
  BY <1>1, <1>2 DEF Numbering, TypeOK, Image, Stored
<1>6. row'[r] = x
  BY <1>1
<1>7. Positive'
  BY <1>2, <1>4, <1>5, <1>6 DEF Numbering, Positive, RowsKept
<1>8. \A n \in 1 .. x.seq : Taken(x.line, n)'
  <2>1. \A n \in 1 .. (x.seq - 1) : Taken(x.line, n)'
    BY <1>2, <1>4, TakenStays
  <2>2. Taken(x.line, x.seq)'
    BY <1>5, <1>6 DEF Taken, VersionsOf
  <2> QED BY <1>2, <2>1, <2>2
<1>9. \A q \in Stored : \A n \in 1 .. row[q].seq :
          \E s \in Stored' : row'[s].line = row'[q].line /\ row'[s].seq = n
  BY <1>4, <1>5 DEF Numbering, VersionNumbers, Taken, VersionsOf, RowsKept
<1>10. \A q \in Stored' : \A n \in 1 .. row'[q].seq :
          \E s \in Stored' : row'[s].line = row'[q].line /\ row'[s].seq = n
  BY <1>4, <1>5, <1>6, <1>8, <1>9 DEF RowsKept, Taken, VersionsOf
<1>11. \A q, s \in Stored' :
          q # s => row'[q].line # row'[s].line \/ row'[q].seq # row'[s].seq
  <2>1. \A q \in Stored : row'[q].line # x.line \/ row'[q].seq # x.seq
    BY <1>1, <1>4 DEF RowsKept, Taken, VersionsOf
  <2>2. \A q, s \in Stored :
            q # s => row'[q].line # row'[s].line \/ row'[q].seq # row'[s].seq
    BY <1>4 DEF Numbering, VersionNumbers, RowsKept
  <2> QED BY <1>5, <1>6, <2>1, <2>2
<1>12. VersionNumbers'
  BY <1>10, <1>11 DEF VersionNumbers, Taken, VersionsOf
<1>13. HeldSound' /\ held' \in [Workers -> {Idle} \cup {Idle} \cup Inserts \cup Saves]
  BY <1>1, <1>4, HeldStays DEF Numbering
<1>14. TypeOK'
  BY <1>3, <1>13 DEF TypeOK
<1> QED BY <1>7, <1>12, <1>13, <1>14 DEF Numbering

-----------------------------------------------------------------------------
LEMMA NumberingInit == Init => Numbering
<1> SUFFICES ASSUME Init PROVE Numbering
  OBVIOUS
<1>1. Stored = {}
  BY DEF Init, Blank, Stored
<1>2. TypeOK
  BY DEF Init, Blank, TypeOK, Image
<1>3. VersionNumbers /\ Positive
  BY <1>1 DEF VersionNumbers, Positive
<1>4. HeldSound
  BY DEF Init, HeldSound
<1> QED BY <1>2, <1>3, <1>4 DEF Numbering

LEMMA NumberingStep == Numbering /\ [EditNext]_vars => Numbering'
<1> SUFFICES ASSUME Numbering, [EditNext]_vars PROVE Numbering'
  OBVIOUS
<1>1. CASE \E w \in Workers, r \in Rows : CloneVersion(w, r)
  BY <1>1, NumberedSound
<1>2. CASE \E w \in Workers : CopyProcess(w) \/ CreateProcess(w)
  BY <1>2, NumberedSound
<1>3. CASE \E w \in Workers, r \in Rows : DestroyProcess(w, r) \/ EditProcess(w, r)
  BY <1>3, LoadedSound
<1>4. CASE \E w \in Workers : InsertRow(w)
  BY <1>4, InsertKeepsNumbers
<1>5. CASE \E w \in Workers : DemoteRow(w)
  BY <1>5, DemoteKeepsNumbers
<1>6. CASE \E w \in Workers : DeleteRow(w)
  BY <1>6, DeleteKeepsNumbers
<1>7. CASE \E w \in Workers : Refuse(w)
  BY <1>7, RefuseKeepsNumbers
<1>8. CASE \E l \in Lines : ArchiveProcess(l)
  BY <1>8, ArchiveKeepsNumbers
<1>9. CASE \E w \in Workers : SaveEdit(w)
  BY <1>9, EditKeepsNumbers
<1>10. CASE UNCHANGED vars
  <2>1. Stored' = Stored
    BY <1>10 DEF vars, Stored
  <2> QED BY <1>10, <2>1
          DEF vars, Numbering, TypeOK, VersionNumbers, Positive, HeldSound,
              InsertSound, SaveSound, Taken, VersionsOf
<1> QED BY <1>1, <1>2, <1>3, <1>4, <1>5, <1>6, <1>7, <1>8, <1>9, <1>10 DEF EditNext, Next

LEMMA NumberingAlways == EditSpec => []Numbering
BY NumberingInit, NumberingStep, PTL DEF EditSpec

LEMMA SpecIsEditSpec == Spec => EditSpec
<1>1. [Next]_vars => [EditNext]_vars
  BY DEF EditNext
<1> QED BY <1>1, PTL DEF Spec, EditSpec

(* Rows and requests have their types, also when edits are overtaken.      *)
THEOREM VersioningTypeCorrect == EditSpec => []TypeOK
<1>1. Numbering => TypeOK
  BY DEF Numbering
<1> QED BY <1>1, NumberingAlways, PTL

(***************************************************************************)
(* Versions are numbered 1, 2, ... without gap or repetition however many  *)
(* clones, deletions and edits overlap: the number is computed over        *)
(* deleted rows too, and a number computed too early is refused.           *)
(***************************************************************************)
THEOREM VersionsNumbered == EditSpec => []VersionNumbers
<1>1. Numbering => VersionNumbers
  BY DEF Numbering
<1> QED BY <1>1, NumberingAlways, PTL

-----------------------------------------------------------------------------
(***************************************************************************)
(* The latest version.  A deletion that has demoted its instance, or whose *)
(* instance was never the latest, works on a row that is not: a row that   *)
(* is not the latest one never becomes it again.                           *)
(***************************************************************************)
DemotedFirst ==
    \A w \in Workers :
        Busy(w, {"destroy"}) /\ ~ held[w].image.latest => ~ row[held[w].row].latest

NoEdit == \A w \in Workers : ~ Busy(w, {"edit"})

(* The inductive invariant of Spec, with Numbering.                        *)
Orderly ==
    /\ LatestIsNewest /\ DeletedNotLatest /\ ArchivedTogether
    /\ DemotedFirst /\ NoEdit

(* Rows that lose `latest` or life, and keep the rest, stay in order.      *)
LEMMA LosingKeeps ==
    ASSUME Orderly, RowsKept, Stored' = Stored,
           \A r \in Stored : /\ row'[r].latest => row[r].latest
                             /\ row[r].deleted => row'[r].deleted
                             /\ row'[r].deleted => ~ row'[r].latest
                             /\ row'[r].status = row[r].status
    PROVE  (LatestIsNewest /\ DeletedNotLatest /\ ArchivedTogether)'
<1>1. LatestIsNewest'
  BY DEF Orderly, LatestIsNewest, RowsKept, VersionsOf
<1>2. DeletedNotLatest'
  BY DEF DeletedNotLatest
<1>3. Live' \in SUBSET Live
  BY DEF Live
<1>4. ArchivedTogether'
  BY <1>3 DEF Orderly, ArchivedTogether, RowsKept, Live
<1> QED BY <1>1, <1>2, <1>4

LEMMA BeginKeepsOrder ==
    ASSUME Numbering, Orderly, NEW w \in Workers, NEW h, Begin(w, h), h # Idle,
           h.job # "edit",
           h.job = "destroy" /\ ~ h.image.latest => ~ row[h.row].latest
    PROVE  Orderly'
<1>1. row' = row /\ held' = [held EXCEPT ![w] = h]
  BY DEF Begin
<1>2. held'[w] = h /\ \A v \in Workers \ {w} : held'[v] = held[v]
  BY <1>1 DEF Numbering, TypeOK
<1>3. DemotedFirst' /\ NoEdit'
  BY <1>1, <1>2 DEF Orderly, DemotedFirst, NoEdit, Busy
<1>4. Stored' = Stored /\ Live' = Live
  BY <1>1 DEF Stored, Live
<1>5. (LatestIsNewest /\ DeletedNotLatest /\ ArchivedTogether)'
  BY <1>1, <1>4 DEF Orderly, LatestIsNewest, DeletedNotLatest, ArchivedTogether, VersionsOf
<1> QED BY <1>3, <1>5 DEF Orderly

(***************************************************************************)
(* The new version is on top of its line: all others there have smaller    *)
(* numbers and lose the mark.  It is the first one, or a clone on top of   *)
(* the version before.                                                     *)
(***************************************************************************)
LEMMA InsertOnTop ==
    ASSUME Numbering, NEW w \in Workers, InsertRow(w)
    PROVE  \E x \in Image, r \in Rows \ Stored :
               /\ x.status = "ENABLED" /\ ~ x.deleted /\ x.seq >= 1 /\ x.seq \in Nat
               /\ x.seq = 1 \/ (x.latest /\ Taken(x.line, x.seq - 1))
               /\ Stored' = Stored \cup {r} /\ row'[r] = x
               /\ held' = [held EXCEPT ![w] = Idle]
               /\ \A q \in VersionsOf(x.line) : row[q].seq < x.seq
               /\ \A q \in Stored :
                     /\ row'[q].line = row[q].line
                     /\ row'[q].seq = row[q].seq
                     /\ row'[q].status = row[q].status
                     /\ row'[q].deleted = row[q].deleted
                     /\ row'[q].latest <=> (row[q].latest /\ row[q].line # x.line)
<1>1. PICK x \in Image, r \in Rows \ Stored, D \in SUBSET Stored :
          /\ x = held[w].image
          /\ InsertSound(held[w])
          /\ ~ Taken(x.line, x.seq)
          /\ D = IF held[w].job = "clone" THEN VersionsOf(x.line) ELSE {}
          /\ row' = [q \in Rows |->
                        IF q = r THEN x
                        ELSE IF q \in D THEN [row[q] EXCEPT !.latest = FALSE]
                        ELSE row[q]]
          /\ held' = [held EXCEPT ![w] = Idle]
  BY InsertEffect
<1>2. /\ x.status = "ENABLED" /\ ~ x.deleted
      /\ x.seq >= 1 /\ x.seq \in Nat
      /\ \A n \in 1 .. (x.seq - 1) : Taken(x.line, n)
      /\ held[w].job # "clone" => x.seq = 1
      /\ held[w].job = "clone" => x.latest
  BY <1>1 DEF InsertSound, Image
<1>3. \A q \in Stored : row[q] \in Image
  BY DEF Numbering, TypeOK, Stored
<1>4. Stored' = Stored \cup {r} /\ row'[r] = x
  BY <1>1, <1>2 DEF Numbering, TypeOK, Image, Stored
<1>5. \A q \in VersionsOf(x.line) : row[q].seq < x.seq
  <2> SUFFICES ASSUME NEW q \in VersionsOf(x.line) PROVE row[q].seq < x.seq
    OBVIOUS
  <2>1. q \in Stored /\ row[q].line = x.line /\ row[q].seq \in Nat
    BY <1>3 DEF VersionsOf, Image
  <2>2. \A n \in 1 .. row[q].seq : Taken(x.line, n)
    BY <2>1 DEF Numbering, VersionNumbers
  <2>3. x.seq \notin 1 .. row[q].seq
    BY <1>1, <2>2
  <2> QED BY <1>2, <2>1, <2>3
<1>6. held[w].job # "clone" => VersionsOf(x.line) = {}
  <2> SUFFICES ASSUME held[w].job # "clone", NEW q \in VersionsOf(x.line) PROVE FALSE
    OBVIOUS
  <2>1. row[q].seq \in Nat /\ row[q].seq >= 1
    BY <1>3 DEF VersionsOf, Image, Numbering, Positive
  <2> QED BY <1>2, <1>5, <2>1
<1>7. D = VersionsOf(x.line)
  BY <1>1, <1>6
<1>8. \A q \in Stored : /\ row'[q].line = row[q].line
                        /\ row'[q].seq = row[q].seq
                        /\ row'[q].status = row[q].status
                        /\ row'[q].deleted = row[q].deleted
                        /\ row'[q].latest <=> (row[q].latest /\ q \notin D)
  BY <1>1, <1>3 DEF Image, Stored
<1>9. \A q \in Stored : q \in D <=> row[q].line = x.line
  BY <1>7 DEF VersionsOf
<1>10. x.seq = 1 \/ (x.latest /\ Taken(x.line, x.seq - 1))
  BY <1>2
<1> QED BY <1>1, <1>2, <1>4, <1>5, <1>8, <1>9, <1>10

LEMMA InsertKeepsOrder ==
    ASSUME Numbering, Orderly, NEW w \in Workers, InsertRow(w)
    PROVE  Orderly'
<1>1. PICK x \in Image, r \in Rows \ Stored :
          /\ x.status = "ENABLED" /\ ~ x.deleted /\ x.seq >= 1 /\ x.seq \in Nat
          /\ Stored' = Stored \cup {r} /\ row'[r] = x
          /\ held' = [held EXCEPT ![w] = Idle]
          /\ \A q \in VersionsOf(x.line) : row[q].seq < x.seq
          /\ \A q \in Stored :
                /\ row'[q].line = row[q].line
                /\ row'[q].seq = row[q].seq
                /\ row'[q].status = row[q].status
                /\ row'[q].deleted = row[q].deleted
                /\ row'[q].latest <=> (row[q].latest /\ row[q].line # x.line)
  BY InsertOnTop
<1>2. x.status = "ENABLED" /\ ~ x.deleted /\ x.seq >= 1 /\ x.seq \in Nat
  BY <1>1
<1>3. \A q \in Stored : row[q] \in Image
  BY DEF Numbering, TypeOK, Stored
<1>4. Stored' = Stored \cup {r} /\ row'[r] = x
  BY <1>1
<1>5. \A q \in Stored : /\ row'[q].line = row[q].line
                        /\ row'[q].seq = row[q].seq
                        /\ row'[q].status = row[q].status
                        /\ row'[q].deleted = row[q].deleted
                        /\ row'[q].latest => row[q].latest /\ row[q].line # x.line
  BY <1>1
<1>6. \A q \in VersionsOf(x.line) : row[q].seq < x.seq
  BY <1>1
<1>9. LatestIsNewest'
  <2>1. ASSUME NEW q \in Stored, row'[q].latest, NEW s \in Stored',
               row'[s].line = row'[q].line
        PROVE  row'[s].seq <= row'[q].seq
    <3>1. row[q].latest /\ row[q].line # x.line
      BY <1>5, <2>1
    <3>2. s \in VersionsOf(row[q].line)
      BY <1>4, <1>5, <2>1, <3>1 DEF VersionsOf
    <3>3. row[s].seq <= row[q].seq
      BY <3>1, <3>2 DEF Orderly, LatestIsNewest
    <3> QED BY <1>5, <3>2, <3>3 DEF VersionsOf
  <2>2. ASSUME NEW s \in Stored', row'[s].line = x.line
        PROVE  row'[s].seq <= x.seq
    <3>1. CASE s = r
      BY <1>2, <1>4, <3>1
    <3>2. CASE s \in VersionsOf(x.line)
      <4>1. row[s].seq \in Nat
        BY <1>3, <3>2 DEF VersionsOf, Image
      <4> QED BY <1>2, <1>5, <1>6, <3>2, <4>1 DEF VersionsOf
    <3> QED BY <1>4, <1>5, <2>2, <3>1, <3>2 DEF VersionsOf
  <2> QED BY <1>4, <2>1, <2>2 DEF LatestIsNewest, VersionsOf
<1>10. DeletedNotLatest'
  BY <1>2, <1>4, <1>5 DEF Orderly, DeletedNotLatest
<1>11. ArchivedTogether'
  <2>1. Live' = Live \cup {r}
    BY <1>2, <1>4, <1>5 DEF Live
  <2>2. \A q \in Live : q \in Stored
    BY DEF Live
  <2>3. \A q, s \in Live :
            row'[q].line = row'[s].line /\ row'[q].status = "ARCHIVED"
              /\ row'[s].status = "ENABLED" => row'[q].seq < row'[s].seq
    BY <1>5, <2>2 DEF Orderly, ArchivedTogether
  <2>4. \A q \in Live : row'[q].line = x.line => row'[q].seq < x.seq
    BY <1>5, <1>6, <2>2 DEF VersionsOf
  <2> QED BY <1>2, <1>4, <2>1, <2>3, <2>4 DEF ArchivedTogether
<1>12. held'[w] = Idle /\ \A v \in Workers \ {w} : held'[v] = held[v]
  BY <1>1 DEF Numbering, TypeOK
<1>13. NoEdit'
  BY <1>12 DEF Orderly, NoEdit, Busy
<1>14. DemotedFirst'
  <2> SUFFICES ASSUME NEW v \in Workers, NEW g, g = held'[v], g # Idle,
                      g.job = "destroy", ~ g.image.latest
               PROVE  ~ row'[g.row].latest
    BY DEF DemotedFirst, Busy
  <2>1. g = held[v]
    BY <1>12
  <2>2. g.row \in Stored
    BY <2>1 DEF Numbering, HeldSound, InsertSound, SaveSound
  <2>3. ~ row[g.row].latest
    BY <2>1 DEF Orderly, DemotedFirst, Busy
  <2> QED BY <1>5, <2>2, <2>3
<1> QED BY <1>9, <1>10, <1>11, <1>13, <1>14 DEF Orderly

(* What every begun request of Spec is.                                    *)
LEMMA BegunInOrder ==
    ASSUME Numbering, Orderly, NEW w \in Workers,
           \/ \E r \in Rows : CloneVersion(w, r) \/ DestroyProcess(w, r)
           \/ CopyProcess(w)
           \/ CreateProcess(w)
    PROVE  Orderly'
<1>1. PICK h : /\ Begin(w, h)
               /\ \/ h \in Inserts
                  \/ h.job = "destroy" /\ (~ h.image.latest => ~ row[h.row].latest)
  <2>1. CASE \E r \in Rows : CloneVersion(w, r)
    <3>1. PICK r \in Rows : CloneVersion(w, r)
      BY <2>1
    <3>2. PICK n \in NextSeqs(row[r].line) :
              Begin(w, [job |-> "clone", image |-> Version(row[r].line, n, TRUE)])
      BY <3>1 DEF CloneVersion
    <3>3. row[r].line \in Nat
      BY DEF Numbering, TypeOK, Image
    <3>4. n \in Nat
      BY <3>2, <3>3, NextSeqFollows
    <3>5. [job |-> "clone", image |-> Version(row[r].line, n, TRUE)] \in Inserts
      BY <3>3, <3>4, VersionIsImage DEF Inserts
    <3> QED BY <3>2, <3>5
  <2>2. CASE \E r \in Rows : DestroyProcess(w, r)
    BY <2>2 DEF DestroyProcess
  <2>3. CASE CopyProcess(w) \/ CreateProcess(w)
    <3>1. PICK c \in GivenCodes \cup NextCodes, top \in BOOLEAN :
              Begin(w, [job |-> "new", image |-> Version(c, 1, top)])
      BY <2>3 DEF CopyProcess, CreateProcess
    <3>2. c \in Nat
      BY GivenCodesAssumption, NextCodeIsCode DEF Numbering
    <3>3. [job |-> "new", image |-> Version(c, 1, top)] \in Inserts
      BY <3>2, VersionIsImage DEF Inserts
    <3> QED BY <3>1, <3>3
  <2> QED BY <2>1, <2>2, <2>3
<1>2. CASE h = Idle
  <2>1. row' = row /\ held' = held
    BY <1>1, <1>2 DEF Begin, Numbering, TypeOK
  <2> QED BY <2>1 DEF Orderly, LatestIsNewest, DeletedNotLatest, ArchivedTogether,
                      DemotedFirst, NoEdit, Busy, VersionsOf, Live, Stored
<1>3. CASE h # Idle
  <2>1. h.job # "edit" /\ (h.job = "destroy" /\ ~ h.image.latest => ~ row[h.row].latest)
    BY <1>1 DEF Inserts
  <2> QED BY <1>1, <1>3, <2>1, BeginKeepsOrder
<1> QED BY <1>2, <1>3

LEMMA ArchiveKeepsOrder ==
    ASSUME Numbering, Orderly, NEW l \in Lines, ArchiveProcess(l)
    PROVE  Orderly'
<1>1. held' = held
  BY DEF ArchiveProcess
<1>2. \A r \in Rows : row[r] \in Image
  BY DEF Numbering, TypeOK
<1>3. \A r \in Rows : /\ row'[r].line = row[r].line
                      /\ row'[r].seq = row[r].seq
                      /\ row'[r].latest = row[r].latest
                      /\ row'[r].deleted = row[r].deleted
                      /\ row'[r].status = IF r \in Live /\ row[r].line = l
                                          THEN "ARCHIVED" ELSE row[r].status
  BY <1>2 DEF ArchiveProcess, Image
<1>4. Stored' = Stored /\ Live' = Live
  BY <1>3 DEF Stored, Live
<1>5. Stored \subseteq Rows /\ Live \subseteq Rows
  BY DEF Stored, Live
<1>6. LatestIsNewest' /\ DeletedNotLatest'
  BY <1>3, <1>4, <1>5 DEF Orderly, LatestIsNewest, DeletedNotLatest, VersionsOf
<1>7. ArchivedTogether'
  BY <1>3, <1>4, <1>5 DEF Orderly, ArchivedTogether
<1>8. NoEdit'
  BY <1>1 DEF Orderly, NoEdit, Busy
<1>9. DemotedFirst'
  <2>1. \A w \in Workers : Busy(w, {"destroy"}) => held[w].row \in Rows
    BY SaveInHand DEF Busy, Saves
  <2> QED BY <1>1, <1>3, <2>1 DEF Orderly, DemotedFirst, Busy
<1> QED BY <1>6, <1>7, <1>8, <1>9 DEF Orderly

(* The two writes of a deletion.                                           *)
LEMMA DeletionKeepsOrder ==
    ASSUME Numbering, Orderly, NEW w \in Workers, DemoteRow(w) \/ DeleteRow(w)
    PROVE  Orderly'
<1>1. PICK x \in Saves : x = held[w] /\ SaveSound(x) /\ x.job = "destroy"
  BY SaveInHand DEF DemoteRow, DeleteRow, Busy
<1> DEFINE d == x.row
<1>2. d \in Stored /\ d \in Rows
  BY <1>1 DEF SaveSound, Saves
<1>3. \A r \in Rows : row[r] \in Image
  BY DEF Numbering, TypeOK
<1>4. \A r \in Rows : /\ row'[r].line = row[r].line
                      /\ row'[r].seq = row[r].seq
                      /\ row'[r].status = row[r].status
                      /\ row'[r].latest => row[r].latest
                      /\ row[r].deleted => row'[r].deleted
                      /\ r # d => row'[r] = row[r]
  <2>1. CASE row' = [row EXCEPT ![d].latest = FALSE]
    BY <1>2, <1>3, <2>1 DEF Image, Numbering, TypeOK
  <2>2. CASE row' = [row EXCEPT ![d].deleted = TRUE]
    BY <1>2, <1>3, <2>2 DEF Image, Numbering, TypeOK
  <2> QED BY <1>1, <2>1, <2>2 DEF DemoteRow, DeleteRow
<1>5. ~ row'[d].latest
  <2>1. CASE DemoteRow(w)
    BY <1>1, <1>2, <1>3, <2>1 DEF DemoteRow, Numbering, TypeOK, Image
  <2>2. CASE DeleteRow(w)
    <3>1. ~ row[d].latest
      BY <1>1, <2>2 DEF DeleteRow, Orderly, DemotedFirst
    <3> QED BY <1>2, <1>4, <3>1
  <2> QED BY <2>1, <2>2
<1>6. Stored' = Stored /\ RowsKept
  BY <1>4 DEF Stored, RowsKept
<1>7. (LatestIsNewest /\ DeletedNotLatest /\ ArchivedTogether)'
  <2>1. \A r \in Stored : row'[r].deleted => ~ row'[r].latest
    BY <1>4, <1>5 DEF Orderly, DeletedNotLatest, Stored
  <2>2. \A r \in Stored : r \in Rows
    BY DEF Stored
  <2> QED BY <1>4, <1>6, <2>1, <2>2, LosingKeeps
<1>8. \A v \in Workers \ {w} : held'[v] = held[v]
  BY DEF DemoteRow, DeleteRow, Numbering, TypeOK
<1>9. held'[w] = Idle \/ (held'[w].job = "destroy" /\ held'[w].row = d)
  BY <1>1 DEF DemoteRow, DeleteRow, Numbering, TypeOK, Saves
<1>10. NoEdit'
  BY <1>8, <1>9 DEF Orderly, NoEdit, Busy
<1>11. DemotedFirst'
  <2>1. \A v \in Workers : Busy(v, {"destroy"}) => held[v].row \in Rows
    BY SaveInHand DEF Busy, Saves
  <2>2. ASSUME NEW v \in Workers \ {w}, Busy(v, {"destroy"}), ~ held[v].image.latest
        PROVE  ~ row'[held[v].row].latest
    BY <1>4, <2>1, <2>2 DEF Orderly, DemotedFirst
  <2> QED BY <1>5, <1>8, <1>9, <2>2 DEF DemotedFirst, Busy
<1> QED BY <1>7, <1>10, <1>11 DEF Orderly

LEMMA RefuseKeepsOrder ==
    ASSUME Numbering, Orderly, NEW w \in Workers, Refuse(w)
    PROVE  Orderly'
<1>1. row' = row /\ Stored' = Stored /\ Live' = Live
  BY DEF Refuse, Stored, Live
<1>2. held'[w] = Idle /\ \A v \in Workers \ {w} : held'[v] = held[v]
  BY DEF Refuse, Numbering, TypeOK
<1>3. DemotedFirst' /\ NoEdit'
  BY <1>1, <1>2 DEF Orderly, DemotedFirst, NoEdit, Busy
<1>4. (LatestIsNewest /\ DeletedNotLatest /\ ArchivedTogether)'
  BY <1>1 DEF Orderly, LatestIsNewest, DeletedNotLatest, ArchivedTogether, VersionsOf
<1> QED BY <1>3, <1>4 DEF Orderly

LEMMA OrderInit == Init => Orderly
<1> SUFFICES ASSUME Init PROVE Orderly
  OBVIOUS
<1>1. Stored = {} /\ Live = {}
  BY DEF Init, Blank, Stored, Live
<1>2. LatestIsNewest /\ DeletedNotLatest /\ ArchivedTogether
  BY <1>1 DEF LatestIsNewest, DeletedNotLatest, ArchivedTogether
<1>3. DemotedFirst /\ NoEdit
  BY DEF Init, DemotedFirst, NoEdit, Busy
<1> QED BY <1>2, <1>3 DEF Orderly

LEMMA OrderStep == Numbering /\ Orderly /\ [Next]_vars => Orderly'
<1> SUFFICES ASSUME Numbering, Orderly, [Next]_vars PROVE Orderly'
  OBVIOUS
<1>1. CASE \E w \in Workers :
               \/ \E r \in Rows : CloneVersion(w, r) \/ DestroyProcess(w, r)
               \/ CopyProcess(w)
               \/ CreateProcess(w)
  BY <1>1, BegunInOrder
<1>2. CASE \E w \in Workers : InsertRow(w)
  BY <1>2, InsertKeepsOrder
<1>3. CASE \E w \in Workers : DemoteRow(w) \/ DeleteRow(w)
  BY <1>3, DeletionKeepsOrder
<1>4. CASE \E w \in Workers : Refuse(w)
  BY <1>4, RefuseKeepsOrder
<1>5. CASE \E l \in Lines : ArchiveProcess(l)
  BY <1>5, ArchiveKeepsOrder
<1>6. CASE UNCHANGED vars
  <2>1. Stored' = Stored /\ Live' = Live
    BY <1>6 DEF vars, Stored, Live
  <2> QED BY <1>6, <2>1
          DEF vars, Orderly, LatestIsNewest, DeletedNotLatest, ArchivedTogether,
              DemotedFirst, NoEdit, Busy, VersionsOf
<1> QED BY <1>1, <1>2, <1>3, <1>4, <1>5, <1>6 DEF Next

LEMMA OrderAlways == Spec => []Orderly
<1>1. Spec => []Numbering
  BY SpecIsEditSpec, NumberingAlways
<1> QED BY <1>1, OrderInit, OrderStep, PTL DEF Spec

(***************************************************************************)
(* The latest version of a line is its newest one, however many clones,    *)
(* copies and deletions overlap.                                           *)
(***************************************************************************)
THEOREM LatestIsTheNewest == Spec => []LatestIsNewest
<1>1. Orderly => LatestIsNewest
  BY DEF Orderly
<1> QED BY <1>1, OrderAlways, PTL

(* A deleted version does not hold the latest mark of its line, even if    *)
(* the deletion is overtaken or dies between its two writes.               *)
THEOREM DeletedIsNotLatest == Spec => []DeletedNotLatest
<1>1. Orderly => DeletedNotLatest
  BY DEF Orderly
<1> QED BY <1>1, OrderAlways, PTL

(* After archiving a line only versions cloned later are enabled.          *)
THEOREM LineArchivedTogether == Spec => []ArchivedTogether
<1>1. Orderly => ArchivedTogether
  BY DEF Orderly
<1> QED BY <1>1, OrderAlways, PTL

-----------------------------------------------------------------------------
(***************************************************************************)
(* Refinement of VersionLines.  A step either keeps the versions and the   *)
(* marks, adds a version on top, or takes a mark away.                     *)
(***************************************************************************)
LEMMA SameNumbersStutter ==
    ASSUME Stored' = Stored,
           \A r \in Stored : /\ row'[r].line = row[r].line
                             /\ row'[r].seq = row[r].seq
                             /\ row'[r].latest = row[r].latest
    PROVE  numbered' = numbered /\ marked' = marked
<1>1. \A r \in Stored : Number(r)' = Number(r)
  BY DEF Number
<1>2. numbered' = numbered
  BY <1>1 DEF numbered
<1>3. {q \in Stored : row[q].latest}' = {q \in Stored : row[q].latest}
  OBVIOUS
<1>4. marked' = marked
  BY <1>1, <1>3 DEF marked
<1> QED BY <1>2, <1>4

(* Two rows have two numbers.                                              *)
LEMMA NumbersDiffer ==
    ASSUME VersionNumbers, NEW r \in Stored, NEW s \in Stored, Number(r) = Number(s)
    PROVE  r = s
  BY DEF VersionNumbers, Number

LEMMA DemoteIsRetire ==
    ASSUME Numbering, NEW w \in Workers, DemoteRow(w)
    PROVE  Promise!Next \/ (numbered' = numbered /\ marked' = marked)
<1>1. PICK d \in Stored : row' = [row EXCEPT ![d].latest = FALSE]
  BY SaveInHand DEF DemoteRow, Busy, SaveSound
<1>2. \A r \in Rows : row[r] \in Image
  BY DEF Numbering, TypeOK
<1>3. \A r \in Rows : /\ row'[r].line = row[r].line
                      /\ row'[r].seq = row[r].seq
                      /\ row'[r].status = row[r].status
                      /\ row'[r].latest <=> (row[r].latest /\ r # d)
  BY <1>1, <1>2 DEF Image, Numbering, TypeOK
<1>4. Stored' = Stored /\ Stored \subseteq Rows
  BY <1>3 DEF Stored
<1>5. CASE ~ row[d].latest
  <2>1. \A r \in Stored : row'[r].latest = row[r].latest
    BY <1>1, <1>2, <1>4, <1>5 DEF Image, Numbering, TypeOK
  <2> QED BY <1>3, <1>4, <2>1, SameNumbersStutter
<1>6. CASE row[d].latest
  <2>1. \A r \in Stored : Number(r)' = Number(r)
    BY <1>3, <1>4 DEF Number
  <2>2. numbered' = numbered
    BY <1>4, <2>1 DEF numbered
  <2>3. Number(d) \in marked
    BY <1>6 DEF marked
  <2>4. \A r \in Stored : r # d => Number(r) # Number(d)
    BY NumbersDiffer DEF Numbering
  <2>5. marked' = marked \ {Number(d)}
    <3>1. {q \in Stored : row[q].latest}' = {q \in Stored : row[q].latest} \ {d}
      BY <1>3, <1>4
    <3> QED BY <2>1, <2>4, <3>1, <1>4 DEF marked
  <2> QED BY <2>2, <2>3, <2>5 DEF Promise!Next, Promise!Retire
<1> QED BY <1>5, <1>6

LEMMA InsertIsVersion ==
    ASSUME Numbering, NEW w \in Workers, InsertRow(w)
    PROVE  Promise!Next
<1>1. PICK x \in Image, r \in Rows \ Stored :
          /\ x.seq >= 1 /\ x.seq \in Nat
          /\ x.seq = 1 \/ (x.latest /\ Taken(x.line, x.seq - 1))
          /\ Stored' = Stored \cup {r} /\ row'[r] = x
          /\ \A q \in VersionsOf(x.line) : row[q].seq < x.seq
          /\ \A q \in Stored :
                /\ row'[q].line = row[q].line
                /\ row'[q].seq = row[q].seq
                /\ row'[q].latest <=> (row[q].latest /\ row[q].line # x.line)
  BY InsertOnTop
<1> DEFINE v == [line |-> x.line, seq |-> x.seq]
           L == Promise!OfLine(numbered, x.line)
<1>2. v.line = x.line /\ v.seq = x.seq
  OBVIOUS
<1>3. \A q \in Stored : Number(q)' = Number(q) /\ row[q] \in Image
  BY <1>1 DEF Number, Numbering, TypeOK, Stored
<1>4. Number(r)' = v
  BY <1>1 DEF Number
<1>5. numbered' = numbered \cup {v}
  BY <1>1, <1>3, <1>4 DEF numbered
<1>6. \A u \in L : \E q \in VersionsOf(x.line) : u = Number(q) /\ u.seq = row[q].seq
  BY DEF Promise!OfLine, numbered, Number, VersionsOf
<1>7. \A u \in L : u.seq \in Nat /\ u.seq >= 1 /\ u.seq < x.seq
  BY <1>1, <1>3, <1>6 DEF VersionsOf, Image, Numbering, Positive
<1>8. v \notin numbered
  BY <1>2, <1>7 DEF Promise!OfLine
<1>9. {q \in Stored : row[q].latest}' =
         {q \in Stored : row[q].latest /\ row[q].line # x.line} \cup {q \in {r} : x.latest}
  BY <1>1
<1>10. marked' = (marked \ Promise!OfLine(marked, x.line)) \cup {u \in {v} : x.latest}
  <2>1. marked' = {Number(q) : q \in {p \in Stored : row[p].latest /\ row[p].line # x.line}}
                     \cup {u \in {v} : x.latest}
    BY <1>3, <1>4, <1>9 DEF marked
  <2>2. \A q \in Stored : Number(q).line = row[q].line
    BY DEF Number
  <2> QED BY <2>1, <2>2 DEF marked, Promise!OfLine
<1> HIDE DEF v
<1>11. CASE x.seq = 1
  <2>1. L = {}
    BY <1>7, <1>11
  <2>2. Promise!OfLine(marked, x.line) = {}
    BY <2>1 DEF Promise!OfLine, marked, numbered
  <2>3. marked' \in {marked, marked \cup {v}}
    BY <1>10, <2>2
  <2>4. Promise!First(v)
    BY <1>2, <1>5, <1>11, <2>1, <2>3 DEF Promise!First
  <2> QED BY <1>5, <1>8, <2>4 DEF Promise!Next
<1>12. CASE x.seq # 1
  <2>1. PICK p \in VersionsOf(x.line) : row[p].seq = x.seq - 1
    BY <1>1, <1>12 DEF Taken
  <2>2. Number(p) \in L /\ Number(p).seq = x.seq - 1
    BY <2>1 DEF Promise!OfLine, numbered, Number, VersionsOf
  <2>3. \A u \in L : u.seq <= Number(p).seq
    BY <1>1, <1>7, <2>2
  <2>4. marked' = (marked \ Promise!OfLine(marked, x.line)) \cup {v}
    BY <1>1, <1>10, <1>12
  <2>5. v.seq = Number(p).seq + 1
    BY <1>1, <1>2, <2>2
  <2>6. Promise!Upgrade(v)
    BY <1>2, <1>5, <2>2, <2>3, <2>4, <2>5 DEF Promise!Upgrade
  <2> QED BY <1>5, <1>8, <2>6 DEF Promise!Next
<1> QED BY <1>11, <1>12

LEMMA StepKeepsPromise ==
    Numbering /\ [Next]_vars => [Promise!Next]_<<numbered, marked>>
<1> SUFFICES ASSUME Numbering, [Next]_vars
             PROVE  Promise!Next \/ (numbered' = numbered /\ marked' = marked)
  OBVIOUS
<1>1. CASE row' = row
  <2>1. Stored' = Stored
    BY <1>1 DEF Stored
  <2> QED BY <1>1, <2>1, SameNumbersStutter
<1>2. CASE \E w \in Workers :
               \/ \E r \in Rows : CloneVersion(w, r) \/ DestroyProcess(w, r)
               \/ CopyProcess(w)
               \/ CreateProcess(w)
               \/ Refuse(w)
  BY <1>1, <1>2 DEF CloneVersion, DestroyProcess, CopyProcess, CreateProcess, Refuse, Begin
<1>3. CASE \E w \in Workers : InsertRow(w)
  BY <1>3, InsertIsVersion
<1>4. CASE \E w \in Workers : DemoteRow(w)
  BY <1>4, DemoteIsRetire
<1>5. ASSUME NEW w \in Workers, DeleteRow(w)
      PROVE  numbered' = numbered /\ marked' = marked
  <2>1. PICK d \in Rows : row' = [row EXCEPT ![d].deleted = TRUE]
    BY <1>5, SaveInHand DEF DeleteRow, Busy, Saves
  <2>2. \A r \in Rows : /\ row'[r].line = row[r].line
                        /\ row'[r].seq = row[r].seq
                        /\ row'[r].status = row[r].status
                        /\ row'[r].latest = row[r].latest
    BY <2>1 DEF Numbering, TypeOK, Image
  <2>3. Stored' = Stored /\ Stored \subseteq Rows
    BY <2>2 DEF Stored
  <2> QED BY <2>2, <2>3, SameNumbersStutter
<1>6. ASSUME NEW l \in Lines, ArchiveProcess(l)
      PROVE  numbered' = numbered /\ marked' = marked
  <2>1. \A r \in Rows : /\ row'[r].line = row[r].line
                        /\ row'[r].seq = row[r].seq
                        /\ row'[r].latest = row[r].latest
    BY <1>6 DEF ArchiveProcess, Numbering, TypeOK, Image
  <2>2. Stored' = Stored /\ Stored \subseteq Rows
    BY <1>6 DEF ArchiveProcess, Numbering, TypeOK, Image, Stored, Live
  <2> QED BY <2>1, <2>2, SameNumbersStutter
<1> QED BY <1>1, <1>2, <1>3, <1>4, <1>5, <1>6 DEF Next, vars

(***************************************************************************)
(* The rows of process lines implement VersionLines, for every number of   *)
(* rows, lines and overlapping requests.                                   *)
(***************************************************************************)
THEOREM VersioningKeepsPromise == Spec => KeepsPromise
<1>1. Init => Promise!Init
  <2> SUFFICES ASSUME Init PROVE numbered = {} /\ marked = {}
    BY DEF Promise!Init
  <2>1. Stored = {}
    BY DEF Init, Blank, Stored
  <2> QED BY <2>1 DEF numbered, marked
<1>2. Spec => []Numbering
  BY SpecIsEditSpec, NumberingAlways
<1> QED BY <1>1, <1>2, StepKeepsPromise, PTL DEF Spec, KeepsPromise, Promise!Spec

=============================================================================
