------------------------- MODULE ProcessVersioning -------------------------
(***************************************************************************)
(* The version lines of recruitment processes: the rows of                 *)
(* `recruitment_processes`, and the requests that create, copy, clone,     *)
(* archive, delete and edit them.  Rows of one `code` are the versions of  *)
(* one line; a code `W` with a number is that number, below 1000, where    *)
(* the order of codes is that of numbers.  A row is never removed:         *)
(* deletion sets `deleted_at`, and the unique constraints count deleted    *)
(* rows like the others.                                                   *)
(*                                                                         *)
(* A request works in steps that others may come between.  Clone, copy and *)
(* create compute a number and insert it later, at READ COMMITTED; a       *)
(* deletion is two writes outside any transaction; an edit loads a row and *)
(* saves all its columns.  Whether a demand refers to a row is left open,  *)
(* as are the stage links, which a new version copies with its row.        *)
(***************************************************************************)
EXTENDS Integers

CONSTANTS
    Rows,           \* ids of process rows; bounds how many are ever created
    GivenCodes,     \* the codes callers supply: creation, or from a template
    Workers,        \* requests under way at once
    Idle

ASSUME GivenCodesAssumption == GivenCodes \subseteq Nat

VARIABLES
    row,     \* row id -> its columns
    held     \* worker -> Idle, or the request and the row image it works on

vars == <<row, held>>

Image == [line : Nat, seq : Nat, latest : BOOLEAN,
          status : {"ABSENT", "ENABLED", "ARCHIVED"}, deleted : BOOLEAN]

Inserts == [job : {"clone", "new"}, image : Image]
Saves   == [job : {"destroy", "edit"}, row : Rows, image : Image]

Blank == [line |-> 0, seq |-> 0, latest |-> FALSE, status |-> "ABSENT", deleted |-> FALSE]

Stored == {r \in Rows : row[r].status # "ABSENT"}           \* all_objects
Live   == {r \in Stored : ~ row[r].deleted}                 \* objects
VersionsOf(l) == {r \in Stored : row[r].line = l}

(* Faulty form of Taken: a constraint that only counts live rows.          *)
TakenLive(l, n) == \E r \in Live : row[r].line = l /\ row[r].seq = n

(* Is (l, n) in uniq_process_code_version_seq, deleted rows included?      *)
Taken(l, n) == \E r \in VersionsOf(l) : row[r].seq = n

(* The next number of line l, a set of one: above every version of it.     *)
NextSeqs(l) ==
    {row[r].seq + 1 :
        r \in {q \in VersionsOf(l) : \A s \in VersionsOf(l) : row[s].seq <= row[q].seq}}

(* The next code, a set of one: above the codes of the live rows only.     *)
NextCodes ==
    IF Live = {} THEN {1}
    ELSE {row[r].line + 1 : r \in {q \in Live : \A s \in Live : row[s].line <= row[q].line}}

(* A new version n of line l; `top` if it ends as the latest one.          *)
Version(l, n, top) ==
    [line |-> l, seq |-> n, latest |-> top, status |-> "ENABLED", deleted |-> FALSE]

Init ==
    /\ row = [r \in Rows |-> Blank]
    /\ held = [w \in Workers |-> Idle]

Begin(w, request) ==
    /\ held[w] = Idle
    /\ held' = [held EXCEPT ![w] = request]
    /\ UNCHANGED row

Busy(w, jobs) == held[w] # Idle /\ held[w].job \in jobs

-----------------------------------------------------------------------------
(* The view loaded r while it was live; it may be deleted by now.          *)
CloneVersion(w, r) ==
    /\ r \in Stored
    /\ \E n \in NextSeqs(row[r].line) :
           Begin(w, [job |-> "clone", image |-> Version(row[r].line, n, TRUE)])

(* A copy of some row starts a line of its own and is its latest version.  *)
CopyProcess(w) ==
    /\ Stored # {}
    /\ \E c \in NextCodes : Begin(w, [job |-> "new", image |-> Version(c, 1, TRUE)])

(* Neither creation nor a template sets is_latest.                         *)
CreateProcess(w) ==
    \E c \in GivenCodes \cup NextCodes :
        Begin(w, [job |-> "new", image |-> Version(c, 1, FALSE)])

(* Faulty form of Demoted: the flip without its first half.                *)
NoneDemoted(h) == {}

(* A clone demotes every other version of its line, deleted ones included. *)
Demoted(h) == IF h.job = "clone" THEN VersionsOf(h.image.line) ELSE {}

(* Faulty form of InsertRow: the flip in the wrong order, with the new     *)
(* version first among those that are demoted.                             *)
InsertThenDemote(w) ==
    /\ Busy(w, {"clone", "new"})
    /\ LET x == held[w].image
       IN  /\ ~ Taken(x.line, x.seq)
           /\ \E r \in Rows \ Stored :
                  row' = [q \in Rows |->
                             IF q \in Demoted(held[w]) \cup {r}
                             THEN [(IF q = r THEN x ELSE row[q]) EXCEPT !.latest = FALSE]
                             ELSE row[q]]
    /\ held' = [held EXCEPT ![w] = Idle]

(***************************************************************************)
(* The rest of the transaction: insert, refused by the database if the     *)
(* number is taken, and become the latest version after the others are     *)
(* demoted.  A copy meets no other latest version: its line is empty.      *)
(***************************************************************************)
InsertRow(w) ==
    /\ Busy(w, {"clone", "new"})
    /\ LET x == held[w].image
       IN  /\ ~ Taken(x.line, x.seq)
           /\ \E r \in Rows \ Stored :
                  row' = [q \in Rows |->
                             IF q = r THEN x
                             ELSE IF q \in Demoted(held[w]) THEN [row[q] EXCEPT !.latest = FALSE]
                             ELSE row[q]]
    /\ held' = [held EXCEPT ![w] = Idle]

(* Faulty forms of ArchiveProcess: only the latest version is archived;    *)
(* the status is a name of the front end's older schema.                   *)
ArchiveLatest(l) ==
    /\ \E r \in Live : row[r].line = l /\ row[r].status = "ENABLED"
    /\ row' = [r \in Rows |->
                  IF r \in Live /\ row[r].line = l /\ row[r].latest
                  THEN [row[r] EXCEPT !.status = "ARCHIVED"] ELSE row[r]]
    /\ UNCHANGED held

ArchiveAsInactive(l) ==
    /\ \E r \in Live : row[r].line = l /\ row[r].status = "ENABLED"
    /\ row' = [r \in Rows |->
                  IF r \in Live /\ row[r].line = l
                  THEN [row[r] EXCEPT !.status = "INACTIVE"] ELSE row[r]]
    /\ UNCHANGED held

(* One bulk update of the line's live rows; refused if none is enabled.    *)
ArchiveProcess(l) ==
    /\ \E r \in Live : row[r].line = l /\ row[r].status = "ENABLED"
    /\ row' = [r \in Rows |->
                  IF r \in Live /\ row[r].line = l
                  THEN [row[r] EXCEPT !.status = "ARCHIVED"] ELSE row[r]]
    /\ UNCHANGED held

(* The row is loaded and no live demand refers to it.                      *)
DestroyProcess(w, r) ==
    /\ r \in Live
    /\ Begin(w, [job |-> "destroy", row |-> r, image |-> row[r]])

(* soft_delete: the first write, if the instance is the latest version ... *)
DemoteRow(w) ==
    /\ Busy(w, {"destroy"})
    /\ held[w].image.latest
    /\ row' = [row EXCEPT ![held[w].row].latest = FALSE]
    /\ held' = [held EXCEPT ![w].image.latest = FALSE]

(* Faulty form of DeleteRow: soft_delete of the base class does not demote.*)
DeleteRowAtOnce(w) ==
    /\ Busy(w, {"destroy"})
    /\ row' = [row EXCEPT ![held[w].row].deleted = TRUE]
    /\ held' = [held EXCEPT ![w] = Idle]

(* ... and the second, of deleted_at alone.                                *)
DeleteRow(w) ==
    /\ Busy(w, {"destroy"})
    /\ ~ held[w].image.latest
    /\ row' = [row EXCEPT ![held[w].row].deleted = TRUE]
    /\ held' = [held EXCEPT ![w] = Idle]

(* The request fails or dies, after its first write perhaps.               *)
Refuse(w) ==
    /\ held[w] # Idle
    /\ held' = [held EXCEPT ![w] = Idle]
    /\ UNCHANGED row

EditProcess(w, r) ==
    /\ r \in Live
    /\ Begin(w, [job |-> "edit", row |-> r, image |-> row[r]])

(***************************************************************************)
(* serializer.save() writes every column of the instance back.  The name   *)
(* or the description changes; of the columns here all are read-only, so   *)
(* they are written as they were loaded.  The database refuses a second    *)
(* latest version.                                                         *)
(***************************************************************************)
SaveEdit(w) ==
    /\ Busy(w, {"edit"})
    /\ LET r == held[w].row
           x == held[w].image
       IN  /\ x.latest => \A s \in VersionsOf(x.line) \ {r} : ~ row[s].latest
           /\ row' = [row EXCEPT ![r] = x]
    /\ held' = [held EXCEPT ![w] = Idle]

-----------------------------------------------------------------------------
Lines == {row[r].line : r \in Stored}

Next ==
    \/ \E w \in Workers, r \in Rows : CloneVersion(w, r) \/ DestroyProcess(w, r)
    \/ \E w \in Workers :
           \/ CopyProcess(w)
           \/ CreateProcess(w)
           \/ InsertRow(w)
           \/ DemoteRow(w)
           \/ DeleteRow(w)
           \/ Refuse(w)
    \/ \E l \in Lines : ArchiveProcess(l)

EditNext ==
    \/ Next
    \/ \E w \in Workers : SaveEdit(w) \/ \E r \in Rows : EditProcess(w, r)

(***************************************************************************)
(* Spec: an edit that nothing overtakes writes back what it read, and is a *)
(* stutter here.  EditSpec: edits like any other request.                  *)
(***************************************************************************)
Spec == Init /\ [][Next]_vars

EditSpec == Init /\ [][EditNext]_vars

-----------------------------------------------------------------------------
TypeOK ==
    /\ row \in [Rows -> Image]
    /\ held \in [Workers -> {Idle} \cup Inserts \cup Saves]

(***************************************************************************)
(* The versions of a line are numbered from 1 without a gap and without a  *)
(* number given twice, deleted ones included, whoever clones at the same   *)
(* time: _compute_next_version_seq and the constraint behind it.           *)
(***************************************************************************)
VersionNumbers ==
    /\ \A r \in Stored : \A n \in 1 .. row[r].seq : Taken(row[r].line, n)
    /\ \A r, s \in Stored :
           r # s => row[r].line # row[s].line \/ row[r].seq # row[s].seq

(***************************************************************************)
(* The version marked latest is the newest of its line, so no line has two *)
(* and an upgrade never leads back: the flip at the end of a clone.        *)
(***************************************************************************)
LatestIsNewest ==
    \A r \in Stored :
        row[r].latest => \A s \in VersionsOf(row[r].line) : row[s].seq <= row[r].seq

(***************************************************************************)
(* soft_delete: "a soft-deleted process row must not go on holding         *)
(* is_latest=True".                                                        *)
(***************************************************************************)
DeletedNotLatest == \A r \in Stored : row[r].deleted => ~ row[r].latest

(***************************************************************************)
(* Archiving closes the whole line (archive_process, Q5): a live version   *)
(* that is enabled is newer than every live version that is archived.      *)
(***************************************************************************)
ArchivedTogether ==
    \A r, s \in Live :
        /\ row[r].line = row[s].line
        /\ row[r].status = "ARCHIVED"
        /\ row[s].status = "ENABLED"
        => row[r].seq < row[s].seq

-----------------------------------------------------------------------------
(* The version lines of VersionLines, as the rows have them.               *)
Number(r) == [line |-> row[r].line, seq |-> row[r].seq]
numbered == {Number(r) : r \in Stored}
marked == {Number(r) : r \in {q \in Stored : row[q].latest}}

Promise == INSTANCE VersionLines WITH versions <- numbered, latest <- marked

(* However clones, copies, deletions and archivings overlap, a version that*)
(* lost the latest mark never gets it back, and each upgrade is made on top*)
(* of the newest version and takes the mark: the flip at the end of a      *)
(* clone ("lower first, then raise") and soft_delete.                      *)
KeepsPromise == Promise!Spec

=============================================================================
