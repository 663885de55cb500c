--------------------------- MODULE TransferModel ---------------------------
(***************************************************************************)
(* The one transfer the user interface shows (transfermodel.cpp): a list   *)
(* of file rows plus the aggregate figures.  The model is a passive object *)
(* that its owner mutates, so each method is an operator from the old      *)
(* record to the new one.  Texts, speed sampling and change signals are    *)
(* left out.                                                               *)
(***************************************************************************)
EXTENDS Integers, Sequences

CONSTANTS FileId,     \* identifiers a sender gives its files
          FileName,   \* file names a sender asks for
          MaxSize,    \* largest declared size, in blocks
          Path,       \* paths on the device: a row's localPath ...
          NoPath      \* ... and the empty one

ASSUME TransferAssumption == /\ MaxSize \in Nat
                             /\ NoPath \notin Path

TransferState == {"idle", "pending", "requesting", "active",
                  "finished", "failed", "cancelled"}
FileStatus == {"waiting", "transferring", "done", "failed", "skipped"}

(* What a sender declares about a file; digest: a usable sha256 was given. *)
Descriptor == [id : FileId, name : FileName, size : 0..MaxSize, digest : BOOLEAN]

FileEntry == [id : FileId, name : FileName, size : 0..MaxSize, digest : BOOLEAN,
              status : FileStatus, transferred : 0..MaxSize,
              localPath : Path \cup {NoPath}]

(* A fresh row for a declared file. *)
NewEntry(d) ==
    [id |-> d.id, name |-> d.name, size |-> d.size, digest |-> d.digest,
     status |-> "waiting", transferred |-> 0, localPath |-> NoPath]

Transfer == [state : TransferState, files : Seq(FileEntry), transferredBytes : Int]

NoTransfer == [state |-> "idle", files |-> <<>>, transferredBytes |-> 0]

-----------------------------------------------------------------------------
(* The transfer with its state, its rows or a row's figures replaced.      *)
Updated(t, files, bytes) ==
    [state |-> t.state, files |-> files, transferredBytes |-> bytes]

(* begin() replaces the rows and zeroes the total; the state stays.        *)
begin(t, offer) == Updated(t, [r \in 1..Len(offer) |-> NewEntry(offer[r])], 0)

setState(t, s) ==
    [state |-> s, files |-> t.files, transferredBytes |-> t.transferredBytes]

(* The setters leave everything as it is for a row that is not there.  A   *)
(* row turning done counts for its whole size.                             *)
Listed(t, row) == row \in DOMAIN t.files
setFileStatus(t, row, s) ==
    LET f == t.files[row]
        got == IF s = "done" THEN f.size ELSE f.transferred
    IN  IF Listed(t, row)
        THEN Updated(t, [t.files EXCEPT ![row] = [f EXCEPT !.status = s, !.transferred = got]],
                     t.transferredBytes + (got - f.transferred))
        ELSE t

(* Progress is absolute and clamped to the declared size, unless that is 0 *)
(* (the negative clamp is moot: a block count is never negative).          *)
TotalOvercounted(t, row, bytes) ==   \* a slip: a retry does not take the total back
    LET f == t.files[row]
        got == IF bytes > f.size /\ f.size > 0 THEN f.size ELSE bytes
        total == IF bytes > f.transferred THEN t.transferredBytes + (got - f.transferred)
                 ELSE t.transferredBytes
    IN  IF Listed(t, row)
        THEN Updated(t, [t.files EXCEPT ![row] = [f EXCEPT !.transferred = got]], total)
        ELSE t
setFileTransferred(t, row, bytes) ==
    LET f == t.files[row]
        got == IF bytes > f.size /\ f.size > 0 THEN f.size ELSE bytes
    IN  IF Listed(t, row)
        THEN Updated(t, [t.files EXCEPT ![row] = [f EXCEPT !.transferred = got]],
                     t.transferredBytes + (got - f.transferred))
        ELSE t

setFileLocalPath(t, row, p) ==
    IF Listed(t, row)
    THEN Updated(t, [t.files EXCEPT ![row] = [@ EXCEPT !.localPath = p]], t.transferredBytes)
    ELSE t

(* What reading entry() of a row can give.  It does not check: of a row    *)
(* that is not there, whatever lies in that place.                         *)
Stray == [size : 0..(MaxSize + 1), digest : BOOLEAN]
entry(t, row) == IF Listed(t, row) THEN {t.files[row]} ELSE Stray

(* Rows carrying a file id, and the first of them.                         *)
RowsOf(t, id) == {r \in DOMAIN t.files : t.files[r].id = id}
indexOfFile(t, id) == CHOOSE r \in RowsOf(t, id) : \A q \in RowsOf(t, id) : r <= q

(* completedCount() + failedCount() >= fileCount().                        *)
AllSettled(t) == \A r \in DOMAIN t.files : t.files[r].status \in {"done", "failed", "skipped"}
(* completedCount() = fileCount(), and completedCount() > 0.               *)
AllDone(t) == \A r \in DOMAIN t.files : t.files[r].status = "done"
SomeListed(t) == t.files # <<>>   \* a slip
SomeDone(t) == \E r \in DOMAIN t.files : t.files[r].status = "done"

-----------------------------------------------------------------------------
(* What the rows have between them, one after the other, and whether the   *)
(* running total says so while no row has more than its size.              *)
SumOf(f) ==
    LET sum[n \in 0..Len(f)] == IF n = 0 THEN 0 ELSE sum[n - 1] + f[n]
    IN  sum[Len(f)]
Shares(t) == [r \in 1..Len(t.files) |-> t.files[r].transferred]
AddsUp(t) == /\ t.transferredBytes = SumOf(Shares(t))
             /\ \A r \in DOMAIN t.files : t.files[r].transferred <= t.files[r].size

=============================================================================
