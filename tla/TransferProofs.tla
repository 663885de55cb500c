--------------------------- MODULE TransferProofs ---------------------------
(* What the operators of TransferModel keep, for every row and any number  *)
(* of rows.  Both services' proofs rest on these lemmas.                   *)
EXTENDS TransferModel, Loops, SequenceTheorems, TLAPS

(* Rows 1..n of entries make a sequence, and the other way round.          *)
LEMMA RowsAreSeq ==
    ASSUME NEW S, NEW f \in Seq(S)
    PROVE  /\ DOMAIN f = 1..Len(f) /\ Len(f) \in Nat
           /\ \A r \in DOMAIN f : f[r] \in S
           /\ \A g : DOMAIN g = DOMAIN f /\ g = [r \in DOMAIN f |-> g[r]]
                     /\ (\A r \in DOMAIN f : g[r] \in S) => g \in Seq(S) /\ Len(g) = Len(f)
<1>1. DOMAIN f = 1..Len(f) /\ Len(f) \in Nat /\ \A r \in DOMAIN f : f[r] \in S
  OBVIOUS
<1>2. ASSUME NEW g, DOMAIN g = DOMAIN f, g = [r \in DOMAIN f |-> g[r]],
             \A r \in DOMAIN f : g[r] \in S
      PROVE  g \in Seq(S) /\ Len(g) = Len(f)
  <2>1. g \in [1..Len(f) -> S]
    BY <1>1, <1>2
  <2>2. g \in Seq(S)
    BY <2>1, <1>1, IsASeq
  <2>3. QED
    BY <2>1, <2>2, <1>1
<1>3. QED
  BY <1>1, <1>2

(* Without the row nothing happens.                                        *)
LEMMA NoSuchRow ==
    ASSUME NEW t, NEW row, ~Listed(t, row)
    PROVE  /\ \A s : setFileStatus(t, row, s) = t
           /\ \A n : setFileTransferred(t, row, n) = t
           /\ \A p : setFileLocalPath(t, row, p) = t
  BY DEF setFileStatus, setFileTransferred, setFileLocalPath

(* A status or progress update changes one row and nothing else.           *)
LEMMA StatusTypeAt ==
    ASSUME NEW t \in Transfer, NEW row \in DOMAIN t.files, NEW s \in FileStatus
    PROVE  /\ setFileStatus(t, row, s) \in Transfer
           /\ setFileStatus(t, row, s).state = t.state
           /\ Len(setFileStatus(t, row, s).files) = Len(t.files)
           /\ DOMAIN setFileStatus(t, row, s).files = DOMAIN t.files
           /\ \A r \in DOMAIN t.files : setFileStatus(t, row, s).files[r].status =
                  IF r = row THEN s ELSE t.files[r].status
<1> DEFINE f == t.files[row]
           got == IF s = "done" THEN f.size ELSE f.transferred
           e == [f EXCEPT !.status = s, !.transferred = got]
           fs == [t.files EXCEPT ![row] = e]
           u == setFileStatus(t, row, s)
<1>1. t.files \in Seq(FileEntry) /\ t.state \in TransferState /\ t.transferredBytes \in Int
  BY DEF Transfer
<1>2. f \in FileEntry
  BY <1>1
<1>3. e \in FileEntry /\ e.status = s /\ got \in Int
  <2>1. f.size \in 0..MaxSize /\ f.transferred \in 0..MaxSize
    BY <1>2 DEF FileEntry
  <2>2. got \in 0..MaxSize
    BY <2>1
  <2>3. got \in Int
    BY <2>2, TransferAssumption
  <2>4. e \in FileEntry /\ e.status = s
    <3> HIDE DEF got
    <3> QED BY <1>2, <2>2 DEF FileEntry
  <2>5. QED
    BY <2>3, <2>4
<1>4. fs \in Seq(FileEntry) /\ Len(fs) = Len(t.files)
  BY <1>1, <1>3, RowsAreSeq
<1>5. u.files = fs /\ u.state = t.state
      /\ u.transferredBytes = t.transferredBytes + (got - f.transferred)
  BY DEF setFileStatus, Updated, Listed
<1>6. u = [state |-> u.state, files |-> u.files, transferredBytes |-> u.transferredBytes]
  BY DEF setFileStatus, Updated, Listed
<1>7. f.transferred \in Int
  BY <1>2, TransferAssumption DEF FileEntry
<1>8. u.transferredBytes \in Int
  BY <1>5, <1>1, <1>3, <1>7
<1>9. u \in Transfer
  BY <1>6, <1>5, <1>4, <1>1, <1>8 DEF Transfer
<1>10. QED
  BY <1>9, <1>5, <1>4, <1>3

LEMMA StatusType ==
    ASSUME NEW t \in Transfer, NEW row, NEW s \in FileStatus
    PROVE  /\ setFileStatus(t, row, s) \in Transfer
           /\ setFileStatus(t, row, s).state = t.state
           /\ Len(setFileStatus(t, row, s).files) = Len(t.files)
           /\ DOMAIN setFileStatus(t, row, s).files = DOMAIN t.files
           /\ \A r \in DOMAIN t.files : setFileStatus(t, row, s).files[r].status =
                  IF r = row THEN s ELSE t.files[r].status
<1>1. CASE Listed(t, row)
  BY <1>1, StatusTypeAt DEF Listed
<1>2. CASE ~Listed(t, row)
  BY <1>2, NoSuchRow DEF Listed, Transfer
<1> QED BY <1>1, <1>2

LEMMA TransferredTypeAt ==
    ASSUME NEW t \in Transfer, NEW row \in DOMAIN t.files, NEW bytes \in 0..MaxSize
    PROVE  /\ setFileTransferred(t, row, bytes) \in Transfer
           /\ setFileTransferred(t, row, bytes).state = t.state
           /\ Len(setFileTransferred(t, row, bytes).files) = Len(t.files)
           /\ DOMAIN setFileTransferred(t, row, bytes).files = DOMAIN t.files
           /\ \A r \in DOMAIN t.files :
                  setFileTransferred(t, row, bytes).files[r].status = t.files[r].status
<1> DEFINE f == t.files[row]
           got == IF bytes > f.size /\ f.size > 0 THEN f.size ELSE bytes
           e == [f EXCEPT !.transferred = got]
           fs == [t.files EXCEPT ![row] = e]
           u == setFileTransferred(t, row, bytes)
<1>1. t.files \in Seq(FileEntry) /\ t.state \in TransferState /\ t.transferredBytes \in Int
  BY DEF Transfer
<1>2. f \in FileEntry
  BY <1>1
<1>3. f.size \in 0..MaxSize /\ f.transferred \in 0..MaxSize
  BY <1>2 DEF FileEntry
<1>4. got \in 0..MaxSize /\ got \in Int /\ f.transferred \in Int
  BY <1>3, TransferAssumption
<1>5. e \in FileEntry
  <2> HIDE DEF got
  <2> QED BY <1>2, <1>4 DEF FileEntry
<1>6. fs \in Seq(FileEntry) /\ Len(fs) = Len(t.files)
  BY <1>1, <1>5, RowsAreSeq
<1>7. u = [state |-> t.state, files |-> fs,
           transferredBytes |-> t.transferredBytes + (got - f.transferred)]
  BY DEF setFileTransferred, Updated, Listed
<1>8. t.transferredBytes + (got - f.transferred) \in Int
  BY <1>1, <1>4
<1>9. QED
  <2> HIDE DEF fs, got, f, u
  <2>1. u \in Transfer /\ u.state = t.state /\ u.files = fs
    BY <1>1, <1>6, <1>7, <1>8 DEF Transfer
  <2>2. DOMAIN fs = DOMAIN t.files
    BY DEF fs
  <2>3. \A r \in DOMAIN t.files : fs[r].status = t.files[r].status
    <3>1. \A r \in DOMAIN t.files : fs[r] = IF r = row THEN e ELSE t.files[r]
      BY DEF fs
    <3>2. e.status = t.files[row].status
      <4>1. f \in FileEntry /\ e = [f EXCEPT !.transferred = got]
        BY <1>2
      <4>2. e.status = f.status
        BY <4>1 DEF FileEntry
      <4>3. QED
        BY <4>2 DEF f
    <3>3. QED
      BY <3>1, <3>2
  <2>4. QED
    BY <2>1, <2>2, <2>3, <1>6 DEF u

LEMMA TransferredType ==
    ASSUME NEW t \in Transfer, NEW row, NEW bytes \in 0..MaxSize
    PROVE  /\ setFileTransferred(t, row, bytes) \in Transfer
           /\ setFileTransferred(t, row, bytes).state = t.state
           /\ Len(setFileTransferred(t, row, bytes).files) = Len(t.files)
           /\ DOMAIN setFileTransferred(t, row, bytes).files = DOMAIN t.files
           /\ \A r \in DOMAIN t.files :
                  setFileTransferred(t, row, bytes).files[r].status = t.files[r].status
<1>1. CASE Listed(t, row)
  BY <1>1, TransferredTypeAt DEF Listed
<1>2. CASE ~Listed(t, row)
  BY <1>2, NoSuchRow DEF Listed, Transfer
<1> QED BY <1>1, <1>2

LEMMA LocalPathTypeAt ==
    ASSUME NEW t \in Transfer, NEW row \in DOMAIN t.files, NEW p \in Path
    PROVE  /\ setFileLocalPath(t, row, p) \in Transfer
           /\ setFileLocalPath(t, row, p).state = t.state
           /\ Len(setFileLocalPath(t, row, p).files) = Len(t.files)
           /\ DOMAIN setFileLocalPath(t, row, p).files = DOMAIN t.files
<1> DEFINE f == t.files[row]
           e == [f EXCEPT !.localPath = p]
           fs == [t.files EXCEPT ![row] = e]
           u == setFileLocalPath(t, row, p)
<1>1. t.files \in Seq(FileEntry) /\ t.state \in TransferState /\ t.transferredBytes \in Int
  BY DEF Transfer
<1>2. f \in FileEntry
  BY <1>1
<1>3. e \in FileEntry
  BY <1>2 DEF FileEntry
<1>4. fs \in Seq(FileEntry) /\ Len(fs) = Len(t.files)
  BY <1>1, <1>3, RowsAreSeq
<1>5. u = [state |-> t.state, files |-> fs, transferredBytes |-> t.transferredBytes]
  BY DEF setFileLocalPath, Updated, Listed
<1>6. QED
  <2> HIDE DEF fs, u
  <2>1. u \in Transfer /\ u.state = t.state /\ u.files = fs
    BY <1>1, <1>4, <1>5 DEF Transfer
  <2>2. DOMAIN fs = DOMAIN t.files
    BY DEF fs
  <2>3. QED
    BY <2>1, <2>2, <1>4 DEF u

LEMMA LocalPathType ==
    ASSUME NEW t \in Transfer, NEW row, NEW p \in Path
    PROVE  /\ setFileLocalPath(t, row, p) \in Transfer
           /\ setFileLocalPath(t, row, p).state = t.state
           /\ Len(setFileLocalPath(t, row, p).files) = Len(t.files)
           /\ DOMAIN setFileLocalPath(t, row, p).files = DOMAIN t.files
<1>1. CASE Listed(t, row)
  BY <1>1, LocalPathTypeAt DEF Listed
<1>2. CASE ~Listed(t, row)
  BY <1>2, NoSuchRow DEF Listed, Transfer
<1> QED BY <1>1, <1>2

(* What the updates leave alone of every row, and what they change of one. *)
LEMMA RowFieldsAt ==
    ASSUME NEW t \in Transfer, NEW row \in DOMAIN t.files
    PROVE  /\ \A s, r : r \in DOMAIN t.files =>
                 /\ setFileStatus(t, row, s).files[r].id = t.files[r].id
                 /\ setFileStatus(t, row, s).files[r].size = t.files[r].size
                 /\ setFileStatus(t, row, s).files[r].digest = t.files[r].digest
                 /\ setFileStatus(t, row, s).files[r].localPath = t.files[r].localPath
           /\ \A n, r : r \in DOMAIN t.files =>
                 /\ setFileTransferred(t, row, n).files[r].id = t.files[r].id
                 /\ setFileTransferred(t, row, n).files[r].size = t.files[r].size
                 /\ setFileTransferred(t, row, n).files[r].digest = t.files[r].digest
                 /\ setFileTransferred(t, row, n).files[r].localPath = t.files[r].localPath
           /\ \A p, r : r \in DOMAIN t.files =>
                 /\ setFileLocalPath(t, row, p).files[r].id = t.files[r].id
                 /\ setFileLocalPath(t, row, p).files[r].size = t.files[r].size
                 /\ setFileLocalPath(t, row, p).files[r].digest = t.files[r].digest
                 /\ setFileLocalPath(t, row, p).files[r].status = t.files[r].status
                 /\ setFileLocalPath(t, row, p).files[r].localPath =
                        IF r = row THEN p ELSE t.files[r].localPath
<1>1. t.files[row] \in FileEntry
  BY DEF Transfer
<1>2. ASSUME NEW s, NEW r \in DOMAIN t.files
      PROVE  /\ setFileStatus(t, row, s).files[r].id = t.files[r].id
             /\ setFileStatus(t, row, s).files[r].size = t.files[r].size
             /\ setFileStatus(t, row, s).files[r].digest = t.files[r].digest
             /\ setFileStatus(t, row, s).files[r].localPath = t.files[r].localPath
  <2> DEFINE f == t.files[row]
             got == IF s = "done" THEN f.size ELSE f.transferred
             e == [f EXCEPT !.status = s, !.transferred = got]
  <2>1. setFileStatus(t, row, s).files[r] = IF r = row THEN e ELSE t.files[r]
    BY DEF setFileStatus, Updated, Listed
  <2>2. e.id = f.id /\ e.size = f.size /\ e.digest = f.digest /\ e.localPath = f.localPath
    <3> HIDE DEF got
    <3> QED BY <1>1 DEF FileEntry
  <2> HIDE DEF e
  <2>3. QED
    BY <2>1, <2>2
<1>3. ASSUME NEW n, NEW r \in DOMAIN t.files
      PROVE  /\ setFileTransferred(t, row, n).files[r].id = t.files[r].id
             /\ setFileTransferred(t, row, n).files[r].size = t.files[r].size
             /\ setFileTransferred(t, row, n).files[r].digest = t.files[r].digest
             /\ setFileTransferred(t, row, n).files[r].localPath = t.files[r].localPath
  <2> DEFINE f == t.files[row]
             got == IF n > f.size /\ f.size > 0 THEN f.size ELSE n
             e == [f EXCEPT !.transferred = got]
  <2>1. setFileTransferred(t, row, n).files[r] = IF r = row THEN e ELSE t.files[r]
    BY DEF setFileTransferred, Updated, Listed
  <2>2. e.id = f.id /\ e.size = f.size /\ e.digest = f.digest /\ e.localPath = f.localPath
    <3> HIDE DEF got
    <3> QED BY <1>1 DEF FileEntry
  <2> HIDE DEF e
  <2>3. QED
    BY <2>1, <2>2
<1>4. ASSUME NEW p, NEW r \in DOMAIN t.files
      PROVE  /\ setFileLocalPath(t, row, p).files[r].id = t.files[r].id
             /\ setFileLocalPath(t, row, p).files[r].size = t.files[r].size
             /\ setFileLocalPath(t, row, p).files[r].digest = t.files[r].digest
             /\ setFileLocalPath(t, row, p).files[r].status = t.files[r].status
             /\ setFileLocalPath(t, row, p).files[r].localPath =
                    IF r = row THEN p ELSE t.files[r].localPath
  <2> DEFINE e == [t.files[row] EXCEPT !.localPath = p]
  <2>1. setFileLocalPath(t, row, p).files[r] = IF r = row THEN e ELSE t.files[r]
    BY DEF setFileLocalPath, Updated, Listed
  <2>2. /\ e.id = t.files[row].id /\ e.size = t.files[row].size
        /\ e.digest = t.files[row].digest /\ e.status = t.files[row].status
        /\ e.localPath = p
    BY <1>1 DEF FileEntry
  <2> HIDE DEF e
  <2>3. QED
    BY <2>1, <2>2
<1>5. QED
  BY <1>2, <1>3, <1>4

LEMMA RowFields ==
    ASSUME NEW t \in Transfer, NEW row
    PROVE  /\ \A s, r : r \in DOMAIN t.files =>
                 /\ setFileStatus(t, row, s).files[r].id = t.files[r].id
                 /\ setFileStatus(t, row, s).files[r].size = t.files[r].size
                 /\ setFileStatus(t, row, s).files[r].digest = t.files[r].digest
                 /\ setFileStatus(t, row, s).files[r].localPath = t.files[r].localPath
           /\ \A n, r : r \in DOMAIN t.files =>
                 /\ setFileTransferred(t, row, n).files[r].id = t.files[r].id
                 /\ setFileTransferred(t, row, n).files[r].size = t.files[r].size
                 /\ setFileTransferred(t, row, n).files[r].digest = t.files[r].digest
                 /\ setFileTransferred(t, row, n).files[r].localPath = t.files[r].localPath
           /\ \A p, r : r \in DOMAIN t.files =>
                 /\ setFileLocalPath(t, row, p).files[r].id = t.files[r].id
                 /\ setFileLocalPath(t, row, p).files[r].size = t.files[r].size
                 /\ setFileLocalPath(t, row, p).files[r].digest = t.files[r].digest
                 /\ setFileLocalPath(t, row, p).files[r].status = t.files[r].status
                 /\ setFileLocalPath(t, row, p).files[r].localPath =
                        IF r = row THEN p ELSE t.files[r].localPath
<1>1. CASE Listed(t, row)
  BY <1>1, RowFieldsAt DEF Listed
<1>2. CASE ~Listed(t, row)
  BY <1>2, NoSuchRow DEF Listed, Transfer
<1> QED BY <1>1, <1>2

(* begin() makes one fresh row per declared file.                          *)
LEMMA BeginType ==
    ASSUME NEW t \in Transfer, NEW offer \in Seq(Descriptor)
    PROVE  /\ begin(t, offer) \in Transfer
           /\ Len(begin(t, offer).files) = Len(offer)
           /\ \A r \in DOMAIN begin(t, offer).files :
                 begin(t, offer).files[r].status = "waiting"
<1> DEFINE fs == [r \in 1..Len(offer) |-> NewEntry(offer[r])]
           u == begin(t, offer)
<1>1. Len(offer) \in Nat /\ \A r \in 1..Len(offer) : offer[r] \in Descriptor
  OBVIOUS
<1>2. ASSUME NEW d \in Descriptor PROVE NewEntry(d) \in FileEntry
  BY TransferAssumption DEF Descriptor, NewEntry, FileEntry, FileStatus
<1>3. fs \in [1..Len(offer) -> FileEntry]
  BY <1>1, <1>2
<1>4. fs \in Seq(FileEntry) /\ Len(fs) = Len(offer)
  <2>1. fs \in Seq(FileEntry)
    BY <1>1, <1>3, IsASeq
  <2>2. DOMAIN fs = 1..Len(offer)
    OBVIOUS
  <2>3. QED
    BY <2>1, <2>2, <1>1, LenProperties
<1>5. u = [state |-> t.state, files |-> fs, transferredBytes |-> 0]
  BY DEF begin, Updated
<1>6. t.state \in TransferState
  BY DEF Transfer
<1>7. QED
  <2> HIDE DEF fs, u
  <2>1. u \in Transfer /\ u.files = fs
    BY <1>4, <1>5, <1>6 DEF Transfer
  <2>2. \A r \in DOMAIN fs : fs[r].status = "waiting"
    BY DEF fs, NewEntry
  <2>3. QED
    BY <2>1, <2>2, <1>4 DEF u

LEMMA SetStateType ==
    ASSUME NEW t \in Transfer, NEW s \in TransferState
    PROVE  /\ setState(t, s) \in Transfer
           /\ setState(t, s).state = s /\ setState(t, s).files = t.files
  BY DEF Transfer, setState

LEMMA NoTransferType == NoTransfer \in Transfer /\ Len(NoTransfer.files) = 0
  BY DEF NoTransfer, Transfer, TransferState

(* Rows that declare what other rows, or the files of a list, declare.     *)
Declares(f, g) ==
    /\ DOMAIN f = DOMAIN g
    /\ \A r \in DOMAIN g : f[r].id = g[r].id /\ f[r].size = g[r].size /\ f[r].digest = g[r].digest

LEMMA DeclaresSame ==
    /\ \A f : Declares(f, f)
    /\ \A f, g, h : Declares(f, g) /\ Declares(g, h) => Declares(f, h)
  BY DEF Declares

(* The methods that change a row leave what it declares.                   *)
LEMMA RowsDeclare ==
    ASSUME NEW t \in Transfer, NEW row
    PROVE  /\ \A s \in FileStatus : Declares(setFileStatus(t, row, s).files, t.files)
           /\ \A n \in 0..MaxSize : Declares(setFileTransferred(t, row, n).files, t.files)
           /\ \A p \in Path : Declares(setFileLocalPath(t, row, p).files, t.files)
<1>1. CASE Listed(t, row)
  <2>1. row \in DOMAIN t.files
    BY <1>1 DEF Listed
  <2>2. ASSUME NEW s \in FileStatus PROVE Declares(setFileStatus(t, row, s).files, t.files)
    BY <2>1, StatusTypeAt, RowFieldsAt DEF Declares
  <2>3. ASSUME NEW n \in 0..MaxSize PROVE Declares(setFileTransferred(t, row, n).files, t.files)
    BY <2>1, TransferredTypeAt, RowFieldsAt DEF Declares
  <2>4. ASSUME NEW p \in Path PROVE Declares(setFileLocalPath(t, row, p).files, t.files)
    BY <2>1, LocalPathTypeAt, RowFieldsAt DEF Declares
  <2>5. QED
    BY <2>2, <2>3, <2>4
<1>2. CASE ~Listed(t, row)
  BY <1>2, NoSuchRow, DeclaresSame
<1> QED BY <1>1, <1>2

(* The rows begin() makes declare what the list does.                      *)
LEMMA BeginDeclares ==
    ASSUME NEW t, NEW offer \in Seq(Descriptor)
    PROVE  Declares(begin(t, offer).files, offer)
<1> DEFINE fs == begin(t, offer).files
<1>1. fs = [r \in 1..Len(offer) |-> NewEntry(offer[r])] /\ DOMAIN offer = 1..Len(offer)
  BY DEF begin, Updated
<1> HIDE DEF fs
<1>2. \A r \in DOMAIN offer :
         fs[r].id = offer[r].id /\ fs[r].size = offer[r].size /\ fs[r].digest = offer[r].digest
  BY <1>1 DEF NewEntry
<1>3. QED
  BY <1>1, <1>2 DEF Declares, fs


-----------------------------------------------------------------------------
(* The running total.                                                      *)

(* s[n] is the sum of the first n shares, for n up to N.                   *)
Sums(s, f, N) ==
    s[0] = 0 /\ \A n \in Nat : n + 1 <= N => s[n + 1] = s[n] + f[n + 1]

(* The sum is what its definition says, turn by turn.                      *)
LEMMA SumUnfolds ==
    ASSUME NEW f \in Seq(Nat)
    PROVE  \E s : Sums(s, f, Len(f)) /\ SumOf(f) = s[Len(f)]
<1> DEFINE N == Len(f)
           Body(s) == [n \in 0..N |-> IF n = 0 THEN 0 ELSE s[n - 1] + f[n]]
           sum == CHOOSE s : s = Body(s)
           share(n) == IF n \in 1..N THEN f[n] ELSE 0
           step == [n \in Nat |-> [x \in Nat |-> x + share(n + 1)]]
<1>1. N \in Nat /\ \A n \in 1..N : f[n] \in Nat
  OBVIOUS
<1>2. \A n \in Nat : share(n) \in Nat
  BY <1>1
<1>3. step \in [Nat -> [Nat -> Nat]]
  <2>1. \A n \in Nat : n + 1 \in Nat
    OBVIOUS
  <2> HIDE DEF share
  <2>2. \A n \in Nat : share(n + 1) \in Nat
    BY <1>2, <2>1
  <2>3. \A n \in Nat : [x \in Nat |-> x + share(n + 1)] \in [Nat -> Nat]
    BY <2>2
  <2> QED BY <2>3
<1>4. PICK g \in [Nat -> Nat] : g[0] = 0 /\ \A n \in Nat : g[n + 1] = step[n][g[n]]
  <2> HIDE DEF step, Body, sum, share, N
  <2> QED BY <1>3, NatLoopExists
<1>5. \E s : s = Body(s)
  <2> DEFINE s == [n \in 0..N |-> g[n]]
  <2>1. ASSUME NEW n \in 0..N PROVE s[n] = Body(s)[n]
    <3>1. CASE n = 0
      BY <1>1, <1>4, <3>1
    <3>2. CASE n # 0
      <4>1. n - 1 \in Nat /\ n - 1 \in 0..N /\ (n - 1) + 1 = n /\ n \in 1..N
        <5> HIDE DEF N
        <5> QED BY <1>1, <3>2
      <4>2. g[n] = step[n - 1][g[n - 1]] /\ g[n - 1] \in Nat
        BY <1>4, <4>1
      <4>3. g[n] = g[n - 1] + f[n]
        BY <4>1, <4>2
      <4> QED BY <3>2, <4>1, <4>3
    <3> QED BY <3>1, <3>2
  <2>2. s = Body(s)
    BY <2>1
  <2> QED BY <2>2
<1>6. sum = Body(sum)
  <2> HIDE DEF Body
  <2> QED BY <1>5
<1>7. SumOf(f) = sum[N]
  BY DEF SumOf
<1> HIDE DEF sum, step
<1>8. Sums(sum, f, N)
  <2>1. 0 \in 0..N /\ \A n \in Nat : n + 1 <= N => n + 1 \in 0..N /\ n + 1 # 0 /\ (n + 1) - 1 = n
    BY <1>1
  <2> QED BY <1>6, <2>1 DEF Sums
<1> QED BY <1>7, <1>8

(* Two sums of shares that differ in one row.                              *)
AlikeBut(f, g, row, N) ==
    \A r \in 1..N : f[r] \in Int /\ g[r] \in Int /\ (r # row => g[r] = f[r])
LEMMA SumsApart ==
    ASSUME NEW N \in Nat, NEW row \in 1..N, NEW f, NEW g, NEW s, NEW w,
           AlikeBut(f, g, row, N), Sums(s, f, N), Sums(w, g, N)
    PROVE  s[N] \in Int /\ w[N] = s[N] + (g[row] - f[row])
<1> DEFINE change == g[row] - f[row]
           Apart(n) == /\ s[n] \in Int
                       /\ n < row => w[n] = s[n]
                       /\ n >= row => w[n] = s[n] + change
           S == {n \in Nat : n <= N => Apart(n)}
<1>1. \A x, y, z \in Int : x + (y + z) = (x + y) + z /\ (x + z) + y = (x + y) + z
  OBVIOUS
<1>2. change \in Int /\ \A x, y \in Int : y = x + (y - x)
  BY DEF AlikeBut
<1>3. 0 \in S
  BY DEF Sums
<1>4. ASSUME NEW n \in Nat, n \in S PROVE n + 1 \in S
  <2> SUFFICES ASSUME n + 1 <= N PROVE Apart(n + 1)
    OBVIOUS
  <2>1. Apart(n) /\ n + 1 \in 1..N
    BY <1>4
  <2>2. s[n + 1] = s[n] + f[n + 1] /\ w[n + 1] = w[n] + g[n + 1]
    BY DEF Sums
  <2>3. f[n + 1] \in Int /\ g[n + 1] \in Int /\ s[n] \in Int
    BY <2>1 DEF AlikeBut
  <2>4. s[n + 1] \in Int
    BY <2>2, <2>3
  <2>5. CASE n + 1 = row
    <3>1. n < row /\ n + 1 >= row /\ ~(n + 1 < row)
      BY <2>5
    <3>2. g[n + 1] = f[n + 1] + change
      BY <1>2, <2>3, <2>5
    <3> HIDE DEF change
    <3>3. w[n + 1] = s[n] + (f[n + 1] + change)
      BY <2>1, <2>2, <3>1, <3>2
    <3>4. w[n + 1] = s[n + 1] + change
      BY <1>1, <1>2, <2>2, <2>3, <3>3
    <3> QED BY <2>4, <3>1, <3>4
  <2>6. CASE n + 1 < row
    <3>1. g[n + 1] = f[n + 1] /\ n < row /\ ~(n + 1 >= row)
      BY <2>1, <2>6 DEF AlikeBut
    <3>2. w[n + 1] = s[n + 1]
      BY <2>1, <2>2, <3>1
    <3> QED BY <2>4, <3>1, <3>2
  <2>7. CASE n + 1 > row
    <3>1. g[n + 1] = f[n + 1] /\ n >= row /\ ~(n + 1 < row)
      BY <2>1, <2>7 DEF AlikeBut
    <3> HIDE DEF change
    <3>2. w[n + 1] = (s[n] + change) + f[n + 1]
      BY <2>1, <2>2, <3>1
    <3>3. w[n + 1] = (s[n] + f[n + 1]) + change
      BY <1>1, <1>2, <2>3, <3>2
    <3> QED BY <2>2, <2>4, <3>1, <3>3
  <2>8. n + 1 = row \/ n + 1 < row \/ n + 1 > row
    OBVIOUS
  <2> QED BY <2>5, <2>6, <2>7, <2>8
<1>5. N \in S
  <2> HIDE DEF S
  <2> QED BY <1>3, <1>4, SetInduction
<1>6. Apart(N) /\ N >= row
  BY <1>5
<1> QED BY <1>6

(* One share changes the sum by as much as it changes.                     *)
LEMMA SumChanges ==
    ASSUME NEW f \in Seq(Nat), NEW g \in Seq(Nat), Len(g) = Len(f), NEW row \in 1..Len(f),
           \A r \in 1..Len(f) : r # row => g[r] = f[r]
    PROVE  /\ SumOf(f) \in Int
           /\ SumOf(g) = SumOf(f) + (g[row] - f[row])
<1> DEFINE N == Len(f)
<1>1. N \in Nat /\ row \in 1..N
  OBVIOUS
<1>2. AlikeBut(f, g, row, N)
  BY DEF AlikeBut
<1>3. PICK s : Sums(s, f, N) /\ SumOf(f) = s[N]
  BY SumUnfolds
<1>4. PICK w : Sums(w, g, N) /\ SumOf(g) = w[N]
  BY SumUnfolds
<1> HIDE DEF N
<1>5. s[N] \in Int /\ w[N] = s[N] + (g[row] - f[row])
  BY ONLY <1>1, <1>2, <1>3, <1>4, SumsApart
<1> QED BY <1>3, <1>4, <1>5

LEMMA SumOfNothing ==
    ASSUME NEW f \in Seq(Nat), \A r \in 1..Len(f) : f[r] = 0
    PROVE  SumOf(f) = 0
<1> DEFINE N == Len(f)
<1>1. N \in Nat /\ \A r \in 1..N : f[r] = 0
  OBVIOUS
<1>2. PICK s : Sums(s, f, N) /\ SumOf(f) = s[N]
  BY SumUnfolds
<1> HIDE DEF N
<1> DEFINE S == {n \in Nat : n <= N => s[n] = 0}
<1>3. 0 \in S
  BY <1>2 DEF Sums
<1>4. ASSUME NEW n \in Nat, n \in S PROVE n + 1 \in S
  <2> SUFFICES ASSUME n + 1 <= N PROVE s[n + 1] = 0
    OBVIOUS
  <2>1. s[n] = 0 /\ n + 1 \in 1..N
    BY <1>1, <1>4
  <2>2. f[n + 1] = 0 /\ s[n + 1] = s[n] + f[n + 1]
    BY <1>1, <1>2, <2>1 DEF Sums
  <2> QED BY <2>1, <2>2
<1>5. N \in S
  <2> HIDE DEF S
  <2> QED BY <1>1, <1>3, <1>4, SetInduction
<1> QED BY <1>1, <1>2, <1>5

(* The shares of a transfer are numbers, one for each row.                 *)
LEMMA SharesType ==
    ASSUME NEW t \in Transfer
    PROVE  /\ Shares(t) \in Seq(Nat) /\ Len(Shares(t)) = Len(t.files)
           /\ DOMAIN t.files = 1..Len(t.files) /\ Len(t.files) \in Nat
           /\ \A r \in DOMAIN t.files : Shares(t)[r] = t.files[r].transferred
           /\ \A r \in DOMAIN t.files : /\ t.files[r] \in FileEntry
                                        /\ t.files[r].transferred \in Nat
                                        /\ t.files[r].size \in 0..MaxSize
<1>1. t.files \in Seq(FileEntry)
  BY DEF Transfer
<1>2. /\ DOMAIN t.files = 1..Len(t.files) /\ Len(t.files) \in Nat
      /\ \A r \in DOMAIN t.files : t.files[r] \in FileEntry
  BY <1>1, RowsAreSeq
<1>3. \A r \in DOMAIN t.files : t.files[r].transferred \in Nat /\ t.files[r].size \in 0..MaxSize
  BY <1>2, TransferAssumption DEF FileEntry
<1> DEFINE f == Shares(t)
<1>4. f = [r \in 1..Len(t.files) |-> t.files[r].transferred]
  BY DEF Shares
<1> HIDE DEF f
<1>5. f \in [1..Len(t.files) -> Nat]
  BY <1>2, <1>3, <1>4
<1>6. f \in Seq(Nat)
  BY <1>2, <1>5, IsASeq
<1>7. Len(f) = Len(t.files)
  BY <1>2, <1>5, <1>6, LenProperties
<1> QED BY <1>2, <1>3, <1>4, <1>6, <1>7 DEF f

(* Rows of the same sizes with the same shares make the same sum.          *)
LEMMA AddsUpSame ==
    ASSUME NEW t \in Transfer, NEW u \in Transfer, AddsUp(t),
           u.transferredBytes = t.transferredBytes, Len(u.files) = Len(t.files),
           \A r \in DOMAIN t.files : /\ u.files[r].transferred = t.files[r].transferred
                                     /\ u.files[r].size = t.files[r].size
    PROVE  AddsUp(u)
<1>1. DOMAIN u.files = DOMAIN t.files /\ DOMAIN t.files = 1..Len(t.files)
  BY SharesType
<1>2. Shares(u) = Shares(t)
  BY <1>1 DEF Shares
<1> QED BY <1>1, <1>2 DEF AddsUp

(* One row's share changes, and the total by as much.                      *)
LEMMA AddsUpChanged ==
    ASSUME NEW t \in Transfer, NEW u \in Transfer, AddsUp(t), NEW row \in DOMAIN t.files,
           Len(u.files) = Len(t.files),
           u.transferredBytes =
               t.transferredBytes + (u.files[row].transferred - t.files[row].transferred),
           u.files[row].transferred <= t.files[row].size,
           \A r \in DOMAIN t.files : u.files[r].size = t.files[r].size,
           \A r \in DOMAIN t.files : r # row => u.files[r].transferred = t.files[r].transferred
    PROVE  AddsUp(u)
<1>1. /\ DOMAIN u.files = DOMAIN t.files /\ DOMAIN t.files = 1..Len(t.files)
      /\ Shares(t) \in Seq(Nat) /\ Shares(u) \in Seq(Nat)
      /\ Len(Shares(t)) = Len(t.files) /\ Len(Shares(u)) = Len(t.files)
      /\ \A r \in DOMAIN t.files : /\ Shares(t)[r] = t.files[r].transferred
                                   /\ Shares(u)[r] = u.files[r].transferred
  BY SharesType
<1> DEFINE f == Shares(t)
           g == Shares(u)
<1> HIDE DEF f, g
<1>2. /\ f \in Seq(Nat) /\ g \in Seq(Nat) /\ Len(g) = Len(f) /\ row \in 1..Len(f)
      /\ \A r \in 1..Len(f) : r # row => g[r] = f[r]
  BY <1>1 DEF f, g
<1>3. SumOf(g) = SumOf(f) + (g[row] - f[row])
  BY <1>2, SumChanges
<1>4. u.transferredBytes = SumOf(Shares(u))
  BY <1>1, <1>3 DEF f, g, AddsUp
<1>5. \A r \in DOMAIN u.files : u.files[r].transferred <= u.files[r].size
  BY <1>1 DEF AddsUp
<1> QED BY <1>4, <1>5 DEF AddsUp

(* Each method keeps the total; progress as long as it is within the size. *)
LEMMA StatusAddsUp ==
    ASSUME NEW t \in Transfer, AddsUp(t), NEW row \in DOMAIN t.files, NEW s \in FileStatus
    PROVE  AddsUp(setFileStatus(t, row, s))
<1> DEFINE f == t.files[row]
           got == IF s = "done" THEN f.size ELSE f.transferred
           e == [f EXCEPT !.status = s, !.transferred = got]
           u == setFileStatus(t, row, s)
<1>1. u \in Transfer /\ Len(u.files) = Len(t.files)
  BY StatusTypeAt
<1>2. \A r \in DOMAIN t.files : u.files[r].size = t.files[r].size
  BY RowFieldsAt
<1>3. f \in FileEntry /\ f.transferred \in Nat /\ f.size \in 0..MaxSize
  BY SharesType
<1>4. f.transferred <= f.size
  BY DEF AddsUp
<1>5. got <= f.size
  BY <1>3, <1>4, TransferAssumption
<1>6. /\ \A r \in DOMAIN t.files : u.files[r] = IF r = row THEN e ELSE t.files[r]
      /\ u.transferredBytes = t.transferredBytes + (got - f.transferred)
  BY DEF setFileStatus, Updated, Listed
<1>7. e.transferred = got
  <2> HIDE DEF got
  <2> QED BY <1>3 DEF FileEntry
<1> HIDE DEF u, e, got
<1>8. u.files[row].transferred = got
  BY <1>6, <1>7
<1>9. \A r \in DOMAIN t.files : r # row => u.files[r].transferred = t.files[r].transferred
  BY <1>6
<1>10. AddsUp(u)
  BY <1>1, <1>2, <1>5, <1>6, <1>8, <1>9, AddsUpChanged
<1> QED BY <1>10 DEF u

LEMMA TransferredAddsUp ==
    ASSUME NEW t \in Transfer, AddsUp(t), NEW row \in DOMAIN t.files,
           NEW bytes \in 0..t.files[row].size
    PROVE  AddsUp(setFileTransferred(t, row, bytes))
<1> DEFINE f == t.files[row]
           got == IF bytes > f.size /\ f.size > 0 THEN f.size ELSE bytes
           e == [f EXCEPT !.transferred = got]
           u == setFileTransferred(t, row, bytes)
<1>1. f \in FileEntry /\ f.transferred \in Nat /\ f.size \in 0..MaxSize
  BY SharesType
<1>2. bytes \in 0..MaxSize /\ bytes <= f.size
  BY <1>1, TransferAssumption
<1>3. u \in Transfer /\ Len(u.files) = Len(t.files)
  BY <1>2, TransferredTypeAt
<1>4. \A r \in DOMAIN t.files : u.files[r].size = t.files[r].size
  BY RowFieldsAt
<1>5. got = bytes
  BY <1>1, <1>2, TransferAssumption
<1>6. /\ \A r \in DOMAIN t.files : u.files[r] = IF r = row THEN e ELSE t.files[r]
      /\ u.transferredBytes = t.transferredBytes + (got - f.transferred)
  BY DEF setFileTransferred, Updated, Listed
<1>7. e.transferred = got
  <2> HIDE DEF got
  <2> QED BY <1>1 DEF FileEntry
<1> HIDE DEF u, e, got
<1>8. u.files[row].transferred = got
  BY <1>6, <1>7
<1>9. \A r \in DOMAIN t.files : r # row => u.files[r].transferred = t.files[r].transferred
  BY <1>6
<1>10. AddsUp(u)
  BY <1>2, <1>3, <1>4, <1>5, <1>6, <1>8, <1>9, AddsUpChanged
<1> QED BY <1>10 DEF u

LEMMA LocalPathAddsUp ==
    ASSUME NEW t \in Transfer, AddsUp(t), NEW row \in DOMAIN t.files, NEW p \in Path
    PROVE  AddsUp(setFileLocalPath(t, row, p))
<1> DEFINE e == [t.files[row] EXCEPT !.localPath = p]
           u == setFileLocalPath(t, row, p)
<1>1. u \in Transfer /\ Len(u.files) = Len(t.files)
  BY LocalPathTypeAt
<1>2. /\ \A r \in DOMAIN t.files : u.files[r] = IF r = row THEN e ELSE t.files[r]
      /\ u.transferredBytes = t.transferredBytes
  BY DEF setFileLocalPath, Updated, Listed
<1>3. e.transferred = t.files[row].transferred /\ e.size = t.files[row].size
  BY SharesType DEF FileEntry
<1> HIDE DEF u, e
<1>4. AddsUp(u)
  BY <1>1, <1>2, <1>3, AddsUpSame
<1> QED BY <1>4 DEF u

LEMMA SetStateAddsUp ==
    ASSUME NEW t, AddsUp(t), NEW s
    PROVE  AddsUp(setState(t, s))
  BY DEF AddsUp, Shares, setState

LEMMA BeginAddsUp ==
    ASSUME NEW t \in Transfer, NEW offer \in Seq(Descriptor)
    PROVE  AddsUp(begin(t, offer))
<1> DEFINE u == begin(t, offer)
<1>1. u \in Transfer
  BY BeginType
<1>2. /\ u.files = [r \in 1..Len(offer) |-> NewEntry(offer[r])]
      /\ u.transferredBytes = 0
  BY DEF begin, Updated
<1>3. \A r \in DOMAIN u.files : u.files[r].transferred = 0
  BY <1>2 DEF NewEntry
<1> HIDE DEF u
<1>4. /\ Shares(u) \in Seq(Nat) /\ Len(Shares(u)) = Len(u.files)
      /\ DOMAIN u.files = 1..Len(u.files)
      /\ \A r \in DOMAIN u.files : /\ Shares(u)[r] = u.files[r].transferred
                                   /\ u.files[r].size \in 0..MaxSize
  BY <1>1, SharesType
<1>5. SumOf(Shares(u)) = 0
  BY <1>3, <1>4, SumOfNothing
<1>6. AddsUp(u)
  BY <1>2, <1>3, <1>4, <1>5, TransferAssumption DEF AddsUp
<1> QED BY <1>6 DEF u

LEMMA NoTransferAddsUp == AddsUp(NoTransfer)
<1>1. NoTransfer \in Transfer /\ Len(NoTransfer.files) = 0
  BY NoTransferType
<1>2. NoTransfer.transferredBytes = 0
  BY DEF NoTransfer
<1>3. /\ Shares(NoTransfer) \in Seq(Nat) /\ Len(Shares(NoTransfer)) = 0
      /\ DOMAIN NoTransfer.files = {}
  BY <1>1, SharesType
<1>4. SumOf(Shares(NoTransfer)) = 0
  <2> DEFINE f == Shares(NoTransfer)
  <2>1. f \in Seq(Nat) /\ \A r \in 1..Len(f) : f[r] = 0
    BY <1>3
  <2> HIDE DEF f
  <2>2. SumOf(f) = 0
    BY <2>1, SumOfNothing
  <2> QED BY <2>2 DEF f
<1> QED BY <1>2, <1>3, <1>4 DEF AddsUp

=============================================================================
