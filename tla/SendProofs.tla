----------------------------- MODULE SendProofs -----------------------------
(* Theorems about SendService, for every value of its constants: alone with *)
(* its transfer (IInv), and with ReceiveService at work in the same rows    *)
(* (Lasts).                                                                 *)
EXTENDS SendService, TransferProofs, SequenceTheorems, TLAPS

(* What ties the request in flight to the rows, beyond the properties:     *)
(* before the first upload every row still waits, and while uploading the  *)
(* rows that wait are rows the receiver gave a token for.                  *)
Coherent ==
    /\ busy => peer \in Receiver
    /\ reply = "upload" => /\ currentRow \in DOMAIN transfer.files
                           /\ RowsIn(transfer, {"waiting"}) \subseteq tokens
    /\ reply = "prepare" \/ pinDialog =>
          /\ posted = <<>>
          /\ \A r \in DOMAIN transfer.files : transfer.files[r].status = "waiting"
    /\ \A a \in answered : a[1] <= sends

IInv == /\ TypeOK /\ BusyIsBacked /\ EachFileOnce /\ SentMeansAnswered
        /\ PairingIsEarned /\ Coherent

-----------------------------------------------------------------------------
(* Marking rows changes their status and nothing else.                     *)
LEMMA MarkedType ==
    ASSUME NEW t \in Transfer, NEW rows, NEW s \in FileStatus
    PROVE  /\ Marked(t, rows, s) \in Transfer
           /\ Marked(t, rows, s).state = t.state
           /\ DOMAIN Marked(t, rows, s).files = DOMAIN t.files
           /\ \A r \in DOMAIN t.files : Marked(t, rows, s).files[r].status =
                  IF r \in rows THEN s ELSE t.files[r].status
<1> DEFINE fs == [r \in DOMAIN t.files |->
                     IF r \in rows THEN [t.files[r] EXCEPT !.status = s] ELSE t.files[r]]
           u == Marked(t, rows, s)
<1>1. t.files \in Seq(FileEntry) /\ t.state \in TransferState /\ t.transferredBytes \in Int
  BY DEF Transfer
<1>2. ASSUME NEW r \in DOMAIN t.files
      PROVE  /\ fs[r] \in FileEntry
             /\ fs[r].status = IF r \in rows THEN s ELSE t.files[r].status
  <2>1. t.files[r] \in FileEntry
    BY <1>1
  <2>2. /\ [t.files[r] EXCEPT !.status = s] \in FileEntry
        /\ [t.files[r] EXCEPT !.status = s].status = s
    BY <2>1 DEF FileEntry
  <2>3. QED
    BY <2>1, <2>2
<1>3. DOMAIN fs = DOMAIN t.files
  OBVIOUS
<1>4. fs = [r \in DOMAIN t.files |-> fs[r]]
  OBVIOUS
<1>5. fs \in Seq(FileEntry)
  <2> HIDE DEF fs
  <2> QED BY <1>1, <1>2, <1>3, <1>4, RowsAreSeq
<1>6. u = [state |-> t.state, files |-> fs, transferredBytes |-> t.transferredBytes]
  BY DEF Marked, Updated
<1>7. u \in Transfer /\ u.state = t.state /\ u.files = fs
  <2> HIDE DEF fs, u
  <2> QED BY <1>1, <1>5, <1>6 DEF Transfer
<1>8. QED
  BY <1>7, <1>2, <1>3

(* A transfer that is over, with rows t of which none is being sent and    *)
(* the done ones are answered, is coherent again.                          *)
LEMMA OverOK ==
    ASSUME IInv, busy,
           NEW t \in Transfer, Over(t), t.state \notin {"requesting", "active"},
           \A r \in DOMAIN t.files :
               /\ t.files[r].status # "transferring"
               /\ t.files[r].status = "done" <=> <<sends, peer, r>> \in answered',
           t.state = "finished" /\ posted # <<>> =>
               \A r \in DOMAIN t.files : t.files[r].status = "done",
           session' \in BOOLEAN, currentFile' = FALSE, currentRow' \in Nat,
           tokens' \subseteq Nat, \A i \in DOMAIN posted : posted[i] \in tokens',
           answered \subseteq answered', answered' \subseteq Nat \X Receiver \X Nat,
           \A a \in answered' : a[1] <= sends,
           \A p \in known' : p \in known \/ (p = peer /\ SomeDone(t)),
           \A h \in history' : h \in history \/
               \E r \in RowsIn(t, {"done"}) : h = <<sends, r>>
    PROVE  IInv'
<1> USE DEF Over
<1>1. peer \in Receiver /\ \A r \in DOMAIN t.files : r \in Nat
  <2>1. t.files \in Seq(FileEntry)
    BY DEF Transfer
  <2>2. QED
    BY <2>1 DEF IInv, Coherent
<1>2. TypeOK'
  <2>1. known' \subseteq Receiver
    BY <1>1 DEF IInv, TypeOK
  <2>2. history' \subseteq Nat \X Nat
    <3>1. \A r \in RowsIn(t, {"done"}) : <<sends, r>> \in Nat \X Nat
      BY <1>1 DEF RowsIn, IInv, TypeOK
    <3>2. QED
      BY <3>1 DEF IInv, TypeOK
  <2>3. QED
    BY <2>1, <2>2 DEF IInv, TypeOK
<1>3. BusyIsBacked'
  BY DEF BusyIsBacked
<1>4. EachFileOnce'
  BY DEF IInv, EachFileOnce
<1>5. SentMeansAnswered'
  BY DEF SentMeansAnswered
<1>6. PairingIsEarned'
  <2>1. ASSUME NEW p \in known' PROVE \E a \in answered' : a[2] = p
    <3>1. CASE p \in known
      BY <3>1 DEF IInv, PairingIsEarned
    <3>2. CASE p = peer /\ SomeDone(t)
      <4>1. PICK r \in DOMAIN t.files : t.files[r].status = "done"
        BY <3>2 DEF SomeDone
      <4>2. <<sends, peer, r>> \in answered'
        BY <4>1
      <4>3. QED
        BY <4>2, <3>2
    <3>3. QED
      BY <2>1, <3>1, <3>2
  <2>2. ASSUME NEW h \in history' PROVE \E p \in Receiver : <<h[1], p, h[2]>> \in answered'
    <3>1. CASE h \in history
      BY <3>1 DEF IInv, PairingIsEarned
    <3>2. CASE \E r \in RowsIn(t, {"done"}) : h = <<sends, r>>
      <4>1. PICK r \in RowsIn(t, {"done"}) : h = <<sends, r>>
        BY <3>2
      <4>2. <<sends, peer, r>> \in answered'
        BY <4>1 DEF RowsIn
      <4>3. h[1] = sends /\ h[2] = r
        BY <4>1
      <4>4. QED
        BY <4>2, <4>3, <1>1
    <3>3. QED
      BY <2>2, <3>1, <3>2
  <2>3. QED
    BY <2>1, <2>2 DEF PairingIsEarned
<1>7. Coherent'
  BY DEF Coherent
<1>8. QED
  BY <1>2, <1>3, <1>4, <1>5, <1>6, <1>7 DEF IInv

(* What a handler has reached when it calls startNextFile(): rows t of     *)
(* which none is being sent, whose waiting ones have a token and whose     *)
(* done ones are answered, and nothing posted beyond row cur.              *)
Ready(t, cur) ==
    /\ t \in Transfer /\ t.state = "active" /\ cur \in Nat
    /\ \A r \in DOMAIN t.files :
          /\ t.files[r].status # "transferring"
          /\ t.files[r].status = "done" <=> <<sends, peer, r>> \in answered'
    /\ RowsIn(t, {"waiting"}) \subseteq tokens'
    /\ tokens' \subseteq Nat
    /\ \A i \in DOMAIN posted : posted[i] <= cur /\ posted[i] \in tokens'
    /\ answered \subseteq answered' /\ answered' \subseteq Nat \X Receiver \X Nat
    /\ \A a \in answered' : a[1] <= sends

LEMMA NextFileOK ==
    ASSUME IInv, busy, ~pinDialog, NEW t, NEW cur, Ready(t, cur), startNextFile(t, cur)
    PROVE  IInv'
<1> DEFINE rest == Rest(t, cur)
<1>1. t \in Transfer /\ t.state = "active" /\ cur \in Nat
  BY DEF Ready
<1>2. DOMAIN t.files \subseteq Nat
  <2>1. t.files \in Seq(FileEntry)
    BY <1>1 DEF Transfer
  <2>2. QED
    BY <2>1
<1>3. \A r \in rest : /\ r \in DOMAIN t.files /\ r > cur /\ r \in Nat
                      /\ t.files[r].status = "waiting" /\ r \in tokens'
  BY <1>2 DEF Ready, Rest, RowsIn
<1>4. "failed" \in FileStatus /\ "transferring" \in FileStatus
  BY DEF FileStatus
<1> HIDE DEF rest
<1>5. ASSUME NEW row \in rest,
             transfer' = setFileStatus(Marked(t, {r \in rest : r < row}, "failed"),
                                       row, "transferring"),
             currentRow' = row, currentFile' = TRUE, reply' = "upload",
             posted' = Append(posted, row), session' = TRUE,
             UNCHANGED <<busy, peer, pinDialog, recordVars, sends>>
      PROVE  IInv'
  <2> DEFINE lower == {r \in rest : r < row}
             m == Marked(t, lower, "failed")
  <2>1. /\ m \in Transfer /\ m.state = "active" /\ DOMAIN m.files = DOMAIN t.files
        /\ \A r \in DOMAIN t.files : m.files[r].status =
               IF r \in lower THEN "failed" ELSE t.files[r].status
    BY <1>1, <1>4, MarkedType
  <2>2. /\ transfer' \in Transfer /\ transfer'.state = "active"
        /\ DOMAIN transfer'.files = DOMAIN t.files
        /\ \A r \in DOMAIN t.files : transfer'.files[r].status =
               IF r = row THEN "transferring" ELSE m.files[r].status
    <3> HIDE DEF m
    <3>1. row \in DOMAIN m.files /\ transfer' = setFileStatus(m, row, "transferring")
      BY <2>1, <1>3, <1>5 DEF m
    <3>2. QED
      BY <3>1, <2>1, <1>4, StatusType
  <2>3. \A r \in DOMAIN t.files : transfer'.files[r].status =
            IF r = row THEN "transferring"
            ELSE IF r \in lower THEN "failed" ELSE t.files[r].status
    BY <2>1, <2>2
  <2> HIDE DEF m
  <2>4. \A r \in lower : r \in DOMAIN t.files /\ t.files[r].status = "waiting"
    BY <1>3
  <2>5. row \in DOMAIN t.files /\ row \in Nat /\ row > cur /\ row \in tokens'
        /\ t.files[row].status = "waiting"
    BY <1>3
  <2> HIDE DEF lower
  <2>6. posted \in Seq(Nat) /\ posted' \in Seq(Nat) /\ Len(posted') = Len(posted) + 1
        /\ posted'[Len(posted')] = row /\ \A i \in DOMAIN posted : posted'[i] = posted[i]
        /\ DOMAIN posted' = DOMAIN posted \cup {Len(posted')}
    <3>1. posted \in Seq(Nat)
      BY DEF IInv, TypeOK
    <3>2. QED
      BY <3>1, <2>5, <1>5
  <2>7. TypeOK'
    BY <2>2, <2>5, <2>6, <1>5 DEF IInv, TypeOK, Ready, recordVars
  <2>8. BusyIsBacked'
    <3>1. \A r \in DOMAIN t.files : t.files[r].status # "transferring"
      BY DEF Ready
    <3>2. \A r \in DOMAIN transfer'.files :
             transfer'.files[r].status = "transferring" <=> r = row
      BY <3>1, <2>2, <2>3
    <3>3. QED
      BY <3>2, <2>2, <1>5 DEF BusyIsBacked
  <2>9. EachFileOnce'
    <3>1. \A i \in DOMAIN posted : posted[i] \in Nat /\ posted[i] < row /\ i \in Nat
          /\ i < Len(posted')
      BY <2>5, <2>6, <1>1 DEF Ready
    <3>2. \A i, j \in DOMAIN posted : i < j => posted[i] < posted[j]
      BY DEF IInv, EachFileOnce
    <3>3. \A i, j \in DOMAIN posted' : i < j => posted'[i] < posted'[j]
      <4> SUFFICES ASSUME NEW i \in DOMAIN posted', NEW j \in DOMAIN posted', i < j
                   PROVE  posted'[i] < posted'[j]
        OBVIOUS
      <4>1. CASE j \in DOMAIN posted /\ i \in DOMAIN posted
        BY <4>1, <3>2, <2>6
      <4>2. CASE j = Len(posted') /\ i \in DOMAIN posted
        BY <4>2, <3>1, <2>6
      <4>3. CASE i = Len(posted')
        <5>1. j <= Len(posted') /\ j \in Nat /\ Len(posted') \in Nat
          BY <2>6
        <5>2. QED
          BY <5>1, <4>3
      <4>4. QED
        BY <4>1, <4>2, <4>3, <2>6
    <3>4. \A i \in DOMAIN posted' : posted'[i] \in tokens'
      BY <2>5, <2>6 DEF Ready
    <3>5. posted' # <<>>
      BY <2>6
    <3>6. QED
      BY <3>3, <3>4, <3>5, <2>6, <1>5 DEF EachFileOnce
  <2>10. SentMeansAnswered'
    <3>1. \A r \in DOMAIN t.files :
             transfer'.files[r].status = "done" <=> t.files[r].status = "done"
      BY <2>3, <2>4, <2>5
    <3>2. QED
      BY <3>1, <2>2, <1>5 DEF SentMeansAnswered, Ready
  <2>11. PairingIsEarned'
    BY <1>5 DEF IInv, PairingIsEarned, Ready, recordVars
  <2>12. Coherent'
    <3>1. \A r \in DOMAIN t.files :
             transfer'.files[r].status = "waiting" => t.files[r].status = "waiting"
      BY <2>3
    <3>2. RowsIn(transfer', {"waiting"}) \subseteq tokens'
      BY <3>1, <2>2 DEF Ready, RowsIn
    <3>3. RowsIn(transfer, {"waiting"})' = RowsIn(transfer', {"waiting"})
      BY DEF RowsIn
    <3>4. QED
      BY <3>2, <3>3, <2>2, <2>5, <1>5 DEF IInv, Coherent, Ready
  <2>13. QED
    BY <2>7, <2>8, <2>9, <2>10, <2>11, <2>12 DEF IInv
<1>6. ASSUME completeTransfer(Marked(t, rest, "failed")),
             currentRow' \in rest \cup {cur}, currentFile' = FALSE
      PROVE  IInv'
  <2> DEFINE m == Marked(t, rest, "failed")
             u == setState(m, Outcome(m))
  <2>1. /\ m \in Transfer /\ DOMAIN m.files = DOMAIN t.files
        /\ \A r \in DOMAIN t.files : m.files[r].status =
               IF r \in rest THEN "failed" ELSE t.files[r].status
    BY <1>1, <1>4, MarkedType
  <2> HIDE DEF m
  <2>2. u \in Transfer /\ u.state = Outcome(m) /\ u.files = m.files
    BY <2>1, SetStateType DEF Outcome, TransferState
  <2>3. /\ Over(u) /\ session' = FALSE
        /\ known' = known \cup (IF SomeDone(m) THEN {peer} ELSE {})
        /\ history' = history \cup {<<sends, r>> : r \in RowsIn(m, {"done"})}
    BY <1>6 DEF completeTransfer, writeHistory, m
  <2>4. \A r \in DOMAIN u.files :
            /\ u.files[r].status # "transferring"
            /\ u.files[r].status = "done" <=> <<sends, peer, r>> \in answered'
    BY <1>3, <2>1, <2>2 DEF Ready
  <2>5. u.state \in {"finished", "failed"}
        /\ (u.state = "finished" => \A r \in DOMAIN u.files : u.files[r].status = "done")
    BY <2>2 DEF Outcome, AllDone
  <2>6. SomeDone(m) <=> SomeDone(u)
    BY <2>2 DEF SomeDone
  <2>7. RowsIn(m, {"done"}) = RowsIn(u, {"done"})
    BY <2>2 DEF RowsIn
  <2>8. currentRow' \in Nat
    BY <1>3, <1>1, <1>6
  <2> HIDE DEF u
  <2>9. \A p \in known' : p \in known \/ (p = peer /\ SomeDone(u))
    BY <2>3, <2>6
  <2>10. \A h \in history' : h \in history \/
               \E r \in RowsIn(u, {"done"}) : h = <<sends, r>>
    BY <2>3, <2>7
  <2>11. QED
    BY <2>2, <2>3, <2>4, <2>5, <2>8, <2>9, <2>10, <1>6, OverOK DEF Ready
<1>7. QED
  BY <1>5, <1>6 DEF startNextFile, rest

(* failTransfer() with rows t of which none is being sent.                 *)
LEMMA FailOK ==
    ASSUME IInv, busy, NEW t \in Transfer, failTransfer(t), UNCHANGED <<tokens, answered>>,
           \A r \in DOMAIN t.files :
               /\ t.files[r].status # "transferring"
               /\ t.files[r].status = "done" <=> <<sends, peer, r>> \in answered
    PROVE  IInv'
<1> DEFINE m == Marked(t, RowsIn(t, {"waiting"}), "skipped")
           u == setState(m, "failed")
<1>1. /\ m \in Transfer /\ DOMAIN m.files = DOMAIN t.files
      /\ \A r \in DOMAIN t.files : m.files[r].status =
             IF r \in RowsIn(t, {"waiting"}) THEN "skipped" ELSE t.files[r].status
  BY MarkedType DEF FileStatus
<1> HIDE DEF m
<1>2. u \in Transfer /\ u.state = "failed" /\ u.files = m.files
  BY <1>1, SetStateType DEF TransferState
<1>3. /\ Over(u) /\ session' = FALSE /\ currentFile' = FALSE /\ UNCHANGED <<currentRow, known>>
      /\ history' = history \cup {<<sends, r>> : r \in RowsIn(t, {"done"})}
  BY DEF failTransfer, writeHistory, m
<1>4. \A r \in DOMAIN u.files :
          /\ u.files[r].status # "transferring"
          /\ u.files[r].status = "done" <=> t.files[r].status = "done"
  BY <1>1, <1>2 DEF RowsIn
<1>5. RowsIn(t, {"done"}) = RowsIn(u, {"done"})
  BY <1>1, <1>2, <1>4 DEF RowsIn
<1> HIDE DEF u
<1>6. \A r \in DOMAIN u.files : u.files[r].status = "done" <=> <<sends, peer, r>> \in answered'
  BY <1>1, <1>2, <1>4
<1>7. /\ session' \in BOOLEAN /\ currentRow' \in Nat /\ tokens' \subseteq Nat
      /\ \A i \in DOMAIN posted : posted[i] \in tokens'
      /\ answered \subseteq answered' /\ answered' \subseteq Nat \X Receiver \X Nat
      /\ \A a \in answered' : a[1] <= sends
  BY <1>3 DEF IInv, TypeOK, EachFileOnce, Coherent
<1>8. \A h \in history' : h \in history \/
          \E r \in RowsIn(u, {"done"}) : h = <<sends, r>>
  BY <1>3, <1>5
<1>9. \A p \in known' : p \in known \/ (p = peer /\ SomeDone(u))
  BY <1>3
<1>10. QED
  BY <1>2, <1>3, <1>4, <1>6, <1>7, <1>8, <1>9, OverOK

-----------------------------------------------------------------------------
(* The actions.                                                            *)

LEMMA ChosenType ==
    ASSUME NEW offer \in Selections, transfer \in Transfer
    PROVE  /\ Chosen(offer) \in Transfer
           /\ \A r \in DOMAIN Chosen(offer).files :
                 Chosen(offer).files[r].status = "waiting"
<1> DEFINE e(r) == [NewEntry(offer[r]) EXCEPT !.localPath = SourceOf[offer[r].name]]
           fs == [r \in DOMAIN offer |-> e(r)]
           u == Chosen(offer)
<1>1. offer \in Seq(Descriptor)
  BY SendAssumption
<1>2. DOMAIN offer = 1..Len(offer) /\ Len(offer) \in Nat
      /\ \A r \in DOMAIN offer : offer[r] \in Descriptor
  BY <1>1
<1>3. ASSUME NEW r \in DOMAIN offer PROVE e(r) \in FileEntry /\ e(r).status = "waiting"
  <2>1. NewEntry(offer[r]) \in FileEntry /\ NewEntry(offer[r]).status = "waiting"
    BY <1>2, TransferAssumption DEF Descriptor, NewEntry, FileEntry, FileStatus
  <2>2. SourceOf[offer[r].name] \in Path
    BY <1>2, SendAssumption DEF Descriptor
  <2>3. QED
    BY <2>1, <2>2 DEF FileEntry
<1> HIDE DEF e
<1>4. fs \in [1..Len(offer) -> FileEntry]
  BY <1>2, <1>3
<1>5. fs \in Seq(FileEntry) /\ DOMAIN fs = DOMAIN offer
  BY <1>2, <1>4, IsASeq
<1>6. begin(transfer, offer).state = transfer.state
  BY DEF begin, Updated
<1>7. u = [state |-> transfer.state, files |-> fs, transferredBytes |-> 0]
  BY <1>6 DEF Chosen, Updated, e
<1>8. transfer.state \in TransferState
  BY DEF Transfer
<1>9. u \in Transfer /\ u.files = fs
  <2> HIDE DEF fs, u
  <2> QED BY <1>5, <1>7, <1>8 DEF Transfer
<1>10. QED
  BY <1>9, <1>5, <1>3

LEMMA SendFilesStep ==
    ASSUME IInv, NEW p \in Receiver, NEW offer \in Selections, sendFiles(p, offer)
    PROVE  IInv'
<1>1. transfer \in Transfer /\ sends \in Nat
  BY DEF IInv, TypeOK
<1>2. /\ transfer' \in Transfer /\ transfer'.state = "requesting"
      /\ \A r \in DOMAIN transfer'.files : transfer'.files[r].status = "waiting"
  <2>1. transfer' = setState(Chosen(offer), "requesting")
    BY DEF sendFiles
  <2>2. QED
    BY <2>1, <1>1, ChosenType, SetStateType DEF TransferState
<1>3. ~busy /\ reply = "none" /\ ~pinDialog /\ ~currentFile
  BY DEF IInv, BusyIsBacked, TypeOK, sendFiles
<1>4. TypeOK'
  <2>1. posted' = <<>> /\ posted' \in Seq(Nat)
    BY DEF sendFiles
  <2>2. sends' \in Nat /\ tokens' \subseteq Nat /\ peer' \in Receiver /\ reply' = "prepare"
        /\ busy' = TRUE /\ session' = FALSE
    BY <1>1 DEF sendFiles
  <2>3. UNCHANGED <<pinDialog, currentRow, currentFile, known, history, answered>>
    BY DEF sendFiles, recordVars
  <2>4. QED
    BY <2>1, <2>2, <2>3, <1>2 DEF IInv, TypeOK
<1>5. BusyIsBacked'
  BY <1>2, <1>3 DEF BusyIsBacked, sendFiles
<1>6. EachFileOnce'
  BY DEF EachFileOnce, sendFiles
<1>7. SentMeansAnswered'
  <2>1. \A a \in answered : a[1] <= sends /\ a[1] \in Nat
    BY DEF IInv, Coherent, TypeOK
  <2>2. \A r : <<sends + 1, p, r>> \notin answered
    <3> SUFFICES ASSUME NEW r, <<sends + 1, p, r>> \in answered PROVE FALSE
      OBVIOUS
    <3>1. <<sends + 1, p, r>>[1] = sends + 1
      OBVIOUS
    <3>2. sends + 1 <= sends
      BY <3>1, <2>1
    <3>3. QED
      BY <3>2, <1>1
  <2>3. QED
    BY <2>2, <1>2 DEF SentMeansAnswered, sendFiles
<1>8. PairingIsEarned'
  BY DEF IInv, PairingIsEarned, sendFiles, recordVars
<1>9. Coherent'
  <2>1. \A a \in answered : a[1] <= sends + 1
    BY <1>1 DEF IInv, Coherent, TypeOK
  <2>2. QED
    BY <2>1, <1>2, <1>3 DEF Coherent, sendFiles
<1>10. QED
  BY <1>4, <1>5, <1>6, <1>7, <1>8, <1>9 DEF IInv

LEMMA SendToBlockedStep ==
    ASSUME IInv, NEW p \in Receiver, SendToBlocked(p)
    PROVE  IInv'
<1> USE DEF SendToBlocked, requestVars, recordVars
<1>1. /\ transfer' \in Transfer /\ transfer'.state = "failed"
      /\ DOMAIN transfer'.files = {}
  <2>1. transfer \in Transfer /\ <<>> \in Seq(Descriptor) /\ Len(<<>>) = 0
    BY DEF IInv, TypeOK
  <2>2. begin(transfer, <<>>) \in Transfer /\ Len(begin(transfer, <<>>).files) = 0
    BY <2>1, BeginType
  <2>3. /\ transfer' \in Transfer /\ transfer'.state = "failed"
        /\ transfer'.files = begin(transfer, <<>>).files
    BY <2>2, SetStateType DEF TransferState
  <2>4. transfer'.files \in Seq(FileEntry)
    BY <2>3 DEF Transfer
  <2>5. QED
    BY <2>2, <2>3, <2>4
<1>2. ~busy /\ reply = "none" /\ ~pinDialog /\ ~currentFile
  BY DEF IInv, BusyIsBacked, TypeOK
<1>3. TypeOK'
  BY <1>1 DEF IInv, TypeOK
<1>4. BusyIsBacked' /\ EachFileOnce' /\ SentMeansAnswered'
  BY <1>1, <1>2 DEF BusyIsBacked, EachFileOnce, SentMeansAnswered
<1>5. PairingIsEarned' /\ Coherent'
  BY <1>1, <1>2 DEF IInv, PairingIsEarned, Coherent
<1>6. QED
  BY <1>3, <1>4, <1>5 DEF IInv

(* Before the first upload every row waits and nothing is answered.        *)
LEMMA Asking ==
    ASSUME IInv, reply = "prepare" \/ pinDialog
    PROVE  /\ busy /\ posted = <<>> /\ transfer \in Transfer /\ peer \in Receiver
           /\ DOMAIN transfer.files \subseteq Nat
           /\ \A r \in DOMAIN transfer.files :
                 transfer.files[r].status = "waiting" /\ <<sends, peer, r>> \notin answered
<1>1. transfer \in Transfer /\ transfer.files \in Seq(FileEntry)
  BY DEF IInv, TypeOK, Transfer
<1>2. DOMAIN transfer.files \subseteq Nat
  BY <1>1
<1>3. QED
  BY <1>1, <1>2 DEF IInv, BusyIsBacked, Coherent, SentMeansAnswered

LEMMA PrepareAcceptedStep ==
    ASSUME IInv, NEW accepted \in SUBSET DOMAIN transfer.files, PrepareAccepted(accepted)
    PROVE  IInv'
<1> DEFINE m == Marked(transfer, DOMAIN transfer.files \ accepted, "skipped")
<1>1. reply = "prepare" /\ ~pinDialog
  BY DEF PrepareAccepted, IInv, BusyIsBacked
<1>2. /\ busy /\ posted = <<>> /\ transfer \in Transfer /\ peer \in Receiver
      /\ accepted \subseteq Nat
      /\ \A r \in DOMAIN transfer.files :
            transfer.files[r].status = "waiting" /\ <<sends, peer, r>> \notin answered
  BY <1>1, Asking
<1>3. /\ m \in Transfer /\ DOMAIN m.files = DOMAIN transfer.files
      /\ \A r \in DOMAIN transfer.files : m.files[r].status =
             IF r \in accepted THEN "waiting" ELSE "skipped"
  <2> DEFINE left == DOMAIN transfer.files \ accepted
  <2>1. /\ Marked(transfer, left, "skipped") \in Transfer
        /\ DOMAIN Marked(transfer, left, "skipped").files = DOMAIN transfer.files
        /\ \A r \in DOMAIN transfer.files : Marked(transfer, left, "skipped").files[r].status =
               IF r \in left THEN "skipped" ELSE transfer.files[r].status
    <3> HIDE DEF left
    <3> QED BY <1>2, MarkedType DEF FileStatus
  <2>2. QED
    BY <2>1, <1>2
<1> HIDE DEF m
<1>4. tokens' = accepted /\ answered' = answered
  BY DEF PrepareAccepted
<1>5. /\ answered \subseteq Nat \X Receiver \X Nat /\ \A a \in answered : a[1] <= sends
      /\ currentRow \in Nat
  BY DEF IInv, TypeOK, Coherent
<1>6. CASE startNextFile(setState(m, "active"), 0)
  <2> DEFINE t == setState(m, "active")
  <2>1. t \in Transfer /\ t.state = "active" /\ t.files = m.files
    BY <1>3, SetStateType DEF TransferState
  <2> HIDE DEF t
  <2>2. \A r \in DOMAIN t.files : /\ t.files[r].status \in {"waiting", "skipped"}
                                  /\ t.files[r].status = "waiting" => r \in accepted
                                  /\ <<sends, peer, r>> \notin answered
    BY <1>2, <1>3, <2>1
  <2>3. DOMAIN posted = {}
    BY <1>2
  <2>4. Ready(t, 0)
    BY <2>1, <2>2, <2>3, <1>2, <1>4, <1>5 DEF Ready, RowsIn
  <2>5. QED
    BY <2>4, <1>6, <1>1, <1>2, NextFileOK DEF t
<1>7. CASE /\ Over(setState(m, "finished")) /\ accepted = {} /\ session' = TRUE
           /\ UNCHANGED <<currentRow, currentFile, recordVars>>
  <2> DEFINE t == setState(m, "finished")
  <2>1. t \in Transfer /\ t.state = "finished" /\ t.files = m.files
    BY <1>3, SetStateType DEF TransferState
  <2> HIDE DEF t
  <2>2. \A r \in DOMAIN t.files : /\ t.files[r].status = "skipped"
                                  /\ <<sends, peer, r>> \notin answered
    BY <1>2, <1>3, <1>7, <2>1
  <2>3. currentFile = FALSE
    BY <1>1 DEF IInv, BusyIsBacked, TypeOK
  <2>4. DOMAIN posted = {}
    BY <1>2
  <2>5. known' = known /\ history' = history /\ currentRow' = currentRow /\ currentFile' = FALSE
    BY <1>7, <2>3 DEF recordVars
  <2>6. Over(t)
    BY <1>7 DEF t
  <2>7. QED
    BY <2>1, <2>2, <2>4, <2>5, <2>6, <1>2, <1>4, <1>5, <1>7, OverOK
<1>8. QED
  BY <1>6, <1>7 DEF PrepareAccepted, m

LEMMA PrepareDoneStep ==
    ASSUME IInv, NEW s \in {"finished", "cancelled"}, PrepareDone(s)
    PROVE  IInv'
<1> DEFINE t == setState(transfer, s)
<1>1. reply = "prepare" /\ Over(t)
      /\ UNCHANGED <<session, tokens, currentRow, currentFile, known, history, answered>>
  BY DEF PrepareDone, recordVars
<1>2. /\ busy /\ posted = <<>> /\ transfer \in Transfer
      /\ \A r \in DOMAIN transfer.files :
            transfer.files[r].status = "waiting" /\ <<sends, peer, r>> \notin answered
  BY <1>1, Asking
<1>3. t \in Transfer /\ t.state = s /\ t.files = transfer.files
  BY <1>2, SetStateType DEF TransferState
<1> HIDE DEF t
<1>4. /\ answered \subseteq Nat \X Receiver \X Nat /\ \A a \in answered : a[1] <= sends
      /\ currentRow \in Nat /\ session \in BOOLEAN /\ tokens \subseteq Nat
  BY DEF IInv, TypeOK, Coherent
<1>5. currentFile = FALSE
  BY <1>1 DEF IInv, BusyIsBacked, TypeOK
<1>6. DOMAIN posted = {}
  BY <1>2
<1>7. QED
  BY <1>1, <1>2, <1>3, <1>4, <1>5, <1>6, OverOK

(* Only the state on screen and the request or dialog behind it change.    *)
LEMMA PinSteps ==
    ASSUME IInv, PrepareWantsPin \/ submitPin
    PROVE  IInv'
<1>1. reply = "prepare" \/ pinDialog
  BY DEF PrepareWantsPin, submitPin
<1>2. /\ busy /\ posted = <<>> /\ transfer \in Transfer
      /\ \A r \in DOMAIN transfer.files :
            transfer.files[r].status = "waiting" /\ <<sends, peer, r>> \notin answered
  BY <1>1, Asking
<1>3. /\ transfer' \in Transfer /\ transfer'.files = transfer.files
      /\ \/ transfer'.state = "idle" /\ reply' = "none" /\ pinDialog' = TRUE
         \/ transfer'.state = "requesting" /\ reply' = "prepare" /\ pinDialog' = FALSE
  BY <1>2, SetStateType DEF PrepareWantsPin, submitPin, TransferState
<1>4. UNCHANGED <<busy, peer, session, tokens, currentRow, currentFile, known, history,
                  sends, posted, answered>>
  BY DEF PrepareWantsPin, submitPin, sessionVars, recordVars, obsVars
<1>5. currentFile = FALSE
  BY <1>1 DEF IInv, BusyIsBacked, TypeOK
<1>6. TypeOK'
  BY <1>3, <1>4 DEF IInv, TypeOK
<1>7. BusyIsBacked'
  BY <1>2, <1>3, <1>4, <1>5 DEF BusyIsBacked
<1>8. EachFileOnce' /\ SentMeansAnswered' /\ PairingIsEarned'
  BY <1>2, <1>3, <1>4 DEF IInv, EachFileOnce, SentMeansAnswered, PairingIsEarned
<1>9. Coherent'
  BY <1>2, <1>3, <1>4 DEF IInv, Coherent
<1>10. QED
  BY <1>6, <1>7, <1>8, <1>9 DEF IInv

LEMMA PrepareFailedStep ==
    ASSUME IInv, PrepareFailed
    PROVE  IInv'
<1>1. reply = "prepare" /\ failTransfer(transfer) /\ UNCHANGED <<tokens, answered>>
  BY DEF PrepareFailed
<1>2. QED
  BY <1>1, Asking, FailOK

(* While a file goes up, it is the only row being sent, and the last one   *)
(* posted.                                                                 *)
LEMMA Uploading ==
    ASSUME IInv, reply = "upload"
    PROVE  /\ busy /\ ~pinDialog /\ transfer \in Transfer /\ transfer.state = "active"
           /\ currentRow \in DOMAIN transfer.files /\ currentRow \in Nat
           /\ peer \in Receiver
           /\ \A r \in DOMAIN transfer.files :
                 /\ transfer.files[r].status = "transferring" <=> r = currentRow
                 /\ transfer.files[r].status = "done" <=> <<sends, peer, r>> \in answered
           /\ RowsIn(transfer, {"waiting"}) \subseteq tokens
           /\ \A i \in DOMAIN posted : posted[i] <= currentRow /\ posted[i] \in tokens
<1>1. \A i \in DOMAIN posted : posted[i] <= currentRow
  <2>1. /\ posted \in Seq(Nat) /\ posted # <<>> /\ posted[Len(posted)] = currentRow
        /\ \A i, j \in DOMAIN posted : i < j => posted[i] < posted[j]
    BY DEF IInv, TypeOK, EachFileOnce
  <2>2. Len(posted) \in DOMAIN posted
    BY <2>1
  <2>3. ASSUME NEW i \in DOMAIN posted PROVE posted[i] <= currentRow
    <3>1. i \in Nat /\ i <= Len(posted) /\ Len(posted) \in Nat /\ posted[i] \in Nat
          /\ posted[Len(posted)] \in Nat
      BY <2>1, <2>2
    <3>2. CASE i = Len(posted)
      BY <3>1, <3>2, <2>1
    <3>3. CASE i < Len(posted)
      BY <3>1, <3>3, <2>1, <2>2
    <3>4. QED
      BY <3>1, <3>2, <3>3
  <2>4. QED
    BY <2>3
<1>2. QED
  BY <1>1 DEF IInv, TypeOK, BusyIsBacked, EachFileOnce, SentMeansAnswered, Coherent

LEMMA UploadProgressStep ==
    ASSUME IInv, UploadProgress
    PROVE  IInv'
<1>1. reply = "upload"
      /\ UNCHANGED <<busy, peer, session, tokens, reply, pinDialog, currentRow,
                     currentFile, known, history, sends, posted, answered>>
  BY DEF UploadProgress, sessionVars, requestVars, recordVars, obsVars
<1>2. transfer \in Transfer /\ currentRow \in DOMAIN transfer.files
  BY <1>1, Uploading
<1>3. /\ transfer' \in Transfer /\ transfer'.state = transfer.state
      /\ DOMAIN transfer'.files = DOMAIN transfer.files
      /\ \A r \in DOMAIN transfer.files :
            transfer'.files[r].status = transfer.files[r].status
  <2>1. PICK sent \in 0..MaxSize :
            transfer' = setFileTransferred(transfer, currentRow, sent)
    BY DEF UploadProgress
  <2>2. QED
    BY <2>1, <1>2, TransferredTypeAt
<1>4. TypeOK'
  BY <1>1, <1>3 DEF IInv, TypeOK
<1>5. BusyIsBacked'
  BY <1>1, <1>3 DEF IInv, BusyIsBacked
<1>6. EachFileOnce' /\ PairingIsEarned'
  BY <1>1 DEF IInv, EachFileOnce, PairingIsEarned
<1>7. SentMeansAnswered'
  BY <1>1, <1>3 DEF IInv, SentMeansAnswered
<1>8. Coherent'
  <2>1. RowsIn(transfer, {"waiting"})' = RowsIn(transfer, {"waiting"})
    BY <1>3 DEF RowsIn
  <2>2. QED
    BY <2>1, <1>1, <1>3 DEF IInv, Coherent, BusyIsBacked
<1>9. QED
  BY <1>4, <1>5, <1>6, <1>7, <1>8 DEF IInv

LEMMA UploadAnsweredStep ==
    ASSUME IInv, UploadAnswered
    PROVE  IInv'
<1> DEFINE t == setFileStatus(transfer, currentRow, "done")
           a == <<sends, peer, currentRow>>
<1>1. /\ reply = "upload" /\ answered' = answered \cup {a} /\ UNCHANGED tokens
      /\ startNextFile(t, currentRow)
  BY DEF UploadAnswered
<1>2. /\ busy /\ ~pinDialog /\ transfer \in Transfer /\ transfer.state = "active"
      /\ currentRow \in DOMAIN transfer.files /\ currentRow \in Nat /\ peer \in Receiver
      /\ \A r \in DOMAIN transfer.files :
            /\ transfer.files[r].status = "transferring" <=> r = currentRow
            /\ transfer.files[r].status = "done" <=> <<sends, peer, r>> \in answered
      /\ RowsIn(transfer, {"waiting"}) \subseteq tokens
      /\ \A i \in DOMAIN posted : posted[i] <= currentRow /\ posted[i] \in tokens
  BY <1>1, Uploading
<1>3. /\ t \in Transfer /\ t.state = "active" /\ DOMAIN t.files = DOMAIN transfer.files
      /\ \A r \in DOMAIN t.files : t.files[r].status =
             IF r = currentRow THEN "done" ELSE transfer.files[r].status
  BY <1>2, StatusType DEF FileStatus
<1> HIDE DEF t
<1>4. \A r : <<sends, peer, r>> = a <=> r = currentRow
  OBVIOUS
<1>5. \A r \in DOMAIN t.files :
          /\ t.files[r].status # "transferring"
          /\ t.files[r].status = "done" <=> <<sends, peer, r>> \in answered'
  BY <1>1, <1>2, <1>3, <1>4
<1>6. RowsIn(t, {"waiting"}) \subseteq tokens'
  BY <1>1, <1>2, <1>3 DEF RowsIn
<1>7. /\ answered \subseteq answered' /\ answered' \subseteq Nat \X Receiver \X Nat
      /\ \A b \in answered' : b[1] <= sends
      /\ tokens' \subseteq Nat
  <2>1. sends \in Nat /\ answered \subseteq Nat \X Receiver \X Nat /\ tokens \subseteq Nat
        /\ \A b \in answered : b[1] <= sends
    BY DEF IInv, TypeOK, Coherent
  <2>2. a \in Nat \X Receiver \X Nat /\ a[1] = sends
    BY <2>1, <1>2
  <2> HIDE DEF a
  <2>3. QED
    BY <2>1, <2>2, <1>1
<1>8. Ready(t, currentRow)
  BY <1>1, <1>2, <1>3, <1>5, <1>6, <1>7 DEF Ready
<1>9. QED
  BY <1>1, <1>2, <1>8, NextFileOK

LEMMA UploadRefusedStep ==
    ASSUME IInv, UploadRefused
    PROVE  IInv'
<1> DEFINE t == setFileStatus(transfer, currentRow, "failed")
<1>1. /\ reply = "upload" /\ UNCHANGED <<tokens, answered>>
      /\ failTransfer(t) \/ startNextFile(t, currentRow)
  BY DEF UploadRefused
<1>2. /\ busy /\ ~pinDialog /\ transfer \in Transfer /\ transfer.state = "active"
      /\ currentRow \in DOMAIN transfer.files /\ currentRow \in Nat
      /\ \A r \in DOMAIN transfer.files :
            /\ transfer.files[r].status = "transferring" <=> r = currentRow
            /\ transfer.files[r].status = "done" <=> <<sends, peer, r>> \in answered
      /\ RowsIn(transfer, {"waiting"}) \subseteq tokens
      /\ \A i \in DOMAIN posted : posted[i] <= currentRow /\ posted[i] \in tokens
  BY <1>1, Uploading
<1>3. /\ t \in Transfer /\ t.state = "active" /\ DOMAIN t.files = DOMAIN transfer.files
      /\ \A r \in DOMAIN t.files : t.files[r].status =
             IF r = currentRow THEN "failed" ELSE transfer.files[r].status
  BY <1>2, StatusType DEF FileStatus
<1> HIDE DEF t
<1>4. \A r \in DOMAIN t.files :
          /\ t.files[r].status # "transferring"
          /\ t.files[r].status = "done" <=> <<sends, peer, r>> \in answered
  BY <1>2, <1>3
<1>5. CASE failTransfer(t)
  BY <1>1, <1>2, <1>3, <1>4, <1>5, FailOK
<1>6. CASE startNextFile(t, currentRow)
  <2>1. RowsIn(t, {"waiting"}) \subseteq tokens'
    BY <1>1, <1>2, <1>3 DEF RowsIn
  <2>2. /\ answered \subseteq Nat \X Receiver \X Nat /\ tokens \subseteq Nat
        /\ \A b \in answered : b[1] <= sends
    BY DEF IInv, TypeOK, Coherent
  <2>3. Ready(t, currentRow)
    BY <1>1, <1>2, <1>3, <1>4, <2>1, <2>2 DEF Ready
  <2>4. QED
    BY <1>2, <1>6, <2>3, NextFileOK
<1>7. QED
  BY <1>1, <1>5, <1>6

LEMMA CancelStep ==
    ASSUME IInv, cancel
    PROVE  IInv'
<1> DEFINE rows == RowsIn(transfer, {"waiting", "transferring"})
           m == Marked(transfer, rows, "skipped")
           t == setState(m, "cancelled")
<1>1. /\ busy /\ Over(t) /\ session' = FALSE /\ currentFile' = FALSE
      /\ history' = history \cup {<<sends, r>> : r \in RowsIn(m, {"done"})}
      /\ UNCHANGED <<tokens, currentRow, known, answered>>
  BY DEF cancel, writeHistory
<1>2. transfer \in Transfer
  BY DEF IInv, TypeOK
<1>3. /\ m \in Transfer /\ DOMAIN m.files = DOMAIN transfer.files
      /\ \A r \in DOMAIN transfer.files : m.files[r].status =
             IF r \in rows THEN "skipped" ELSE transfer.files[r].status
  <2> HIDE DEF rows
  <2> QED BY <1>2, MarkedType DEF FileStatus
<1> HIDE DEF m
<1>4. t \in Transfer /\ t.state = "cancelled" /\ t.files = m.files
  BY <1>3, SetStateType DEF TransferState
<1>5. RowsIn(m, {"done"}) = RowsIn(t, {"done"})
  BY <1>4 DEF RowsIn
<1> HIDE DEF t
<1>6. \A r \in DOMAIN t.files :
          /\ t.files[r].status # "transferring"
          /\ t.files[r].status = "done" <=> transfer.files[r].status = "done"
  BY <1>3, <1>4 DEF RowsIn
<1>7. \A r \in DOMAIN t.files : t.files[r].status = "done" <=> <<sends, peer, r>> \in answered'
  BY <1>1, <1>3, <1>4, <1>6 DEF IInv, SentMeansAnswered
<1>8. /\ currentRow' \in Nat /\ tokens' \subseteq Nat
      /\ \A i \in DOMAIN posted : posted[i] \in tokens'
      /\ answered \subseteq answered' /\ answered' \subseteq Nat \X Receiver \X Nat
      /\ \A a \in answered' : a[1] <= sends
  BY <1>1 DEF IInv, TypeOK, EachFileOnce, Coherent
<1>9. \A h \in history' : h \in history \/
          \E r \in RowsIn(t, {"done"}) : h = <<sends, r>>
  BY <1>1, <1>5
<1>10. \A p \in known' : p \in known \/ (p = peer /\ SomeDone(t))
  BY <1>1
<1>11. QED
  BY <1>1, <1>4, <1>6, <1>7, <1>8, <1>9, <1>10, OverOK

-----------------------------------------------------------------------------
LEMMA InitOK == Init => IInv
<1> SUFFICES ASSUME Init PROVE IInv
  OBVIOUS
<1> USE DEF Init
<1>1. transfer \in Transfer /\ transfer.state = "idle" /\ DOMAIN transfer.files = {}
  <2>1. transfer = NoTransfer /\ NoTransfer.files = <<>> /\ NoTransfer.state = "idle"
    BY DEF NoTransfer
  <2>2. QED
    BY <2>1, NoTransferType
<1>2. TypeOK
  <2>1. tokens \subseteq Nat /\ known \subseteq Receiver
        /\ history \subseteq Nat \X Nat /\ answered \subseteq Nat \X Receiver \X Nat
    OBVIOUS
  <2>2. posted \in Seq(Nat)
    OBVIOUS
  <2>3. /\ busy \in BOOLEAN /\ session \in BOOLEAN /\ currentFile \in BOOLEAN
        /\ pinDialog \in BOOLEAN
    BY Zenon
  <2>4. /\ peer \in Receiver \cup {NoReceiver} /\ reply \in {"none", "prepare", "upload"}
        /\ currentRow \in Nat /\ sends \in Nat
    OBVIOUS
  <2> HIDE DEF Init
  <2>5. QED
    BY <1>1, <2>1, <2>2, <2>3, <2>4, Zenon DEF TypeOK
<1>3. BusyIsBacked /\ EachFileOnce /\ SentMeansAnswered /\ PairingIsEarned /\ Coherent
  BY <1>1 DEF BusyIsBacked, EachFileOnce, SentMeansAnswered, PairingIsEarned, Coherent
<1>4. QED
  BY <1>2, <1>3 DEF IInv

LEMMA NextOK == IInv /\ [Next]_vars => IInv'
<1> SUFFICES ASSUME IInv, [Next]_vars PROVE IInv'
  OBVIOUS
<1>1. ASSUME NEW p \in Receiver, NEW offer \in Selections, sendFiles(p, offer) PROVE IInv'
  BY <1>1, SendFilesStep
<1>2. ASSUME NEW p \in Receiver, SendToBlocked(p) PROVE IInv'
  BY <1>2, SendToBlockedStep
<1>3. CASE submitPin \/ PrepareWantsPin
  BY <1>3, PinSteps
<1>4. CASE cancel
  BY <1>4, CancelStep
<1>5. ASSUME NEW accepted \in SUBSET DOMAIN transfer.files, PrepareAccepted(accepted)
      PROVE  IInv'
  BY <1>5, PrepareAcceptedStep
<1>6. CASE PrepareDone("finished") \/ PrepareDone("cancelled")
  BY <1>6, PrepareDoneStep
<1>7. CASE PrepareFailed
  BY <1>7, PrepareFailedStep
<1>8. CASE UploadProgress
  BY <1>8, UploadProgressStep
<1>9. CASE UploadAnswered
  BY <1>9, UploadAnsweredStep
<1>10. CASE UploadRefused
  BY <1>10, UploadRefusedStep
<1>11. CASE UNCHANGED vars
  BY <1>11 DEF vars, sessionVars, requestVars, recordVars, obsVars, IInv, TypeOK, BusyIsBacked,
               EachFileOnce, SentMeansAnswered, PairingIsEarned, Coherent, RowsIn
<1>12. QED
  BY <1>1, <1>2, <1>3, <1>4, <1>5, <1>6, <1>7, <1>8, <1>9, <1>10, <1>11
     DEF Next, User, Network, onPrepareFinished

(* The inductive invariant holds in every reachable state of the sender.   *)
THEOREM SendInvariance == Spec => []IInv
<1>1. QED
  BY InitOK, NextOK, PTL DEF Spec

(* Every variable of the sender keeps its type.                            *)
THEOREM SendTypeCorrect == Spec => []TypeOK
<1>1. IInv => TypeOK
  BY DEF IInv
<1>2. QED
  BY <1>1, SendInvariance, PTL

(* m_busy, the reply in flight, the PIN dialog, the open file and the rows *)
(* on screen agree: no ending of a transfer leaves one of them behind.     *)
THEOREM BusyBacked == Spec => []BusyIsBacked
<1>1. IInv => BusyIsBacked
  BY DEF IInv
<1>2. QED
  BY <1>1, SendInvariance, PTL

(* startNextFile() never uploads a file twice, out of order, or without    *)
(* the receiver's token for it.                                            *)
THEOREM FilesOnce == Spec => []EachFileOnce
<1>1. IInv => EachFileOnce
  BY DEF IInv
<1>2. QED
  BY <1>1, SendInvariance, PTL

(* What completeTransfer() reports as sent was answered by the receiver.   *)
THEOREM SentHonest == Spec => []SentMeansAnswered
<1>1. IInv => SentMeansAnswered
  BY DEF IInv
<1>2. QED
  BY <1>1, SendInvariance, PTL

(* KnownDevices::remember() and writeHistory() record only what was        *)
(* answered.                                                               *)
THEOREM PairingEarned == Spec => []PairingIsEarned
<1>1. IInv => PairingIsEarned
  BY DEF IInv
<1>2. QED
  BY <1>1, SendInvariance, PTL

-----------------------------------------------------------------------------
(* The transfer shared.  main() gives SendService and ReceiveService one   *)
(* TransferModel and one KnownDevices, so between the steps of the sender  *)
(* a request may replace the rows it is working on, by any number of any   *)
(* rows, and their tokens go with them; uploads coming in change the rows; *)
(* and the receiver may end the process (ReceiveService's StrayRead).      *)

RowsTaken ==
    /\ transfer' \in Transfer /\ known' \subseteq Receiver
    /\ tokens' \in {tokens, {}}
    /\ UNCHANGED <<busy, peer, session, requestVars, history, obsVars>>

ProcessEnds ==
    /\ transfer' = NoTransfer
    /\ busy' = FALSE /\ peer' = NoReceiver /\ session' = FALSE /\ tokens' = {}
    /\ reply' = "none" /\ pinDialog' = FALSE /\ currentRow' = 0 /\ currentFile' = FALSE
    /\ posted' = <<>>
    /\ UNCHANGED <<recordVars, sends, answered>>

Besides == RowsTaken \/ ProcessEnds
SharedSpec == Init /\ [][Next \/ Besides]_vars

(* Files go up in the order of their rows, none of them twice, and the one *)
(* going up is the last one posted and names the session.  That is what    *)
(* EachFileOnce says apart from the tokens, which go with the rows.        *)
InOrder == \A i, j \in DOMAIN posted : i < j => posted[i] < posted[j]
OneByOne ==
    /\ InOrder
    /\ reply = "upload" => session /\ posted # <<>> /\ posted[Len(posted)] = currentRow

(* What lasts whatever becomes of the rows: besides the order, that the    *)
(* service is busy exactly while something will go on, and holds a file    *)
(* open exactly while it is uploaded.                                      *)
Lasts ==
    /\ TypeOK /\ OneByOne
    /\ busy => peer \in Receiver
    /\ busy <=> (reply # "none" \/ pinDialog)
    /\ ~(reply # "none" /\ pinDialog)
    /\ currentFile <=> reply = "upload"
    /\ reply = "prepare" \/ pinDialog => posted = <<>>

(* What the other owner of the rows may count on: a step of the sender     *)
(* leaves what they declare, or it begins a transfer of files of ours, or  *)
(* an empty one if it refuses a blocked device; no device is forgotten.    *)
RowsKeptOrBegun ==
    /\ \/ Declares(transfer'.files, transfer.files)
       \/ ~busy /\ \E offer \in Selections : Declares(transfer'.files, offer)
       \/ ~busy /\ Blocked # {} /\ transfer'.files = <<>>
    /\ transfer' \in Transfer /\ known \subseteq known' /\ known' \subseteq Receiver

LEMMA MarkedDeclares ==
    ASSUME NEW t \in Transfer, NEW rows, NEW s \in FileStatus
    PROVE  Declares(Marked(t, rows, s).files, t.files)
<1> DEFINE fs == Marked(t, rows, s).files
<1>1. fs = [r \in DOMAIN t.files |->
               IF r \in rows THEN [t.files[r] EXCEPT !.status = s] ELSE t.files[r]]
  BY DEF Marked, Updated
<1> HIDE DEF fs
<1>2. ASSUME NEW r \in DOMAIN t.files
      PROVE  fs[r].id = t.files[r].id /\ fs[r].size = t.files[r].size
             /\ fs[r].digest = t.files[r].digest
  <2>1. t.files[r] \in FileEntry
    BY DEF Transfer
  <2>2. \/ fs[r] = t.files[r] \/ fs[r] = [t.files[r] EXCEPT !.status = s]
    BY <1>1
  <2>3. QED
    BY <2>1, <2>2 DEF FileEntry
<1>3. QED
  BY <1>1, <1>2 DEF Declares, fs

(* The rows done are numbers, so the history stays one of numbers.         *)
LEMMA HistoryType ==
    ASSUME Lasts, NEW t \in Transfer, writeHistory(t)
    PROVE  history' \subseteq Nat \X Nat
<1>1. RowsIn(t, {"done"}) \subseteq Nat
  BY DEF Transfer, RowsIn
<1>2. QED
  BY <1>1 DEF Lasts, TypeOK, writeHistory

(* A transfer that ends leaves nothing behind, whatever the rows are.      *)
LEMMA OverLasts ==
    ASSUME Lasts, NEW t \in Transfer, Over(t),
           session' \in BOOLEAN, currentFile' = FALSE, currentRow' \in Nat,
           tokens' \subseteq Nat, known' \subseteq Receiver, history' \subseteq Nat \X Nat,
           answered' \subseteq Nat \X Receiver \X Nat
    PROVE  Lasts'
<1>1. /\ transfer' = t /\ busy' = FALSE /\ reply' = "none" /\ pinDialog' = FALSE
      /\ UNCHANGED <<peer, sends, posted>>
  BY DEF Over
<1>2. TypeOK'
  BY <1>1 DEF Lasts, TypeOK
<1>3. OneByOne'
  BY <1>1 DEF Lasts, OneByOne, InOrder
<1>4. QED
  BY <1>1, <1>2, <1>3 DEF Lasts

(* failTransfer() on the rows it has reached.                              *)
LEMMA FailLasts ==
    ASSUME Lasts, busy, NEW t \in Transfer, failTransfer(t),
           tokens' \subseteq Nat, answered' \subseteq Nat \X Receiver \X Nat
    PROVE  Lasts' /\ transfer' \in Transfer /\ Declares(transfer'.files, t.files)
           /\ known' = known
<1> DEFINE m == Marked(t, RowsIn(t, {"waiting"}), "skipped")
           u == setState(m, "failed")
<1>1. m \in Transfer /\ Declares(m.files, t.files)
  BY MarkedType, MarkedDeclares DEF FileStatus
<1>2. /\ Over(u) /\ session' = FALSE /\ currentFile' = FALSE /\ writeHistory(t)
      /\ UNCHANGED <<currentRow, known>>
  BY DEF failTransfer
<1> HIDE DEF m
<1>3. u \in Transfer /\ u.files = m.files
  BY <1>1, SetStateType DEF TransferState
<1> HIDE DEF u
<1>4. history' \subseteq Nat \X Nat
  BY <1>2, HistoryType
<1>5. currentRow' \in Nat /\ known' \subseteq Receiver /\ session' \in BOOLEAN
      /\ currentFile' = FALSE
  BY <1>2 DEF Lasts, TypeOK
<1>6. Lasts'
  BY <1>2, <1>3, <1>4, <1>5, OverLasts
<1>7. transfer' = u
  BY <1>2 DEF Over
<1>8. QED
  BY <1>1, <1>2, <1>3, <1>6, <1>7

(* startNextFile() after row cur, on the rows it has reached: the row it   *)
(* posts comes after all that were posted.                                 *)
LEMMA NextFileLasts ==
    ASSUME Lasts, busy, ~pinDialog, NEW t \in Transfer, NEW cur \in Nat,
           startNextFile(t, cur), \A i \in DOMAIN posted : posted[i] <= cur,
           tokens' \subseteq Nat, answered' \subseteq Nat \X Receiver \X Nat
    PROVE  Lasts' /\ transfer' \in Transfer /\ Declares(transfer'.files, t.files)
           /\ known \subseteq known' /\ known' \subseteq Receiver
<1> DEFINE rest == Rest(t, cur)
<1>1. rest \subseteq DOMAIN t.files /\ rest \subseteq Nat /\ \A r \in rest : r > cur
  BY DEF Rest, RowsIn, Transfer
<1>2. peer \in Receiver /\ known \subseteq Receiver /\ posted \in Seq(Nat)
  BY DEF Lasts, TypeOK
<1>3. ASSUME NEW row \in rest,
             transfer' = setFileStatus(Marked(t, {r \in rest : r < row}, "failed"),
                                       row, "transferring"),
             currentRow' = row /\ currentFile' = TRUE,
             reply' = "upload" /\ posted' = Append(posted, row), session' = TRUE,
             UNCHANGED <<busy, peer, pinDialog, recordVars, sends>>
      PROVE  Lasts' /\ transfer' \in Transfer /\ Declares(transfer'.files, t.files)
             /\ known \subseteq known' /\ known' \subseteq Receiver
  <2> DEFINE m == Marked(t, {r \in rest : r < row}, "failed")
  <2>1. m \in Transfer /\ Declares(m.files, t.files) /\ DOMAIN m.files = DOMAIN t.files
    BY MarkedType, MarkedDeclares DEF FileStatus
  <2> HIDE DEF m
  <2>2. /\ transfer' \in Transfer /\ Declares(transfer'.files, m.files)
        /\ DOMAIN transfer'.files = DOMAIN t.files
    BY <1>1, <1>3, <2>1, StatusType, RowsDeclare DEF m, FileStatus
  <2>3. Declares(transfer'.files, t.files)
    BY <2>1, <2>2 DEF Declares
  <2>4. /\ posted' \in Seq(Nat) /\ posted' # <<>> /\ posted'[Len(posted')] = row
        /\ Len(posted') = Len(posted) + 1 /\ Len(posted) \in Nat
        /\ \A i \in DOMAIN posted : posted'[i] = posted[i]
    <3>1. row \in Nat /\ posted \in Seq(Nat) /\ posted' = Append(posted, row)
      BY <1>1, <1>2, <1>3
    <3>2. QED
      BY ONLY <3>1
  <2>5. InOrder'
    <3> SUFFICES ASSUME NEW i \in DOMAIN posted', NEW j \in DOMAIN posted', i < j
                 PROVE  posted'[i] < posted'[j]
      BY DEF InOrder
    <3>1. i \in DOMAIN posted /\ i \in Nat /\ j \in Nat /\ posted[i] \in Nat
      BY <1>2, <2>4
    <3>2. CASE j \in DOMAIN posted
      BY <2>4, <3>1, <3>2 DEF Lasts, OneByOne, InOrder
    <3>3. CASE j = Len(posted')
      BY <1>1, <2>4, <3>1, <3>3
    <3>4. QED
      BY <1>2, <2>4, <3>2, <3>3
  <2>6. known' = known /\ history' = history /\ busy' = busy /\ peer' = peer
        /\ pinDialog' = pinDialog /\ sends' = sends
    BY <1>3 DEF recordVars
  <2>7. TypeOK'
    BY <1>1, <1>3, <2>2, <2>4, <2>6 DEF Lasts, TypeOK
  <2>8. Lasts'
    BY <1>1, <1>3, <2>4, <2>5, <2>6, <2>7 DEF Lasts, OneByOne
  <2>9. QED
    BY <1>2, <2>2, <2>3, <2>6, <2>8
<1>4. ASSUME completeTransfer(Marked(t, rest, "failed")),
             currentRow' \in rest \cup {cur}, currentFile' = FALSE
      PROVE  Lasts' /\ transfer' \in Transfer /\ Declares(transfer'.files, t.files)
             /\ known \subseteq known' /\ known' \subseteq Receiver
  <2> DEFINE m == Marked(t, rest, "failed")
             u == setState(m, Outcome(m))
  <2>1. m \in Transfer /\ Declares(m.files, t.files)
    BY MarkedType, MarkedDeclares DEF FileStatus
  <2>2. /\ Over(u) /\ session' = FALSE /\ writeHistory(m)
        /\ known' = known \cup (IF SomeDone(m) THEN {peer} ELSE {})
    BY <1>4 DEF completeTransfer
  <2> HIDE DEF m
  <2>3. u \in Transfer /\ u.files = m.files
    BY <2>1, SetStateType DEF TransferState, Outcome
  <2> HIDE DEF u
  <2>4. history' \subseteq Nat \X Nat
    BY <2>1, <2>2, HistoryType
  <2>5. known \subseteq known' /\ known' \subseteq Receiver /\ currentRow' \in Nat
        /\ session' \in BOOLEAN /\ currentFile' = FALSE
    BY <1>1, <1>2, <1>4, <2>2
  <2>6. Lasts'
    BY <2>2, <2>3, <2>4, <2>5, OverLasts
  <2>7. transfer' = u
    BY <2>2 DEF Over
  <2>8. QED
    BY <2>1, <2>3, <2>5, <2>6, <2>7
<1>5. QED
  BY <1>3, <1>4, Zenon DEF startNextFile

(* While a file goes up it is the last one posted, whether or not there is *)
(* still a row for it.                                                     *)
LEMMA GoingUp ==
    ASSUME Lasts, reply = "upload"
    PROVE  /\ busy /\ ~pinDialog /\ peer \in Receiver
           /\ currentRow \in Nat /\ \A i \in DOMAIN posted : posted[i] <= currentRow
<1>1. /\ posted \in Seq(Nat) /\ posted # <<>> /\ posted[Len(posted)] = currentRow
      /\ \A i, j \in DOMAIN posted : i < j => posted[i] < posted[j]
  BY DEF Lasts, TypeOK, OneByOne, InOrder
<1>2. Len(posted) \in DOMAIN posted /\ Len(posted) \in Nat
  BY <1>1
<1>3. ASSUME NEW i \in DOMAIN posted PROVE posted[i] <= currentRow
  <2>1. i \in Nat /\ i <= Len(posted) /\ posted[i] \in Nat /\ posted[Len(posted)] \in Nat
    BY <1>1, <1>2
  <2>2. CASE i = Len(posted)
    BY <1>1, <2>1, <2>2
  <2>3. CASE i < Len(posted)
    BY <1>1, <1>2, <2>1, <2>3
  <2>4. QED
    BY <1>2, <2>1, <2>2, <2>3
<1>4. QED
  BY <1>3 DEF Lasts, TypeOK

LEMMA BeginningLasts ==
    ASSUME Lasts, NEW p \in Receiver,
           SendToBlocked(p) \/ \E offer \in Selections : sendFiles(p, offer)
    PROVE  Lasts' /\ RowsKeptOrBegun
<1>1. transfer \in Transfer /\ sends \in Nat /\ known \subseteq Receiver
  BY DEF Lasts, TypeOK
<1>2. CASE SendToBlocked(p)
  <2> DEFINE b == begin(transfer, <<>>)
  <2>1. b \in Transfer /\ b.files = <<>>
    <3>1. <<>> \in Seq(Descriptor) /\ Len(<<>>) = 0
      OBVIOUS
    <3>2. b \in Transfer /\ Len(b.files) = 0
      BY <1>1, <3>1, BeginType
    <3>3. QED
      BY <3>2 DEF Transfer
  <2>2. /\ ~busy /\ transfer' = setState(b, "failed") /\ posted' = <<>> /\ tokens' = {}
        /\ UNCHANGED <<busy, peer, session, requestVars, recordVars, sends, answered>>
    BY <1>2 DEF SendToBlocked
  <2> HIDE DEF b
  <2>3. transfer' \in Transfer /\ transfer'.files = <<>>
    BY <2>1, <2>2, SetStateType DEF TransferState
  <2>4. posted' \in Seq(Nat) /\ OneByOne'
    BY <2>2 DEF OneByOne, InOrder, requestVars, Lasts
  <2>5. TypeOK'
    BY <2>2, <2>3, <2>4 DEF Lasts, TypeOK, requestVars, recordVars
  <2>6. Lasts'
    BY <2>2, <2>3, <2>4, <2>5 DEF Lasts, requestVars
  <2>7. Blocked # {}
    BY <1>2 DEF SendToBlocked
  <2>8. QED
    BY <1>1, <2>2, <2>3, <2>6, <2>7 DEF RowsKeptOrBegun, recordVars
<1>3. ASSUME NEW offer \in Selections, sendFiles(p, offer)
      PROVE  Lasts' /\ RowsKeptOrBegun
  <2>1. /\ ~busy /\ sends' = sends + 1 /\ peer' = p /\ session' = FALSE /\ tokens' = {}
        /\ busy' = TRUE /\ reply' = "prepare" /\ posted' = <<>>
        /\ transfer' = setState(Chosen(offer), "requesting")
        /\ UNCHANGED <<pinDialog, currentRow, currentFile, known, history, answered>>
    BY <1>3 DEF sendFiles, recordVars
  <2>2. Chosen(offer) \in Transfer
    BY <1>1, ChosenType
  <2>3. transfer' \in Transfer /\ transfer'.files = Chosen(offer).files
    BY <2>1, <2>2, SetStateType DEF TransferState
  <2>4. Declares(transfer'.files, offer)
    <3> DEFINE fs == Chosen(offer).files
    <3>1. fs = [r \in DOMAIN offer |->
                   [NewEntry(offer[r]) EXCEPT !.localPath = SourceOf[offer[r].name]]]
      BY DEF Chosen, Updated
    <3> HIDE DEF fs
    <3>2. ASSUME NEW r \in DOMAIN offer
          PROVE  fs[r].id = offer[r].id /\ fs[r].size = offer[r].size
                 /\ fs[r].digest = offer[r].digest
      BY <3>1 DEF NewEntry
    <3>3. QED
      BY <2>3, <3>1, <3>2 DEF Declares, fs
  <2>5. posted' \in Seq(Nat) /\ OneByOne' /\ ~pinDialog /\ reply = "none"
    BY <2>1 DEF OneByOne, InOrder, Lasts, TypeOK
  <2>6. TypeOK'
    <3>1. sends' \in Nat /\ tokens' \subseteq Nat /\ peer' \in Receiver
      BY <1>1, <2>1
    <3>2. QED
      BY <2>1, <2>3, <2>5, <3>1 DEF Lasts, TypeOK
  <2>7. Lasts'
    BY <2>1, <2>5, <2>6 DEF Lasts
  <2>8. QED
    BY <1>1, <2>1, <2>3, <2>4, <2>7 DEF RowsKeptOrBegun
<1>4. QED
  BY <1>2, <1>3

LEMMA PreparedLasts ==
    ASSUME Lasts,
           \/ \E accepted \in SUBSET DOMAIN transfer.files : PrepareAccepted(accepted)
           \/ PrepareDone("finished") \/ PrepareDone("cancelled")
           \/ PrepareFailed
    PROVE  Lasts' /\ RowsKeptOrBegun
<1>1. /\ transfer \in Transfer /\ known \subseteq Receiver /\ history \subseteq Nat \X Nat
      /\ tokens \subseteq Nat /\ answered \subseteq Nat \X Receiver \X Nat
      /\ currentRow \in Nat /\ currentFile \in BOOLEAN /\ session \in BOOLEAN
  BY DEF Lasts, TypeOK
<1>2. reply = "prepare" /\ busy /\ ~pinDialog /\ posted = <<>> /\ currentFile = FALSE
  <2>1. reply = "prepare"
    BY DEF PrepareAccepted, PrepareDone, PrepareFailed
  <2>2. ~currentFile
    BY <2>1 DEF Lasts
  <2>3. currentFile = FALSE
    BY <1>1, <2>2
  <2>4. QED
    BY <2>1, <2>3 DEF Lasts
<1>3. ASSUME NEW accepted \in SUBSET DOMAIN transfer.files, PrepareAccepted(accepted)
      PROVE  Lasts' /\ RowsKeptOrBegun
  <2> DEFINE m == Marked(transfer, DOMAIN transfer.files \ accepted, "skipped")
             a == setState(m, "active")
             f == setState(m, "finished")
  <2>1. m \in Transfer /\ Declares(m.files, transfer.files)
    BY <1>1, MarkedType, MarkedDeclares DEF FileStatus
  <2>2. /\ tokens' = accepted /\ answered' = answered
        /\ \/ startNextFile(a, 0)
           \/ Over(f) /\ session' = TRUE
              /\ UNCHANGED <<currentRow, currentFile, recordVars>>
    BY <1>3 DEF PrepareAccepted
  <2> HIDE DEF m
  <2>3. /\ a \in Transfer /\ a.files = m.files /\ f \in Transfer /\ f.files = m.files
    BY <2>1, SetStateType DEF TransferState
  <2>4. tokens' \subseteq Nat
    BY <1>1, <2>2 DEF Transfer
  <2> HIDE DEF a, f
  <2>5. CASE startNextFile(a, 0)
    <3>1. \A i \in DOMAIN posted : posted[i] <= 0
      BY <1>2
    <3>2. /\ Lasts' /\ transfer' \in Transfer /\ Declares(transfer'.files, a.files)
          /\ known \subseteq known' /\ known' \subseteq Receiver
      BY <1>1, <1>2, <2>2, <2>3, <2>4, <2>5, <3>1, NextFileLasts
    <3>3. Declares(transfer'.files, transfer.files)
      BY <2>1, <2>3, <3>2 DEF Declares
    <3>4. QED
      BY <3>2, <3>3 DEF RowsKeptOrBegun
  <2>6. CASE Over(f) /\ session' = TRUE /\ UNCHANGED <<currentRow, currentFile, recordVars>>
    <3>1. known' = known /\ history' = history
      BY <2>6 DEF recordVars
    <3>2. Lasts'
      BY <1>1, <1>2, <2>2, <2>3, <2>4, <2>6, <3>1, OverLasts
    <3>3. transfer' = f
      BY <2>6 DEF Over
    <3>4. QED
      BY <1>1, <2>1, <2>3, <3>1, <3>2, <3>3 DEF RowsKeptOrBegun
  <2>7. QED
    BY <2>2, <2>5, <2>6
<1>4. ASSUME NEW s \in {"finished", "cancelled"}, PrepareDone(s)
      PROVE  Lasts' /\ RowsKeptOrBegun
  <2> DEFINE f == setState(transfer, s)
  <2>1. f \in Transfer /\ f.files = transfer.files
    BY <1>1, SetStateType DEF TransferState
  <2>2. Over(f) /\ UNCHANGED <<session, tokens, currentRow, currentFile, known, history, answered>>
    BY <1>4 DEF PrepareDone, recordVars
  <2> HIDE DEF f
  <2>3. Lasts'
    BY <1>1, <1>2, <2>1, <2>2, OverLasts
  <2>4. transfer' = f
    BY <2>2 DEF Over
  <2>5. QED
    BY <1>1, <2>1, <2>2, <2>3, <2>4 DEF RowsKeptOrBegun, Declares
<1>5. CASE PrepareFailed
  <2>1. failTransfer(transfer) /\ UNCHANGED <<tokens, answered>>
    BY <1>5 DEF PrepareFailed
  <2>2. QED
    BY <1>1, <1>2, <2>1, FailLasts DEF RowsKeptOrBegun
<1>6. QED
  BY <1>3, <1>4, <1>5

LEMMA PinLasts ==
    ASSUME Lasts, submitPin \/ PrepareWantsPin
    PROVE  Lasts' /\ RowsKeptOrBegun
<1>1. transfer \in Transfer /\ known \subseteq Receiver
  BY DEF Lasts, TypeOK
<1>2. /\ UNCHANGED <<busy, peer, session, tokens, currentRow, currentFile, known, history,
                     sends, posted, answered>>
      /\ transfer' = setState(transfer, "idle") \/ transfer' = setState(transfer, "requesting")
      /\ \/ pinDialog /\ busy /\ pinDialog' = FALSE /\ reply' = "prepare"
         \/ reply = "prepare" /\ reply' = "none" /\ pinDialog' = TRUE
  BY DEF submitPin, PrepareWantsPin, sessionVars, recordVars, obsVars
<1>3. transfer' \in Transfer /\ transfer'.files = transfer.files
  BY <1>1, <1>2, SetStateType DEF TransferState
<1>4. TypeOK'
  BY <1>2, <1>3 DEF Lasts, TypeOK
<1>5. OneByOne' /\ posted = <<>> /\ busy
  BY <1>2 DEF Lasts, OneByOne, InOrder
<1>6. Lasts'
  BY <1>2, <1>4, <1>5 DEF Lasts
<1>7. QED
  BY <1>1, <1>2, <1>3, <1>6 DEF RowsKeptOrBegun, Declares

LEMMA UploadLasts ==
    ASSUME Lasts, UploadProgress \/ UploadAnswered \/ UploadRefused
    PROVE  Lasts' /\ RowsKeptOrBegun
<1>1. reply = "upload"
  BY DEF UploadProgress, UploadAnswered, UploadRefused
<1>2. /\ busy /\ ~pinDialog /\ peer \in Receiver
      /\ currentRow \in Nat /\ \A i \in DOMAIN posted : posted[i] <= currentRow
  BY <1>1, GoingUp
<1>3. /\ transfer \in Transfer /\ known \subseteq Receiver /\ tokens \subseteq Nat
      /\ answered \subseteq Nat \X Receiver \X Nat /\ sends \in Nat
  BY DEF Lasts, TypeOK
<1>4. CASE UploadProgress
  <2>1. PICK sent \in 0..MaxSize :
            transfer' = setFileTransferred(transfer, currentRow, sent)
    BY <1>4 DEF UploadProgress
  <2>2. transfer' \in Transfer /\ Declares(transfer'.files, transfer.files)
    BY <1>3, <2>1, TransferredType, RowsDeclare
  <2>3. UNCHANGED <<busy, peer, session, tokens, reply, pinDialog, currentRow,
                    currentFile, known, history, sends, posted, answered>>
    BY <1>4 DEF UploadProgress, sessionVars, requestVars, recordVars, obsVars
  <2>4. TypeOK' /\ OneByOne'
    BY <2>2, <2>3 DEF Lasts, TypeOK, OneByOne, InOrder
  <2>5. Lasts'
    BY <2>2, <2>3, <2>4 DEF Lasts
  <2>6. QED
    BY <1>3, <2>2, <2>3, <2>5 DEF RowsKeptOrBegun
<1>5. ASSUME NEW s \in FileStatus, NEW t, t = setFileStatus(transfer, currentRow, s),
             startNextFile(t, currentRow) \/ failTransfer(t),
             tokens' = tokens, answered' \subseteq Nat \X Receiver \X Nat
      PROVE  Lasts' /\ RowsKeptOrBegun
  <2>1. t \in Transfer /\ Declares(t.files, transfer.files)
    BY <1>3, <1>5, StatusType, RowsDeclare
  <2>2. /\ Lasts' /\ transfer' \in Transfer /\ Declares(transfer'.files, t.files)
        /\ known \subseteq known' /\ known' \subseteq Receiver
    BY <1>2, <1>3, <1>5, <2>1, NextFileLasts, FailLasts
  <2>3. Declares(transfer'.files, transfer.files)
    BY <2>1, <2>2 DEF Declares
  <2>4. QED
    BY <2>2, <2>3 DEF RowsKeptOrBegun
<1>6. CASE UploadAnswered
  <2>1. /\ answered' = answered \cup {<<sends, peer, currentRow>>} /\ tokens' = tokens
        /\ startNextFile(setFileStatus(transfer, currentRow, "done"), currentRow)
    BY <1>6 DEF UploadAnswered
  <2>2. answered' \subseteq Nat \X Receiver \X Nat
    BY <1>2, <1>3, <2>1
  <2>3. QED
    BY <1>5, <2>1, <2>2 DEF FileStatus
<1>7. CASE UploadRefused
  <2>1. /\ UNCHANGED <<tokens, answered>>
        /\ \/ failTransfer(setFileStatus(transfer, currentRow, "failed"))
           \/ startNextFile(setFileStatus(transfer, currentRow, "failed"), currentRow)
    BY <1>7 DEF UploadRefused
  <2>2. QED
    BY <1>3, <1>5, <2>1 DEF FileStatus
<1>8. QED
  BY <1>4, <1>6, <1>7

LEMMA CancelLasts ==
    ASSUME Lasts, cancel
    PROVE  Lasts' /\ RowsKeptOrBegun
<1> DEFINE m == Marked(transfer, RowsIn(transfer, {"waiting", "transferring"}), "skipped")
           u == setState(m, "cancelled")
<1>1. /\ transfer \in Transfer /\ known \subseteq Receiver /\ tokens \subseteq Nat
      /\ answered \subseteq Nat \X Receiver \X Nat /\ currentRow \in Nat
  BY DEF Lasts, TypeOK
<1>2. m \in Transfer /\ Declares(m.files, transfer.files)
  BY <1>1, MarkedType, MarkedDeclares DEF FileStatus
<1>3. /\ Over(u) /\ session' = FALSE /\ currentFile' = FALSE /\ writeHistory(m)
      /\ UNCHANGED <<tokens, currentRow, known, answered>>
  BY DEF cancel
<1> HIDE DEF m
<1>4. u \in Transfer /\ u.files = m.files
  BY <1>2, SetStateType DEF TransferState
<1> HIDE DEF u
<1>5. history' \subseteq Nat \X Nat
  BY <1>2, <1>3, HistoryType
<1>6. session' \in BOOLEAN /\ currentFile' = FALSE
  BY <1>3
<1>7. Lasts'
  BY <1>1, <1>3, <1>4, <1>5, <1>6, OverLasts
<1>8. transfer' = u
  BY <1>3 DEF Over
<1>9. QED
  BY <1>1, <1>2, <1>3, <1>4, <1>7, <1>8 DEF RowsKeptOrBegun

LEMMA StepLasts ==
    ASSUME Lasts, Next
    PROVE  Lasts' /\ RowsKeptOrBegun
  BY BeginningLasts, PreparedLasts, PinLasts, UploadLasts, CancelLasts
     DEF Next, User, Network, onPrepareFinished

(* The sender survives rows replaced under it, by more or fewer of them:   *)
(* m_busy, the reply in flight, the PIN dialog, the open file and the row  *)
(* being uploaded still agree, and nothing is left of a transfer that      *)
(* ended.                                                                  *)
THEOREM SharedSendInvariance == SharedSpec => []Lasts
<1>1. Init => Lasts
  BY InitOK DEF IInv, Lasts, OneByOne, InOrder, TypeOK, BusyIsBacked, EachFileOnce, Coherent, Init
<1>2. Lasts /\ [Next \/ Besides]_vars => Lasts'
  <2> SUFFICES ASSUME Lasts, [Next \/ Besides]_vars PROVE Lasts'
    OBVIOUS
  <2>1. CASE Next
    BY <2>1, StepLasts
  <2>2. CASE RowsTaken \/ UNCHANGED vars
    <3>1. /\ UNCHANGED <<busy, peer, session, reply, pinDialog, currentRow,
                         currentFile, history, sends, posted, answered>>
          /\ transfer' \in Transfer /\ known' \subseteq Receiver /\ tokens' \subseteq Nat
      BY <2>2 DEF RowsTaken, vars, sessionVars, requestVars, recordVars, obsVars, Lasts, TypeOK
    <3>2. TypeOK' /\ OneByOne'
      BY <3>1 DEF Lasts, TypeOK, OneByOne, InOrder
    <3>3. QED
      BY <3>1, <3>2 DEF Lasts
  <2>3. CASE ProcessEnds
    <3>1. TypeOK' /\ OneByOne'
      <4>1. transfer' \in Transfer /\ posted' \in Seq(Nat)
        BY <2>3, NoTransferType DEF ProcessEnds
      <4>2. TypeOK'
        BY <2>3, <4>1 DEF ProcessEnds, recordVars, Lasts, TypeOK
      <4>3. OneByOne'
        BY <2>3 DEF ProcessEnds, OneByOne, InOrder
      <4>4. QED
        BY <4>2, <4>3
    <3>2. QED
      BY <2>3, <3>1 DEF ProcessEnds, Lasts
  <2>4. QED
    BY <2>1, <2>2, <2>3 DEF Besides
<1>3. QED
  BY <1>1, <1>2, PTL DEF SharedSpec

(* startNextFile() posts rows in order and none of them twice, and an      *)
(* upload names the session, also when a request has replaced the rows in  *)
(* the middle of a transfer, whatever their number.                        *)
THEOREM SharedFilesOnce == SharedSpec => []OneByOne
<1>1. Lasts => OneByOne
  BY DEF Lasts
<1>2. QED
  BY <1>1, SharedSendInvariance, PTL

(* What ReceiveService may count on while its session shares the rows: a   *)
(* step of the sender changes no id, size or digest of them, unless it     *)
(* begins a transfer of files the user picked, which it does not while it  *)
(* is busy; and it forgets no device.                                      *)
THEOREM SenderKeepsRows == SharedSpec => [][Next => RowsKeptOrBegun]_vars
<1>1. Lasts /\ [Next \/ Besides]_vars => [Next => RowsKeptOrBegun]_vars
  BY StepLasts
<1>2. QED
  BY <1>1, SharedSendInvariance, PTL DEF SharedSpec

=============================================================================
