---------------------------- MODULE SendService ----------------------------
(***************************************************************************)
(* The sending half of the application (sendservice.cpp): ask the other    *)
(* device, with a PIN if it wants one, then upload one file after the      *)
(* other.  The other device is the environment: it may answer a request    *)
(* with anything, or the connection may break.                             *)
(***************************************************************************)
EXTENDS TransferModel

CONSTANTS Receiver,    \* devices to send to (fingerprints)
          NoReceiver,  \* m_peer before the first transfer
          Blocked,     \* the devices the user has blocked
          Selections,  \* the readable files among what the user picked
          SourceOf,    \* file name -> where the file is on this device
          MaxSends     \* bound: transfers begun in a behaviour

ASSUME SendAssumption ==
    /\ NoReceiver \notin Receiver
    /\ Blocked \subseteq Receiver
    /\ Selections \subseteq Seq(Descriptor) /\ <<>> \notin Selections
    /\ SourceOf \in [FileName -> Path]
    /\ MaxSends \in Nat

VARIABLES
    transfer,      \* m_transfer
    busy,          \* m_busy
    peer,          \* m_peer
    session,       \* m_sessionId is not empty
    tokens,        \* the rows whose token is set: gone when the rows are
    reply,         \* the request in flight: "none", "prepare" or "upload"
    pinDialog,     \* the PIN dialog is up (harbour-localsend.qml)
    currentRow,    \* m_currentRow; 0 stands for -1
    currentFile,   \* m_currentFile is open
    known,         \* KnownDevices: remembered fingerprints
    history,       \* HistoryModel: <<transfer, row>> of every recorded file
    sends,         \* observation: transfers begun
    posted,        \* observation: rows uploaded in this transfer, in order
    answered       \* observation: <<transfer, peer, row>> answered 2xx

requestVars == <<reply, pinDialog, currentRow, currentFile>>
sessionVars == <<busy, peer, session, tokens>>
recordVars == <<known, history>>
obsVars == <<sends, posted, answered>>
vars == <<transfer, sessionVars, requestVars, recordVars, obsVars>>

Init ==
    /\ transfer = NoTransfer
    /\ busy = FALSE /\ peer = NoReceiver /\ session = FALSE /\ tokens = {}
    /\ reply = "none" /\ pinDialog = FALSE
    /\ currentRow = 0 /\ currentFile = FALSE
    /\ known = {} /\ history = {}
    /\ sends = 0 /\ posted = <<>> /\ answered = {}

-----------------------------------------------------------------------------
(* Beginning.                                                              *)

(* The rows of a transfer of the picked files.                             *)
Chosen(offer) ==
    Updated(begin(transfer, offer),
            [r \in DOMAIN offer |->
                [NewEntry(offer[r]) EXCEPT !.localPath = SourceOf[offer[r].name]]], 0)

(* sendFiles(): nothing happens while busy or with no readable file.       *)
sendFiles(p, offer) ==
    /\ ~busy /\ p \notin Blocked
    /\ sends < MaxSends /\ sends' = sends + 1
    /\ peer' = p /\ session' = FALSE /\ tokens' = {}
    /\ busy' = TRUE
    /\ transfer' = setState(Chosen(offer), "requesting")
    /\ reply' = "prepare"
    /\ posted' = <<>>
    /\ UNCHANGED <<pinDialog, currentRow, currentFile, recordVars, answered>>

(* sendFiles() to a blocked device: the page shows an empty, failed one.   *)
SendToBlocked(p) ==
    /\ ~busy /\ p \in Blocked
    /\ transfer' = setState(begin(transfer, <<>>), "failed")
    /\ posted' = <<>> /\ tokens' = {}
    /\ UNCHANGED <<busy, peer, session, requestVars, recordVars, sends, answered>>

-----------------------------------------------------------------------------
(* The end of a transfer.                                                  *)

(* setFileStatus() on each of some rows, with a status other than done.    *)
Marked(t, rows, s) ==
    Updated(t, [r \in DOMAIN t.files |->
                   IF r \in rows THEN [t.files[r] EXCEPT !.status = s] ELSE t.files[r]],
            t.transferredBytes)
RowsIn(t, statuses) == {r \in DOMAIN t.files : t.files[r].status \in statuses}

(* writeHistory(): one entry with the files that were sent, if any.        *)
writeHistory(t) == history' = history \cup {<<sends, r>> : r \in RowsIn(t, {"done"})}

(* The transfer is over with the rows and the state of t.                  *)
OverStillBusy(t) ==   \* a slip: m_busy not reset
    /\ transfer' = t
    /\ busy' = busy /\ reply' = "none" /\ pinDialog' = FALSE
    /\ UNCHANGED <<peer, sends, posted>>
Over(t) ==
    /\ transfer' = t
    /\ busy' = FALSE /\ reply' = "none" /\ pinDialog' = FALSE
    /\ UNCHANGED <<peer, sends, posted>>

(* completeTransfer() with rows t.                                         *)
OutcomeOnOne(t) == IF SomeDone(t) THEN "finished" ELSE "failed"   \* a slip
Outcome(t) == IF AllDone(t) THEN "finished" ELSE "failed"
completeTransfer(t) ==
    /\ Over(setState(t, Outcome(t)))
    /\ session' = FALSE
    /\ known' = known \cup (IF SomeDone(t) THEN {peer} ELSE {})
    /\ writeHistory(t)

(* failTransfer() with rows t: what was waiting is skipped.                *)
failTransfer(t) ==
    /\ Over(setState(Marked(t, RowsIn(t, {"waiting"}), "skipped"), "failed"))
    /\ session' = FALSE /\ currentFile' = FALSE
    /\ writeHistory(t)
    /\ UNCHANGED <<currentRow, known>>

(* startNextFile() after row cur, with rows t: waiting rows that cannot be *)
(* opened fail; the first that can is posted; with none the transfer ends. *)
(* A row without a file of ours never opens.                               *)
AnyRowAfter(t, cur) == {r \in DOMAIN t.files : r > cur}   \* a slip: status not looked at
Rest(t, cur) == {r \in RowsIn(t, {"waiting"}) : r > cur}
startNextFile(t, cur) ==
    LET rest == Rest(t, cur)
    IN  \/ \E row \in rest :
              /\ t.files[row].localPath # NoPath
              /\ transfer' = setFileStatus(Marked(t, {r \in rest : r < row}, "failed"),
                                           row, "transferring")
              /\ currentRow' = row /\ currentFile' = TRUE
              /\ reply' = "upload" /\ posted' = Append(posted, row)
              /\ session' = TRUE
              /\ UNCHANGED <<busy, peer, pinDialog, recordVars, sends>>
        \/ /\ completeTransfer(Marked(t, rest, "failed"))
           /\ currentRow' \in rest \cup {cur} /\ \A r \in rest : r <= currentRow'
           /\ currentFile' = FALSE

-----------------------------------------------------------------------------
(* onPrepareFinished(), one action for each way to answer.                 *)

(* 200 with a session id, and tokens for some of the rows: the others are  *)
(* skipped, and with none of ours left there is nothing to do.             *)
PrepareAccepted(accepted) ==
    LET t == Marked(transfer, DOMAIN transfer.files \ accepted, "skipped")
    IN  /\ reply = "prepare"
        /\ tokens' = accepted
        /\ \/ /\ accepted # {}
              /\ startNextFile(setState(t, "active"), 0)
           \/ /\ accepted = {}
              /\ Over(setState(t, "finished"))
              /\ session' = TRUE
              /\ UNCHANGED <<currentRow, currentFile, recordVars>>
        /\ UNCHANGED answered

(* 204, nothing is needed, and 403, the other person said no: the rows     *)
(* stay as they are.                                                       *)
PrepareDone(s) ==
    /\ reply = "prepare"
    /\ Over(setState(transfer, s))
    /\ UNCHANGED <<session, tokens, currentRow, currentFile, recordVars, answered>>

(* 401: back to idle, and the PIN dialog goes up.                          *)
PrepareWantsPin ==
    /\ reply = "prepare" /\ reply' = "none"
    /\ transfer' = setState(transfer, "idle")
    /\ pinDialog' = TRUE
    /\ UNCHANGED <<sessionVars, currentRow, currentFile, recordVars, obsVars>>

(* No answer, 409, 429, another status, or an unreadable reply.            *)
PrepareFailed ==
    /\ reply = "prepare"
    /\ failTransfer(transfer)
    /\ UNCHANGED <<tokens, answered>>

onPrepareFinished ==
    \/ \E accepted \in SUBSET DOMAIN transfer.files : PrepareAccepted(accepted)
    \/ PrepareDone("finished") \/ PrepareDone("cancelled")
    \/ PrepareWantsPin \/ PrepareFailed

(* submitPin(), when the dialog is accepted.                               *)
submitPin ==
    /\ pinDialog /\ busy
    /\ pinDialog' = FALSE
    /\ transfer' = setState(transfer, "requesting")
    /\ reply' = "prepare"
    /\ UNCHANGED <<sessionVars, currentRow, currentFile, recordVars, obsVars>>

-----------------------------------------------------------------------------
(* uploadProgress: absolute, for the row the upload was begun for; the     *)
(* file may have grown since it was picked.                                *)
UploadProgress ==
    /\ reply = "upload"
    /\ \E sent \in 0..MaxSize : transfer' = setFileTransferred(transfer, currentRow, sent)
    /\ UNCHANGED <<sessionVars, requestVars, recordVars, obsVars>>

(* onUploadFinished(): 2xx, 409 (the session is gone), anything else.      *)
UploadAnswered ==
    /\ reply = "upload"
    /\ answered' = answered \cup {<<sends, peer, currentRow>>}
    /\ startNextFile(setFileStatus(transfer, currentRow, "done"), currentRow)
    /\ UNCHANGED tokens

UploadRefused ==
    /\ reply = "upload"
    /\ \/ failTransfer(setFileStatus(transfer, currentRow, "failed"))
       \/ startNextFile(setFileStatus(transfer, currentRow, "failed"), currentRow)
    /\ UNCHANGED <<tokens, answered>>

(* cancel(): abort() finishes the request in flight within the call, and   *)
(* its handler returns on m_cancelled; the other device is told as a       *)
(* courtesy that nothing here waits for.                                   *)
CancelUnaborted ==   \* a slip: the request in flight is not aborted
    LET t == Marked(transfer, RowsIn(transfer, {"waiting", "transferring"}), "skipped")
    IN  /\ busy
        /\ transfer' = setState(t, "cancelled")
        /\ busy' = FALSE /\ pinDialog' = FALSE
        /\ session' = FALSE /\ currentFile' = FALSE
        /\ writeHistory(t)
        /\ UNCHANGED <<peer, tokens, reply, currentRow, known, obsVars>>
cancel ==
    LET t == Marked(transfer, RowsIn(transfer, {"waiting", "transferring"}), "skipped")
    IN  /\ busy
        /\ Over(setState(t, "cancelled"))
        /\ session' = FALSE /\ currentFile' = FALSE
        /\ writeHistory(t)
        /\ UNCHANGED <<tokens, currentRow, known, answered>>

-----------------------------------------------------------------------------
User == \/ \E p \in Receiver, offer \in Selections : sendFiles(p, offer)
        \/ \E p \in Receiver : SendToBlocked(p)
        \/ submitPin \/ cancel
Network == \/ onPrepareFinished
           \/ UploadProgress \/ UploadAnswered \/ UploadRefused

Next == User \/ Network

Spec == Init /\ [][Next]_vars

(* A request is answered, or its connection breaks: the reply finishes.    *)
FairSpec == Spec /\ WF_vars(onPrepareFinished) /\ WF_vars(UploadAnswered \/ UploadRefused)

-----------------------------------------------------------------------------
(* Correctness.                                                            *)

(* Every variable stays within its C++ type as modelled.                   *)
TypeOK ==
    /\ transfer \in Transfer
    /\ busy \in BOOLEAN /\ session \in BOOLEAN
    /\ peer \in Receiver \cup {NoReceiver}
    /\ tokens \subseteq Nat
    /\ reply \in {"none", "prepare", "upload"}
    /\ pinDialog \in BOOLEAN
    /\ currentRow \in Nat /\ currentFile \in BOOLEAN
    /\ known \subseteq Receiver
    /\ history \subseteq Nat \X Nat
    /\ sends \in Nat /\ posted \in Seq(Nat)
    /\ answered \subseteq Nat \X Receiver \X Nat

(* The service is busy exactly while something will go on: one request in  *)
(* flight or the PIN dialog up, never both; the state on screen says which,*)
(* and a file is held open exactly while it is uploaded.  A transfer that  *)
(* ended leaves no request, dialog, open file or spinning row behind.      *)
BusyIsBacked ==
    /\ busy <=> (reply # "none" \/ pinDialog)
    /\ ~(reply # "none" /\ pinDialog)
    /\ transfer.state = "requesting" <=> reply = "prepare"
    /\ transfer.state = "active" <=> reply = "upload"
    /\ currentFile <=> reply = "upload"
    /\ \A r \in DOMAIN transfer.files :
          transfer.files[r].status = "transferring" <=> reply = "upload" /\ r = currentRow

(* Files go up one at a time, each at most once and in order, and an       *)
(* upload carries the session and a token for its file.                    *)
EachFileOnce ==
    /\ \A i, j \in DOMAIN posted : i < j => posted[i] < posted[j]
    /\ \A i \in DOMAIN posted : posted[i] \in tokens
    /\ reply = "upload" => session /\ posted # <<>> /\ posted[Len(posted)] = currentRow

(* A row is shown as sent exactly when this upload of it was answered 2xx, *)
(* and a transfer in which anything was uploaded is reported as finished   *)
(* only if every file was.                                                 *)
SentMeansAnswered ==
    /\ \A r \in DOMAIN transfer.files :
          transfer.files[r].status = "done" <=> <<sends, peer, r>> \in answered
    /\ transfer.state = "finished" /\ posted # <<>> =>
          \A r \in DOMAIN transfer.files : <<sends, peer, r>> \in answered

(* A device is remembered, and a file entered in the history, only when it *)
(* answered an upload 2xx: never on the strength of an announcement, a     *)
(* refused request or an aborted upload.                                   *)
PairingIsEarned ==
    /\ \A p \in known : \E a \in answered : a[2] = p
    /\ \A h \in history : \E p \in Receiver : <<h[1], p, h[2]>> \in answered

(* Every transfer ends, or waits for a PIN, once replies finish: no row    *)
(* holds it, whether it cannot be opened, is refused or was left out.      *)
SendEnds == busy ~> (~busy \/ pinDialog)

=============================================================================
