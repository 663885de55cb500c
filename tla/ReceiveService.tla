--------------------------- MODULE ReceiveService ---------------------------
(***************************************************************************)
(* The receiving half of the application (receiveservice.cpp) over its     *)
(* HTTP connections and the destination folder.  Everything runs on one    *)
(* Qt event loop: a handler is one atomic step, and what interleaves is    *)
(* the order of network events, timers, user decisions, other programs in  *)
(* the folder, and the end of the process.                                 *)
(***************************************************************************)
EXTENDS TransferModel, HttpConnection, FiniteSets

CONSTANTS Conn,          \* connection slots (MaxConnections in httpserver.cpp)
          NoConn,        \* no parked connection
          Peer,          \* sender identities (fingerprints)
          NoPeer,        \* m_peer before the first request
          Offers,        \* the file lists a sender may ask to send
          MaxFilesPerSession,  \* the longest list taken
          Lengths,       \* declared body lengths; Chunked for none
          Chunked,
          Candidates,    \* file name -> the paths reserveFilePath() tries, in order
          PartOf,        \* final path -> the path with PartSuffix
          ProbePath,     \* where prepareDirectory() tests that it can write
          QuickSaveModes,\* values the quickSave setting takes
          MaxSessions,   \* bound: sessions opened in a behaviour
          MaxRestarts,   \* bound: ends of the process
          MaxForeign     \* bound: files other programs create

(* The paths a received file can be given, and a request's row and path.   *)
FinalPath == UNION {{Candidates[n][i] : i \in DOMAIN Candidates[n]} : n \in FileName}

ASSUME ReceiveAssumption ==
    /\ NoConn \notin Conn
    /\ NoPeer \notin Peer
    /\ Offers \subseteq Seq(Descriptor) /\ <<>> \notin Offers
    /\ MaxFilesPerSession \in Nat /\ \A o \in Offers : Len(o) <= MaxFilesPerSession
    /\ Chunked \notin Nat /\ Lengths \subseteq Nat \cup {Chunked}
    /\ Candidates \in [FileName -> Seq(Path)]
    /\ PartOf \in [FinalPath -> Path]
    /\ \A p, q \in FinalPath : PartOf[p] = PartOf[q] => p = q
    /\ \A p \in FinalPath : PartOf[p] # p
    /\ ProbePath \in Path /\ \A p \in FinalPath : PartOf[p] # ProbePath
    /\ QuickSaveModes \subseteq BOOLEAN
    /\ MaxSessions \in Nat /\ MaxRestarts \in Nat /\ MaxForeign \in Nat

VARIABLES
    conns,          \* HttpConnection objects, by slot
    pending,        \* m_pending: the parked prepare-upload
    peer,           \* m_peer
    session,        \* m_sessionId: 0 when empty, else an index of sessions
    sessions,       \* every session opened so far: its peer, m_sessionAddress and
                    \* the size and digest agreed on for each row
    tokens,         \* m_tokens: file ids with a token of the current session
    uploads,        \* m_uploads: connection -> row, paths and bytes received
    transfer,       \* m_transfer
    acceptTimer,    \* m_acceptTimer is running
    idleTimer,      \* m_idleTimer: off, running, or due (SessionIdleMs have passed)
    listening,      \* m_server->isListening()
    receiveEnabled, \* AppSettings::receiveEnabled()
    disk,           \* the destination folder
    known,          \* KnownDevices: remembered fingerprints
    history,        \* HistoryModel: <<session, row>> of every recorded file
    acked,          \* observation: <<session, row>> answered 200
    boots           \* observation: sessions opened before each restart

netVars == <<conns, pending, uploads>>
sessionVars == <<peer, session, sessions, tokens>>
timerVars == <<acceptTimer, idleTimer>>
serverVars == <<listening, receiveEnabled>>
recordVars == <<known, history>>
obsVars == <<acked, boots>>
otherVars == <<pending, uploads, sessionVars, transfer, timerVars, serverVars, disk,
               recordVars, obsVars>>   \* all but conns
vars == <<netVars, sessionVars, transfer, timerVars, serverVars, disk,
          recordVars, obsVars>>

(* What a path holds: nothing, another program's file, or bytes received   *)
(* for a row of a session.                                                 *)
Content == [kind : {"absent", "foreign", "received"}, session : Nat, row : Nat,
            bytes : Nat, intact : BOOLEAN]
Absent == [kind |-> "absent", session |-> 0, row |-> 0, bytes |-> 0, intact |-> TRUE]
Foreign == [Absent EXCEPT !.kind = "foreign"]
Received(s, r, n, i) ==
    [kind |-> "received", session |-> s, row |-> r, bytes |-> n, intact |-> i]
Grown(x, n) == Received(x.session, x.row, n, x.intact)   \* written on, to n blocks

(* An upload; limit is what streamBodyTo() was told when its head came in. *)
Upload == [row : Nat, final : FinalPath, length : Nat \cup {Chunked},
           limit : 0..MaxSize, received : Nat]
NoUploads == [c \in {} |-> <<>>]
Without(f, c) == [d \in DOMAIN f \ {c} |-> f[d]]
With(f, c, v) == [d \in DOMAIN f \cup {c} |-> IF d = c THEN v ELSE f[d]]
PartPath(u) == PartOf[u.final]

Init ==
    /\ conns = [c \in Conn |-> NoConnection]
    /\ pending = NoConn
    /\ peer = NoPeer
    /\ session = 0 /\ sessions = <<>> /\ tokens = {}
    /\ uploads = NoUploads
    /\ transfer = NoTransfer
    /\ acceptTimer = FALSE /\ idleTimer = "off"
    /\ receiveEnabled \in BOOLEAN /\ listening \in {FALSE, receiveEnabled}
    /\ disk = [p \in Path |-> Absent]
    /\ known = {} /\ history = {}
    /\ acked = {} /\ boots = <<>>

-----------------------------------------------------------------------------
(* reserveFilePath(): the first candidate with neither itself nor its part *)
(* on disk, or none.                                                       *)
FreeIgnoringParts(p) == disk[p].kind = "absent"   \* a slip: part names not looked at
Free(p) == disk[p].kind = "absent" /\ disk[PartOf[p]].kind = "absent"
FreeSlots(name) == {i \in DOMAIN Candidates[name] : Free(Candidates[name][i])}
HasFreeName(name) == FreeSlots(name) # {}
reserveFilePath(name) ==
    Candidates[name][CHOOSE i \in FreeSlots(name) : \A j \in FreeSlots(name) : i <= j]

KeepAll(d, paths) == d   \* a slip: nothing is removed
RemoveAll(d, paths) == [p \in Path |-> IF p \in paths THEN Absent ELSE d[p]]

(* finishSession(): rows still streaming fail, rows not started are        *)
(* skipped, and the outcome is read off the rows.                          *)
SkipWaiting(t, ups) ==   \* a slip: rows in flight left as they are
    Updated(t, [r \in DOMAIN t.files |->
                   IF t.files[r].status = "waiting"
                   THEN [t.files[r] EXCEPT !.status = "skipped"] ELSE t.files[r]],
            t.transferredBytes)
CloseRows(t, ups) ==
    LET streaming == {ups[c].row : c \in DOMAIN ups}
        closed(r) == IF r \in streaming THEN "failed"
                     ELSE IF t.files[r].status \in {"waiting", "transferring"} THEN "skipped"
                     ELSE t.files[r].status
    IN  Updated(t, [r \in DOMAIN t.files |-> [t.files[r] EXCEPT !.status = closed(r)]],
                t.transferredBytes)
OutcomeOnOne(t, cancelled) ==   \* a slip: one row is enough
    IF cancelled THEN "cancelled" ELSE IF SomeDone(t) THEN "finished" ELSE "failed"
Outcome(t, cancelled) ==
    IF cancelled THEN "cancelled" ELSE IF AllDone(t) THEN "finished" ELSE "failed"
DoneRows(t) == {r \in DOMAIN t.files : t.files[r].status = "done"}

(* finishSession() on the connections k, uploads ups, rows t and folder d  *)
(* that the calling handler has reached.                                   *)
finishSession(k, ups, t, d, cancelled) ==
    LET closed == CloseRows(t, ups)
    IN  /\ conns' = [c \in Conn |-> IF c \in DOMAIN ups \/ c = pending
                                    THEN respond(k[c]) ELSE k[c]]
        /\ uploads' = NoUploads
        /\ disk' = RemoveAll(d, {PartPath(ups[c]) : c \in DOMAIN ups})
        /\ pending' = NoConn
        /\ acceptTimer' = FALSE /\ idleTimer' = "off"
        /\ session' = 0 /\ tokens' = {}
        /\ IF session = 0
           THEN /\ transfer' = setState(t, "cancelled")
                /\ UNCHANGED recordVars
           ELSE /\ transfer' = setState(closed, Outcome(closed, cancelled))
                /\ known' = known \cup (IF SomeDone(closed) THEN {peer} ELSE {})
                /\ history' = history \cup {<<session, r>> : r \in DoneRows(closed)}
        /\ UNCHANGED <<peer, sessions>>

(* The state a handler has reached when the session goes on, with the      *)
(* session's idle timer left alone or restarted.                           *)
Continue(k, ups, t, d, timer) ==
    /\ conns' = k /\ uploads' = ups /\ transfer' = t /\ disk' = d
    /\ idleTimer' = timer
    /\ UNCHANGED <<pending, sessionVars, acceptTimer, recordVars>>

FinishIfSettled(k, ups, t, d, timer) ==
    IF AllSettled(t) THEN finishSession(k, ups, t, d, FALSE)
                     ELSE Continue(k, ups, t, d, timer)

-----------------------------------------------------------------------------
(* Connections.                                                            *)

(* incomingConnection(): a free slot, and the server is listening.         *)
Connect(c, a) ==
    /\ listening /\ conns[c].sock = "free"
    /\ conns' = [conns EXCEPT ![c] = NewConnection(a)]
    /\ UNCHANGED otherVars

Reading(c) == conns[c].sock = "open" /\ conns[c].state = "headers"

(* A request answered as soon as it is complete and without a lasting      *)
(* effect here: info, register, an unknown path, and a prepare-upload that *)
(* is refused (403, 409, 429, 401, 400) or has no files (204).             *)
AnsweredAtOnce(c) ==
    /\ Reading(c)
    /\ conns' = [conns EXCEPT ![c] = respond(finishBody(@))]
    /\ UNCHANGED otherVars

(* A request refused on its head alone: a bad head, OPTIONS, or an upload  *)
(* with a missing, stale or foreign capability.  The body is drained.      *)
RefusedAtHead(c) ==
    /\ Reading(c)
    /\ conns' = [conns EXCEPT ![c] = respond(headersReady(@))]
    /\ UNCHANGED otherVars

(* Bytes after the request: only the idle timer notices.                   *)
TailBytes(c) ==
    /\ conns[c].sock = "open"
    /\ conns[c].complete \/ conns[c].state = "responded"
    /\ conns' = [conns EXCEPT ![c] = discardTail(@)]
    /\ UNCHANGED otherVars

(* onDisconnected() emits closed(): onPendingClosed() or onUploadClosed(). *)
Disconnected(c) ==
    LET k == [conns EXCEPT ![c] = NoConnection]
    IN  /\ conns[c].sock # "free"
        /\ \/ /\ c = pending
              /\ conns' = k /\ pending' = NoConn /\ acceptTimer' = FALSE
              /\ transfer' = IF session = 0 THEN setState(transfer, "idle") ELSE transfer
              /\ UNCHANGED <<uploads, sessionVars, idleTimer, disk, recordVars>>
           \/ /\ c \in DOMAIN uploads
              /\ FinishIfSettled(k, Without(uploads, c),
                                 setFileStatus(transfer, uploads[c].row, "failed"),
                                 RemoveAll(disk, {PartPath(uploads[c])}), idleTimer)
           \/ /\ c # pending /\ c \notin DOMAIN uploads
              /\ Continue(k, uploads, transfer, disk, idleTimer)
        /\ UNCHANGED <<serverVars, obsVars>>

(* The drain interval passes without a read.  onIdleTimeout(), and the     *)
(* deadline of a head: 408 the first time; an answered connection is       *)
(* aborted, which disconnects it at once.                                  *)
DrainQuiet(c) ==
    /\ conns[c].sock = "open" /\ conns[c].timer = "drain"
    /\ conns' = [conns EXCEPT ![c] = Spend(@)]
    /\ UNCHANGED otherVars

IdleTimeout(c) ==
    /\ conns[c].sock = "open" /\ conns[c].timer \in {"idle", "spent"}
    /\ \/ /\ conns[c].state = "responded"
          /\ Disconnected(c)
       \/ /\ conns[c].state # "responded"
          /\ conns' = [conns EXCEPT ![c] = respond(@)]
          /\ UNCHANGED otherVars

-----------------------------------------------------------------------------
(* prepare-upload, and the decision about it.                              *)

(* What the user agrees to: the rows as they stand.                        *)
Agreed(t) == [r \in DOMAIN t.files |->
                 [size |-> t.files[r].size, digest |-> t.files[r].digest]]

(* The session begins: a fresh id, a token per file id, the idle timer;    *)
(* the probe file has come and gone.                                       *)
OpenSessionUntimed(address, t) ==   \* a slip: the idle timer not started
    /\ Len(sessions) < MaxSessions
    /\ sessions' = Append(sessions, [peer |-> peer', address |-> address,
                                     agreed |-> Agreed(t)])
    /\ session' = Len(sessions) + 1
    /\ tokens' = {t.files[r].id : r \in DOMAIN t.files}
    /\ transfer' = setState(t, "active")
    /\ UNCHANGED idleTimer
    /\ disk' = [disk EXCEPT ![ProbePath] = Absent]
OpenSession(address, t) ==
    /\ Len(sessions) < MaxSessions
    /\ sessions' = Append(sessions, [peer |-> peer', address |-> address,
                                     agreed |-> Agreed(t)])
    /\ session' = Len(sessions) + 1
    /\ tokens' = {t.files[r].id : r \in DOMAIN t.files}
    /\ transfer' = setState(t, "active")
    /\ idleTimer' = "running"
    /\ disk' = [disk EXCEPT ![ProbePath] = Absent]

(* accept() of connection c, with connections k and rows t: the folder     *)
(* cannot be written, or it can.                                           *)
accept(c, k, t) ==
    /\ conns' = [k EXCEPT ![c] = respond(@)]
    /\ pending' = NoConn /\ acceptTimer' = FALSE
    /\ \/ /\ transfer' = setState(t, "failed")
          /\ UNCHANGED <<session, sessions, tokens, idleTimer, disk>>
       \/ OpenSession(k[c].address, t)

(* One session at a time, the prompt included: otherwise 409.              *)
NothingParked == pending = NoConn   \* a slip: an open session overlooked
Available == pending = NoConn /\ session = 0

(* handlePrepareUpload() past its checks: park and ask, or accept at once. *)
handlePrepareUpload(c, p, offer) ==
    LET k == [conns EXCEPT ![c] = finishBody(@)]
        t == setState(begin(transfer, offer), "pending")
    IN  /\ Reading(c)
        /\ receiveEnabled
        /\ Available
        /\ peer' = p
        /\ \E quickSave \in QuickSaveModes :
              \/ quickSave /\ accept(c, k, t)
              \/ /\ ~quickSave
                 /\ conns' = k /\ pending' = c /\ transfer' = t /\ acceptTimer' = TRUE
                 /\ UNCHANGED <<session, sessions, tokens, idleTimer, disk>>
        /\ UNCHANGED <<uploads, serverVars, recordVars, obsVars>>

Accept ==
    /\ pending # NoConn
    /\ peer' = peer
    /\ accept(pending, conns, transfer)
    /\ UNCHANGED <<uploads, serverVars, recordVars, obsVars>>

(* decline() and onAcceptTimeout() answer 403 and put the prompt away.     *)
PutAwayTimerRunning ==   \* a slip: the accept timer not stopped
    /\ conns' = [conns EXCEPT ![pending] = respond(@)]
    /\ pending' = NoConn
    /\ transfer' = setState(transfer, "idle")
    /\ UNCHANGED <<uploads, sessionVars, timerVars, serverVars, disk, recordVars,
                   obsVars>>
PutAway ==
    /\ conns' = [conns EXCEPT ![pending] = respond(@)]
    /\ pending' = NoConn /\ acceptTimer' = FALSE
    /\ transfer' = setState(transfer, "idle")
    /\ UNCHANGED <<uploads, sessionVars, idleTimer, serverVars, disk, recordVars,
                   obsVars>>

Decline == pending # NoConn /\ PutAway
TimeoutInSession == acceptTimer /\ session # 0 /\ PutAway   \* a slip: wrong guard
onAcceptTimeout == acceptTimer /\ pending # NoConn /\ PutAway

-----------------------------------------------------------------------------
(* upload.                                                                 *)

(* The checks of handleUploadHeaders(): the request names the session, the *)
(* file and its token, and comes from the address that opened it.          *)
AdmittedFromAnywhere(c, s, id) ==   \* a slip: no address check
    /\ Reading(c)
    /\ session # 0 /\ s = session
    /\ id \in tokens /\ RowsOf(transfer, id) # {}
Admitted(c, s, id) ==
    /\ Reading(c)
    /\ session # 0 /\ s = session
    /\ id \in tokens /\ conns[c].address = sessions[session].address
    /\ RowsOf(transfer, id) # {}

(* The file is already here: 200, and nothing is reopened.                 *)
UploadAgain(c, s, id) ==
    LET row == indexOfFile(transfer, id)
    IN  /\ Admitted(c, s, id)
        /\ transfer.files[row].status = "done"
        /\ conns' = [conns EXCEPT ![c] = respond(headersReady(@))]
        /\ acked' = acked \cup {<<session, row>>}
        /\ UNCHANGED <<pending, uploads, sessionVars, transfer, timerVars, serverVars,
                       disk, recordVars, boots>>

(* No free name, or the part file cannot be opened: the row fails and the  *)
(* session is not looked at.                                               *)
UploadUnwritable(c, s, id) ==
    LET row == indexOfFile(transfer, id)
    IN  /\ Admitted(c, s, id)
        /\ transfer.files[row].status # "done"
        /\ Continue([conns EXCEPT ![c] = respond(headersReady(@))], uploads,
                    setFileStatus(transfer, row, "failed"), disk, idleTimer)
        /\ UNCHANGED <<serverVars, obsVars>>

(* Whether a completed body is kept: long enough, and the digest holds.    *)
SoundWhateverLength(u, file, intact) == file.digest => intact   \* a slip: length not checked
LongEnough(u, file, intact) == u.received >= file.size   \* a slip: digest not checked
Kept(u, file, intact) == u.received >= file.size /\ (file.digest => intact)

(* Where it is kept: rename() fails when something took the final name.    *)
AlwaysFinal(d, u) == u.final   \* a slip: replace what is there
Place(d, u) == IF d[u.final].kind = "absent" THEN u.final ELSE PartPath(u)

(* handleUploadFinished() of connection c and its upload u, the others     *)
(* being ups: short and damaged bodies go, a whole one takes its final     *)
(* name unless something took that name meanwhile.  The row is looked up   *)
(* again, and may be another one by now, or none.                          *)
handleUploadFinished(c, u, ups, t, d, intact) ==
    LET part == PartPath(u)
        place == Place(d, u)
        k == [conns EXCEPT ![c] = respond(finishBody(@))]
    IN  \E file \in entry(t, u.row) :
           \/ /\ Kept(u, file, intact)
              /\ FinishIfSettled(k, ups,
                     setFileStatus(setFileLocalPath(t, u.row, place), u.row, "done"),
                     [RemoveAll(d, {part}) EXCEPT
                          ![place] = Received(session, u.row, u.received, intact)],
                     "running")
              /\ acked' = acked \cup {<<session, u.row>>}
           \/ /\ ~Kept(u, file, intact)
              /\ FinishIfSettled(k, ups, setFileStatus(t, u.row, "failed"),
                                 RemoveAll(d, {part}), "running")
              /\ UNCHANGED acked

(* handleUploadHeaders() with room for the file, and streamBodyTo(): a     *)
(* length over the declared size is refused, an empty body is finished     *)
(* within the same call, any other is awaited.                             *)
handleUploadHeaders(c, s, id, length) ==
    LET row == indexOfFile(transfer, id)
        file == transfer.files[row]
        u == [row |-> row, final |-> reserveFilePath(file.name),
              length |-> length, limit |-> file.size, received |-> 0]
        t == setFileStatus(transfer, row, "transferring")
        d == [disk EXCEPT ![PartPath(u)] = Received(session, row, 0, TRUE)]
        k == [conns EXCEPT ![c] = headersReady(@)]
    IN  /\ Admitted(c, s, id)
        /\ file.status # "done"
        /\ HasFreeName(file.name)
        /\ \/ /\ length # Chunked /\ length > file.size
              /\ Continue([k EXCEPT ![c] = respond(@)], With(uploads, c, u), t, d, "running")
              /\ UNCHANGED acked
           \/ /\ length = 0
              /\ \E intact \in BOOLEAN : handleUploadFinished(c, u, uploads, t, d, intact)
           \/ /\ length = Chunked \/ length \in 1..file.size
              /\ Continue(k, With(uploads, c, u), t, d, "running")
              /\ UNCHANGED acked
        /\ UNCHANGED <<serverVars, boots>>

Streaming(c) == c \in DOMAIN uploads /\ conns[c].state = "body"

(* The ceiling of deliver(): the size the sender declared.                 *)
CeilingOfRow(u) ==   \* a slip: of the row shown now
    \E file \in entry(transfer, u.row) : u.received <= file.size
WithinCeiling(u) == u.received <= u.limit

(* deliver() of one block: over the ceiling is 413, a failed write 500;    *)
(* the upload then waits in m_uploads for its socket to close.  The block  *)
(* that reaches the declared length completes the request.                 *)
UploadBlock(c) ==
    LET u == [uploads[c] EXCEPT !.received = @ + 1]
        t == setFileTransferred(transfer, u.row, u.received)
        d == [disk EXCEPT ![PartPath(u)] = Grown(@, u.received)]
    IN  /\ Streaming(c)
        /\ \/ /\ WithinCeiling(u)
              /\ u.received # u.length
              /\ Continue(conns, [uploads EXCEPT ![c] = u], t, d, "running")
              /\ UNCHANGED acked
           \/ /\ WithinCeiling(u)
              /\ u.received = u.length
              /\ \E intact \in BOOLEAN :
                    handleUploadFinished(c, u, Without(uploads, c), t, d, intact)
           \/ /\ Continue([conns EXCEPT ![c] = respond(@)], uploads, transfer, disk, idleTimer)
              /\ UNCHANGED acked
        /\ UNCHANGED <<serverVars, boots>>

(* The terminating chunk of a chunked body.                                *)
UploadEnd(c) ==
    /\ Streaming(c) /\ uploads[c].length = Chunked
    /\ \E intact \in BOOLEAN :
          handleUploadFinished(c, uploads[c], Without(uploads, c), transfer, disk, intact)
    /\ UNCHANGED <<serverVars, boots>>

-----------------------------------------------------------------------------
(* cancel and teardown.                                                    *)

(* handleCancel(): the request is answered, then a parked prepare-upload   *)
(* is let go, or the session named (or none named: s = 0) is ended.        *)
handleCancel(c, s) ==
    LET k == [conns EXCEPT ![c] = respond(finishBody(@))]
    IN  /\ Reading(c)
        /\ IF pending # NoConn /\ session = 0
           THEN /\ conns' = k
                /\ pending' = NoConn /\ acceptTimer' = FALSE
                /\ transfer' = setState(transfer, "cancelled")
                /\ UNCHANGED <<uploads, sessionVars, idleTimer, disk, recordVars>>
           ELSE IF session # 0 /\ s \in {0, session}
                THEN finishSession(k, uploads, transfer, disk, TRUE)
                ELSE Continue(k, uploads, transfer, disk, idleTimer)
        /\ UNCHANGED <<serverVars, obsVars>>

(* cancel(), from the user: a prompt is declined, a session ended.         *)
Cancel ==
    /\ session # 0
    /\ finishSession(conns, uploads, transfer, disk, TRUE)
    /\ UNCHANGED <<serverVars, obsVars>>

(* SessionIdleMs pass without upload traffic; then onSessionIdle().        *)
SessionQuiet ==
    /\ idleTimer = "running" /\ idleTimer' = "due"
    /\ UNCHANGED <<netVars, sessionVars, transfer, acceptTimer, serverVars, disk,
                   recordVars, obsVars>>

onSessionIdle ==
    /\ idleTimer = "due" /\ session # 0
    /\ finishSession(conns, uploads, transfer, disk, FALSE)
    /\ UNCHANGED <<serverVars, obsVars>>

(* stopListening(): the session and the prompt end with the server; open   *)
(* connections stay.  Nothing happens when the server is not listening.    *)
stopListening ==
    IF listening /\ (session # 0 \/ pending # NoConn)
    THEN finishSession(conns, uploads, transfer, disk, TRUE)
    ELSE Continue(conns, uploads, transfer, disk, idleTimer)

(* The receive switch (harbour-localsend.cpp): binding the port may fail.  *)
ReceiveEnabledChanged ==
    /\ receiveEnabled' = ~receiveEnabled
    /\ \/ receiveEnabled /\ stopListening /\ listening' = FALSE
       \/ /\ ~receiveEnabled /\ Continue(conns, uploads, transfer, disk, idleTimer)
          /\ listening' \in {listening, TRUE}
    /\ UNCHANGED obsVars

(* onSettingsChanged(): rebind on the new port, which may fail.            *)
PortChanged ==
    /\ listening
    /\ stopListening
    /\ listening' \in BOOLEAN
    /\ UNCHANGED <<receiveEnabled, obsVars>>

(* Another program puts a file where there was none.                       *)
ForeignFile(p) ==
    /\ disk[p].kind = "absent"
    /\ Cardinality({q \in Path : disk[q].kind = "foreign"}) < MaxForeign
    /\ disk' = [disk EXCEPT ![p] = Foreign]
    /\ UNCHANGED <<netVars, sessionVars, transfer, timerVars, serverVars,
                   recordVars, obsVars>>

(* The process ends with the folder at d, and is started again.  That, the *)
(* remembered devices and the history are what is left.                    *)
ProcessEnds(d) ==
    /\ disk' = d
    /\ boots' = Append(boots, Len(sessions))
    /\ conns' = [c \in Conn |-> NoConnection]
    /\ pending' = NoConn /\ uploads' = NoUploads
    /\ session' = 0 /\ tokens' = {}
    /\ transfer' = NoTransfer
    /\ acceptTimer' = FALSE /\ idleTimer' = "off"
    /\ listening' \in {FALSE, receiveEnabled}
    /\ peer' = NoPeer
    /\ UNCHANGED <<sessions, receiveEnabled, recordVars, acked>>

(* At any point.                                                           *)
Restart == Len(boots) < MaxRestarts /\ ProcessEnds(disk)

(* In handleUploadFinished(), when entry() reads a row that is not there.  *)
StrayRead(c) ==
    LET u == uploads[c]
        all == u.received + 1
    IN  /\ Streaming(c) /\ ~Listed(transfer, u.row)
        /\ \/ u.length = Chunked /\ ProcessEnds(disk)
           \/ /\ u.length = all /\ all <= u.limit
              /\ ProcessEnds([disk EXCEPT ![PartPath(u)] = Grown(@, all)])

-----------------------------------------------------------------------------
Traffic(c) ==
    \/ \E a \in Address : Connect(c, a)
    \/ AnsweredAtOnce(c) \/ RefusedAtHead(c) \/ TailBytes(c) \/ Disconnected(c)
    \/ \E s \in 0..Len(sessions) : handleCancel(c, s)
    \/ \E s \in 1..Len(sessions), id \in FileId :
          \/ UploadAgain(c, s, id) \/ UploadUnwritable(c, s, id)
          \/ \E n \in Lengths : handleUploadHeaders(c, s, id, n)
    \/ UploadBlock(c) \/ UploadEnd(c)

Network(c) ==
    \/ \E p \in Peer, offer \in Offers : handlePrepareUpload(c, p, offer)
    \/ Traffic(c)

User == Accept \/ Decline \/ Cancel \/ ReceiveEnabledChanged \/ PortChanged
Timers == \/ onAcceptTimeout \/ SessionQuiet \/ onSessionIdle
          \/ \E c \in Conn : DrainQuiet(c) \/ IdleTimeout(c)
Environment == Restart \/ \E p \in Path : ForeignFile(p)

Next == (\E c \in Conn : Network(c)) \/ User \/ Timers \/ Environment

(* The steps of the service when somebody else may replace its rows: only  *)
(* then can one that an upload goes to be missing.                         *)
SharedNext == Next \/ \E c \in Conn : StrayRead(c)

Spec == Init /\ [][Next]_vars

(* Time passes, so a timer nobody restarts fires, and a socket told to     *)
(* close closes.  Nothing is asked of peers and people.  No read puts off  *)
(* the deadline of a head; every read puts off the end of a drain.         *)
Fairness ==
    /\ WF_vars(onAcceptTimeout)
    /\ WF_vars(SessionQuiet)
    /\ WF_vars(onSessionIdle)
    /\ \A c \in Conn : /\ WF_vars(conns[c].sock = "closing" /\ Disconnected(c))
                       /\ WF_vars(DrainQuiet(c))
                       /\ WF_vars(conns[c].state # "body" /\ IdleTimeout(c))

FairSpec == Spec /\ Fairness

(* The same when, besides, no peer drips a body to keep a request alive.   *)
QuietSpec == FairSpec /\ \A c \in Conn : WF_vars(IdleTimeout(c))

-----------------------------------------------------------------------------
(* Correctness.                                                            *)

Session == [peer : Peer, address : Address,
            agreed : Seq([size : 0..MaxSize, digest : BOOLEAN])]

(* Every variable stays within its C++ type as modelled.                   *)
TypeOK ==
    /\ conns \in [Conn -> Connection]
    /\ pending \in Conn \cup {NoConn}
    /\ peer \in Peer \cup {NoPeer}
    /\ sessions \in Seq(Session) /\ session \in 0..Len(sessions)
    /\ tokens \subseteq FileId
    /\ DOMAIN uploads \subseteq Conn /\ \A c \in DOMAIN uploads : uploads[c] \in Upload
    /\ transfer \in Transfer
    /\ acceptTimer \in BOOLEAN /\ idleTimer \in {"off", "running", "due"}
    /\ listening \in BOOLEAN /\ receiveEnabled \in BOOLEAN
    /\ disk \in [Path -> Content]
    /\ known \subseteq Peer /\ history \subseteq Nat \X Nat
    /\ acked \subseteq Nat \X Nat /\ boots \in Seq(Nat)

(* The accept prompt is on screen exactly while a complete request is      *)
(* parked on a live socket, its 90 s timer runs, and no session is open:   *)
(* m_pending, m_acceptTimer, m_sessionId and the transfer state agree.     *)
PromptIsBacked ==
    /\ transfer.state = "pending" <=> pending # NoConn
    /\ acceptTimer <=> pending # NoConn
    /\ pending # NoConn => /\ session = 0
                           /\ conns[pending].sock # "free" /\ conns[pending].complete

(* A transfer is shown as active exactly while a session id is set, and    *)
(* then its idle timer runs: no session is left that nothing would end.    *)
SessionIsBacked ==
    /\ transfer.state = "active" <=> session # 0
    /\ idleTimer # "off" <=> session # 0

(* Every entry of m_uploads belongs to the open session, to a live socket  *)
(* of the sender the user accepted that has not completed its request, and *)
(* to a row of what was agreed on; its part file holds exactly the bytes   *)
(* received (the table never outlives the connection or session it points  *)
(* into).                                                                  *)
UploadsBelong ==
    \A c \in DOMAIN uploads :
        /\ session # 0
        /\ conns[c].sock = "open" /\ ~conns[c].complete
        /\ conns[c].address = sessions[session].address
        /\ uploads[c].row \in DOMAIN sessions[session].agreed
        /\ disk[PartPath(uploads[c])] =
               Received(session, uploads[c].row, uploads[c].received, TRUE)

(* No two uploads write the same part file, whatever names are asked for   *)
(* (the same name twice, or a name that is another file's part name).      *)
SingleWriter ==
    \A c, d \in DOMAIN uploads :
        PartPath(uploads[c]) = PartPath(uploads[d]) => c = d

OpenParts == {PartPath(uploads[c]) : c \in DOMAIN uploads}
AgreedFor(p) == sessions[disk[p].session].agreed[disk[p].row]
Whole(p) == /\ disk[p].kind = "received"
            /\ disk[p].bytes = AgreedFor(p).size
            /\ AgreedFor(p).digest => disk[p].intact
LastBoot == IF boots = <<>> THEN 0 ELSE boots[Len(boots)]

(* A received file that is not whole is being written right now, or was    *)
(* cut off by the end of the process: every failure path of the service    *)
(* (cancel, timeout, closed socket, bad digest, refused body) removes what *)
(* it wrote.                                                               *)
NoLitter ==
    \A p \in Path : disk[p].kind = "received" =>
        Whole(p) \/ p \in OpenParts \/ disk[p].session <= LastBoot

(* No path ever holds more bytes than the person agreed to, even with a    *)
(* chunked body that declares no length.                                   *)
NeverMoreThanAgreed ==
    \A p \in Path : disk[p].kind = "received" => disk[p].bytes <= AgreedFor(p).size

(* While a session is open, a row that one of its tokens leads to is the   *)
(* row the person agreed to, whoever has replaced the rows meanwhile, by   *)
(* fewer or by more.                                                       *)
RowsAsAgreed ==
    session # 0 =>
        LET agreed == sessions[session].agreed
        IN  \A r \in DOMAIN transfer.files : transfer.files[r].id \in tokens =>
                r \in DOMAIN agreed /\ Agreed(transfer)[r] = agreed[r]

(* A row shown as done names a whole file of this very session and row.    *)
DoneIsOnDisk ==
    \A r \in DOMAIN transfer.files : transfer.files[r].status = "done" =>
        LET p == transfer.files[r].localPath
        IN  p \in Path /\ Whole(p) /\ disk[p].session = Len(sessions) /\ disk[p].row = r

(* An upload answered 200 is on disk, whole, for good: across retries,     *)
(* later sessions, cancels and restarts.                                   *)
AckedIsKept ==
    \A a \in acked : \E p \in Path : Whole(p) /\ <<disk[p].session, disk[p].row>> = a

(* A device is remembered, and a file entered in the history, only for     *)
(* uploads that were answered 200.                                         *)
RecordsAreEarned ==
    /\ history \subseteq acked
    /\ \A f \in known : \E a \in acked : sessions[a[1]].peer = f

(* A row shown as transferring has an upload behind it.                    *)
SpinnerIsBacked ==
    \A r \in DOMAIN transfer.files : transfer.files[r].status = "transferring" =>
        \E c \in DOMAIN uploads : uploads[c].row = r

(* The progress bar: the running total is the sum over the rows, and no    *)
(* row shows more than its size, through retries, rival uploads of a row   *)
(* and rows that end early (setFileTransferred(), setFileStatus()).        *)
ProgressAddsUp == AddsUp(transfer)

(* A session reported as finished has had every one of its rows answered   *)
(* 200 (m_transfer->setState in finishSession()).                          *)
FinishedMeansAll ==
    transfer.state = "finished" =>
        \A r \in DOMAIN transfer.files : <<Len(sessions), r>> \in acked

(* Files that are not a part being written are never changed or removed,   *)
(* whoever they belong to; the write probe's own path is the exception.    *)
SettledFilesStay ==
    [][\A p \in Path \ {ProbePath} :
          disk[p].kind # "absent" /\ p \notin OpenParts => disk'[p] = disk[p]]_vars

(* A prompt does not stay for ever: m_acceptTimer, which nothing restarts, *)
(* takes it away if nobody decides.                                        *)
PromptEnds == pending # NoConn ~> pending = NoConn

(* A session that never ends is one whose sender starts uploads for ever:  *)
(* rows that failed at header time, or were never sent, do not hold it.    *)
UploadStarts ==
    \E c \in Conn, s \in 1..Len(sessions), id \in FileId, n \in Lengths :
        handleUploadHeaders(c, s, id, n)
SessionEnds ==
    \A s \in 1..MaxSessions : <>[](session = s) => []<><<UploadStarts>>_vars

(* A connection whose head is not in, or that has been answered, is held   *)
(* for ever only by a peer that sends for ever: whatever a handler does,   *)
(* one of the timers is left to end it.                                    *)
Held(c) == conns[c].sock # "free" /\ conns[c].state # "body"
OnlySendingHolds == \A c \in Conn : <>[]Held(c) => []<><<TailBytes(c)>>_vars

(* The service keeps the promise of Inbox: nothing is taken that was not   *)
(* granted, by the user or by the quick-save setting, and what was taken   *)
(* is not taken back.                                                      *)
Promise == INSTANCE Inbox WITH
    Row <- 1..MaxFilesPerSession,
    MayGrantUnasked <- TRUE \in QuickSaveModes,
    phase <- IF session # 0 THEN "receiving"
             ELSE IF pending # NoConn THEN "asking" ELSE "idle",
    granted <- Len(sessions),
    delivered <- acked
KeepsPromise == Promise!Spec

-----------------------------------------------------------------------------
(* Statements of the repository that the code does not meet.               *)

(* protocol.h: "Senders wait, but not forever, and neither do we."  A      *)
(* sender whose request is parked is answered or gone eventually.          *)
ParkedIsAnswered == \A c \in Conn : Parked(conns[c]) ~> ~Parked(conns[c])

(* httpserver.cpp: a refused request may go on for DrainTimeoutMs "before  *)
(* the socket is simply cut", so that "being refused is not a way to hold  *)
(* a connection slot".                                                     *)
RefusedIsCut ==
    \A c \in Conn : conns[c].sock = "open" /\ conns[c].state = "responded"
                       ~> conns[c].sock # "open"

=============================================================================
