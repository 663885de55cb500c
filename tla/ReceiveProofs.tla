---------------------------- MODULE ReceiveProofs ----------------------------
(***************************************************************************)
(* Theorems about ReceiveService, for every value of its constants: its    *)
(* own invariant (IInv), the promise of Inbox, and the destination folder  *)
(* (FInv, which rests on IInv), for the service alone with its transfer;   *)
(* then what is left of it (SharedInv) when SendService has the transfer   *)
(* too, and how much of the rows each may count on the other to leave.     *)
(***************************************************************************)
EXTENDS ReceiveService, TransferProofs, Loops, SequenceTheorems, TLAPS

(* Closing a session leaves the rows' number and types alone.              *)
LEMMA CloseRowsType ==
    ASSUME NEW t \in Transfer, NEW ups
    PROVE  /\ CloseRows(t, ups) \in Transfer
           /\ Len(CloseRows(t, ups).files) = Len(t.files)
<1> DEFINE streaming == {ups[c].row : c \in DOMAIN ups}
           closed(r) == IF r \in streaming THEN "failed"
                        ELSE IF t.files[r].status \in {"waiting", "transferring"} THEN "skipped"
                        ELSE t.files[r].status
           fs == [r \in DOMAIN t.files |-> [t.files[r] EXCEPT !.status = closed(r)]]
           u == CloseRows(t, ups)
<1>1. t.files \in Seq(FileEntry) /\ t.state \in TransferState /\ t.transferredBytes \in Int
  BY DEF Transfer
<1>2. ASSUME NEW r \in DOMAIN t.files PROVE fs[r] \in FileEntry
  <2>1. t.files[r] \in FileEntry
    BY <1>1, RowsAreSeq
  <2>2. closed(r) \in FileStatus
    <3> HIDE DEF streaming
    <3> QED BY <2>1 DEF FileEntry, FileStatus
  <2>3. fs[r] = [t.files[r] EXCEPT !.status = closed(r)]
    OBVIOUS
  <2>4. QED
    <3> HIDE DEF closed, fs
    <3>1. \A e \in FileEntry, s \in FileStatus : [e EXCEPT !.status = s] \in FileEntry
      BY DEF FileEntry
    <3> QED BY ONLY <2>1, <2>2, <2>3, <3>1
<1>3. fs \in Seq(FileEntry) /\ Len(fs) = Len(t.files)
  <2>1. DOMAIN fs = DOMAIN t.files /\ fs = [r \in DOMAIN t.files |-> fs[r]]
    OBVIOUS
  <2>2. QED
    <3> HIDE DEF fs
    <3>1. t.files \in Seq(FileEntry) /\ \A r \in DOMAIN t.files : fs[r] \in FileEntry
      BY <1>1, <1>2
    <3> QED BY ONLY <2>1, <3>1, RowsAreSeq
<1>4. u = [state |-> t.state, files |-> fs, transferredBytes |-> t.transferredBytes]
  BY DEF CloseRows, Updated
<1>5. QED
  <2> HIDE DEF fs, u
  <2>1. u \in Transfer /\ u.files = fs
    BY <1>1, <1>3, <1>4 DEF Transfer
  <2>2. QED
    BY <2>1, <1>3 DEF u

-----------------------------------------------------------------------------
(* What the methods of a connection do to it.                              *)
LEMMA ConnectionOps ==
    ASSUME NEW k \in Connection
    PROVE  /\ respond(k) \in Connection /\ headersReady(k) \in Connection
           /\ finishBody(k) \in Connection /\ discardTail(k) \in Connection
           /\ respond(k).address = k.address /\ headersReady(k).address = k.address
           /\ finishBody(k).address = k.address /\ discardTail(k).address = k.address
           /\ respond(k).complete = k.complete /\ headersReady(k).complete = k.complete
           /\ finishBody(k).complete /\ discardTail(k).complete = k.complete
           /\ respond(k).state = "responded" /\ headersReady(k).state = "body"
           /\ finishBody(k).state = "body" /\ discardTail(k).state = k.state
           /\ ~k.complete => respond(k).sock = k.sock
           /\ k.sock # "free" => respond(k).sock # "free"
           /\ headersReady(k).sock = k.sock /\ finishBody(k).sock = k.sock
           /\ discardTail(k).sock = k.sock
           /\ Spend(k) \in Connection /\ Spend(k).state = k.state /\ Spend(k).sock = k.sock
           /\ Spend(k).complete = k.complete /\ Spend(k).address = k.address
<1>1. headersReady(k) \in Connection /\ headersReady(k).address = k.address
      /\ headersReady(k).complete = k.complete /\ headersReady(k).sock = k.sock
      /\ headersReady(k).state = "body"
  BY DEF Connection, headersReady
<1>2. finishBody(k) \in Connection /\ finishBody(k).address = k.address
      /\ finishBody(k).complete /\ finishBody(k).sock = k.sock
      /\ finishBody(k).state = "body"
  BY DEF Connection, finishBody
<1>3. discardTail(k) \in Connection /\ discardTail(k).address = k.address
      /\ discardTail(k).complete = k.complete /\ discardTail(k).sock = k.sock
      /\ discardTail(k).state = k.state
  BY DEF Connection, discardTail
<1>4. respond(k) \in Connection /\ respond(k).address = k.address
      /\ respond(k).complete = k.complete /\ respond(k).state = "responded"
      /\ (~k.complete => respond(k).sock = k.sock)
      /\ (k.sock # "free" => respond(k).sock # "free")
  BY DEF Connection, respond
<1>5. Spend(k) \in Connection /\ Spend(k).state = k.state /\ Spend(k).sock = k.sock
      /\ Spend(k).complete = k.complete /\ Spend(k).address = k.address
  BY DEF Connection, Spend
<1>6. QED
  BY <1>1, <1>2, <1>3, <1>4, <1>5

LEMMA ConnectionValues ==
    /\ NoConnection \in Connection /\ ~NoConnection.complete
    /\ \A a \in Address : NewConnection(a) \in Connection /\ ~NewConnection(a).complete
  BY AddressAssumption DEF NoConnection, NewConnection, Connection

-----------------------------------------------------------------------------
(* The inductive invariant.  The service may be alone with its transfer or *)
(* share it with SendService, which begins and settles transfers in the    *)
(* same rows; what only holds when it is alone is set apart.               *)
SameCount == session # 0 => Len(transfer.files) = Len(sessions[session].agreed)
Shown ==
    /\ transfer.state = "pending" <=> pending # NoConn
    /\ transfer.state = "active" <=> session # 0
    /\ Len(transfer.files) <= MaxFilesPerSession
    /\ SameCount
Backed ==
    /\ acceptTimer <=> pending # NoConn
    /\ pending # NoConn => /\ session = 0
                           /\ conns[pending].sock # "free" /\ conns[pending].complete
    /\ idleTimer # "off" <=> session # 0

(* What the properties leave out: the open session is the last one opened, *)
(* somebody is behind a prompt or session, and a connection still reading  *)
(* its head is neither complete nor an upload.                             *)
Current ==
    /\ session \in {0, Len(sessions)}
    /\ session # 0 \/ pending # NoConn => peer \in Peer
    /\ \A c \in Conn : conns[c].state = "headers" =>
                          ~conns[c].complete /\ c \notin DOMAIN uploads

Own(alone) == /\ TypeOK /\ Backed /\ (alone => Shown)
              /\ UploadsBelong /\ SingleWriter /\ Current
IInv == Own(TRUE)

(* A row that a token leads to is one of the session's.                    *)
TokensLead ==
    session # 0 => \A r \in DOMAIN transfer.files :
                      transfer.files[r].id \in tokens => r \in DOMAIN sessions[session].agreed

(* What holds of the connections k, uploads ups, rows t and folder d that  *)
(* a handler has reached before it lets the session go on or ends it.      *)
Reached(k, ups, t, d) ==
    /\ k \in [Conn -> Connection] /\ t \in Transfer /\ d \in [Path -> Content]
    /\ \A c \in Conn : k[c].state = "headers" => ~k[c].complete /\ c \notin DOMAIN ups
    /\ DOMAIN ups \subseteq Conn
    /\ \A c \in DOMAIN ups :
          /\ ups[c] \in Upload
          /\ session # 0
          /\ k[c].sock = "open" /\ ~k[c].complete
          /\ k[c].address = sessions[session].address
          /\ ups[c].row \in DOMAIN sessions[session].agreed
          /\ d[PartPath(ups[c])] = Received(session, ups[c].row, ups[c].received, TRUE)
    /\ \A c, e \in DOMAIN ups : PartPath(ups[c]) = PartPath(ups[e]) => c = e

(* The handler's inputs satisfy it.                                        *)
LEMMA ReachedAtFirst ==
    ASSUME NEW alone \in BOOLEAN, Own(alone)
    PROVE  Reached(conns, uploads, transfer, disk)
  BY DEF Own, TypeOK, UploadsBelong, SingleWriter, Current, Reached

(* The uploads that are left are as they were.                             *)
LEMMA ReachedKept ==
    ASSUME NEW k0, NEW ups0, NEW t0, NEW d0, Reached(k0, ups0, t0, d0),
           NEW k \in [Conn -> Connection], NEW ups, NEW t \in Transfer,
           NEW d \in [Path -> Content],
           DOMAIN ups \subseteq DOMAIN ups0,
           \A e \in DOMAIN ups :
               /\ ups[e] = ups0[e] /\ k[e] = k0[e]
               /\ d[PartPath(ups[e])] = d0[PartPath(ups0[e])],
           \A e \in Conn : k[e].state = "headers" => ~k[e].complete /\ e \notin DOMAIN ups
    PROVE  Reached(k, ups, t, d)
<1>1. ASSUME NEW e \in DOMAIN ups
      PROVE  /\ ups[e] \in Upload /\ session # 0
             /\ k[e].sock = "open" /\ ~k[e].complete
             /\ k[e].address = sessions[session].address
             /\ ups[e].row \in DOMAIN sessions[session].agreed
             /\ d[PartPath(ups[e])] = Received(session, ups[e].row, ups[e].received, TRUE)
  <2>1. e \in DOMAIN ups0 /\ ups[e] = ups0[e] /\ k[e] = k0[e]
        /\ d[PartPath(ups[e])] = d0[PartPath(ups0[e])]
    OBVIOUS
  <2>2. /\ ups0[e] \in Upload /\ session # 0
        /\ k0[e].sock = "open" /\ ~k0[e].complete
        /\ k0[e].address = sessions[session].address
        /\ ups0[e].row \in DOMAIN sessions[session].agreed
        /\ d0[PartPath(ups0[e])] = Received(session, ups0[e].row, ups0[e].received, TRUE)
    BY <2>1 DEF Reached
  <2>3. QED
    BY <2>1, <2>2
<1>2. ASSUME NEW e \in DOMAIN ups, NEW f \in DOMAIN ups, PartPath(ups[e]) = PartPath(ups[f])
      PROVE  e = f
  <2>1. e \in DOMAIN ups0 /\ f \in DOMAIN ups0 /\ ups[e] = ups0[e] /\ ups[f] = ups0[f]
    OBVIOUS
  <2>2. QED
    BY <1>2, <2>1 DEF Reached
<1>3. DOMAIN ups \subseteq Conn
  BY DEF Reached
<1>4. QED
  BY <1>1, <1>2, <1>3 DEF Reached

(* An upload c is put in or replaced, writing where no other does.         *)
LEMMA ReachedWith ==
    ASSUME NEW k, NEW ups0, NEW ups, NEW t, NEW d, NEW c \in Conn,
           Reached(k, ups0, t, d), c \notin DOMAIN ups0,
           DOMAIN ups = DOMAIN ups0 \cup {c},
           \A e \in DOMAIN ups0 : ups[e] = ups0[e] /\ PartPath(ups0[e]) # PartPath(ups[c]),
           ups[c] \in Upload, session # 0,
           k[c].sock = "open", ~k[c].complete, k[c].state # "headers",
           k[c].address = sessions[session].address,
           ups[c].row \in DOMAIN sessions[session].agreed,
           d[PartPath(ups[c])] = Received(session, ups[c].row, ups[c].received, TRUE)
    PROVE  Reached(k, ups, t, d)
<1>1. ASSUME NEW e \in DOMAIN ups
      PROVE  /\ ups[e] \in Upload /\ session # 0
             /\ k[e].sock = "open" /\ ~k[e].complete
             /\ k[e].address = sessions[session].address
             /\ ups[e].row \in DOMAIN sessions[session].agreed
             /\ d[PartPath(ups[e])] = Received(session, ups[e].row, ups[e].received, TRUE)
  <2>1. CASE e = c
    BY <2>1
  <2>2. CASE e # c
    <3>1. e \in DOMAIN ups0 /\ ups[e] = ups0[e]
      BY <2>2
    <3>2. QED
      BY <3>1 DEF Reached
  <2>3. QED
    BY <2>1, <2>2
<1>2. ASSUME NEW e \in DOMAIN ups, NEW f \in DOMAIN ups, PartPath(ups[e]) = PartPath(ups[f])
      PROVE  e = f
  <2>1. CASE e = c \/ f = c
    BY <1>2, <2>1
  <2>2. CASE e # c /\ f # c
    BY <1>2, <2>2 DEF Reached
  <2>3. QED
    BY <2>1, <2>2
<1>3. DOMAIN ups \subseteq Conn
      /\ \A e \in Conn : k[e].state = "headers" => ~k[e].complete /\ e \notin DOMAIN ups
  BY DEF Reached
<1>4. QED
  BY <1>1, <1>2, <1>3 DEF Reached

(* The variables a handler of uploads may set besides those.               *)
Aside == /\ listening' \in BOOLEAN /\ receiveEnabled' \in BOOLEAN
         /\ acked' \subseteq Nat \X Nat /\ boots' \in Seq(Nat)

(* Continue() re-establishes the invariant.                                *)
LEMMA ContinueOK ==
    ASSUME NEW alone \in BOOLEAN, Own(alone), NEW k, NEW ups, NEW t, NEW d, NEW timer \in {"off", "running", "due"},
           Reached(k, ups, t, d),
           t.state = transfer.state, Len(t.files) = Len(transfer.files),
           timer # "off" <=> session # 0,
           pending # NoConn => k[pending].sock # "free" /\ k[pending].complete,
           Continue(k, ups, t, d, timer), Aside
    PROVE  Own(alone)'
<1> USE DEF Continue, sessionVars, recordVars
<1>1. TypeOK'
  BY DEF Own, TypeOK, Reached, Aside
<1>2. Backed' /\ (alone => Shown)'
  BY DEF Own, TypeOK, Backed, Shown, SameCount
<1>3. UploadsBelong' /\ SingleWriter'
  BY DEF Own, UploadsBelong, SingleWriter, Reached, PartPath
<1>4. Current'
  BY DEF Own, Current, Reached
<1>5. QED
  BY <1>1, <1>2, <1>3, <1>4 DEF Own

(* Removing paths leaves a folder.                                         *)
LEMMA RemoveAllType ==
    ASSUME NEW d \in [Path -> Content], NEW paths
    PROVE  /\ RemoveAll(d, paths) \in [Path -> Content]
           /\ \A p \in Path : RemoveAll(d, paths)[p] = IF p \in paths THEN Absent ELSE d[p]
  BY DEF RemoveAll, Absent, Content

(* finishSession() re-establishes it too, whatever was in flight.          *)
LEMMA FinishOK ==
    ASSUME NEW alone \in BOOLEAN, Own(alone), NEW k, NEW ups, NEW t, NEW d, NEW cancelled \in BOOLEAN,
           Reached(k, ups, t, d), Len(t.files) = Len(transfer.files),
           session # 0 \/ pending # NoConn,
           finishSession(k, ups, t, d, cancelled), Aside
    PROVE  Own(alone)'
<1> DEFINE closed == CloseRows(t, ups)
<1>1. closed \in Transfer /\ Len(closed.files) = Len(transfer.files)
  BY CloseRowsType DEF Reached
<1>2. /\ conns' = [c \in Conn |-> IF c \in DOMAIN ups \/ c = pending
                                   THEN respond(k[c]) ELSE k[c]]
      /\ uploads' = NoUploads
      /\ disk' = RemoveAll(d, {PartPath(ups[c]) : c \in DOMAIN ups})
      /\ pending' = NoConn /\ acceptTimer' = FALSE /\ idleTimer' = "off"
      /\ session' = 0 /\ tokens' = {}
      /\ peer' = peer /\ sessions' = sessions
      /\ session = 0 => transfer' = setState(t, "cancelled") /\ UNCHANGED recordVars
      /\ session # 0 =>
             /\ transfer' = setState(closed, Outcome(closed, cancelled))
             /\ known' = known \cup (IF SomeDone(closed) THEN {peer} ELSE {})
             /\ history' = history \cup {<<session, r>> : r \in DoneRows(closed)}
  BY DEF finishSession
<1> HIDE DEF closed
<1>3. Outcome(closed, cancelled) \in {"cancelled", "finished", "failed"}
  BY DEF Outcome
<1>4. /\ transfer' \in Transfer /\ transfer'.state \in {"cancelled", "finished", "failed"}
      /\ Len(transfer'.files) = Len(transfer.files)
  <2>1. CASE session = 0
    BY <2>1, <1>2, SetStateType DEF Reached, TransferState
  <2>2. CASE session # 0
    BY <2>2, <1>1, <1>2, <1>3, SetStateType DEF TransferState
  <2>3. QED
    BY <2>1, <2>2
<1>5. conns' \in [Conn -> Connection]
  BY <1>2, ConnectionOps DEF Reached
<1>6. disk' \in [Path -> Content]
  BY <1>2, RemoveAllType DEF Reached
<1>7. known' \subseteq Peer /\ history' \subseteq Nat \X Nat
  <2>1. CASE session = 0
    BY <2>1, <1>2 DEF Own, TypeOK, recordVars
  <2>2. CASE session # 0
    <3>1. peer \in Peer /\ session \in Nat
      BY <2>2 DEF Own, Current, TypeOK
    <3>2. DoneRows(closed) \subseteq Nat
      BY <1>1 DEF DoneRows, Transfer
    <3>3. QED
      BY <2>2, <3>1, <3>2, <1>2 DEF Own, TypeOK
  <2>3. QED
    BY <2>1, <2>2
<1>8. DOMAIN uploads' = {}
  BY <1>2 DEF NoUploads
<1>9. TypeOK'
  <2>1. sessions' \in Seq(Session) /\ session' \in 0..Len(sessions')
    BY <1>2 DEF Own, TypeOK
  <2>2. peer' \in Peer \cup {NoPeer} /\ pending' \in Conn \cup {NoConn}
        /\ tokens' \subseteq FileId /\ acceptTimer' \in BOOLEAN
        /\ idleTimer' \in {"off", "running", "due"}
    BY <1>2 DEF Own, TypeOK
  <2>3. DOMAIN uploads' \subseteq Conn /\ \A c \in DOMAIN uploads' : uploads'[c] \in Upload
    BY <1>8
  <2>4. QED
    BY <2>1, <2>2, <2>3, <1>4, <1>5, <1>6, <1>7 DEF TypeOK, Aside
<1>10. Backed' /\ (alone => Shown)'
  BY <1>2, <1>4 DEF Own, Backed, Shown, SameCount
<1>11. UploadsBelong' /\ SingleWriter'
  BY <1>8 DEF UploadsBelong, SingleWriter
<1>12. Current'
  <2>1. \A c \in Conn : conns'[c].state = "headers" => ~conns'[c].complete
    BY <1>2, ConnectionOps DEF Reached
  <2>2. QED
    BY <2>1, <1>2, <1>4, <1>8 DEF Own, Current
<1>13. QED
  BY <1>9, <1>10, <1>11, <1>12 DEF Own

(* So does FinishIfSettled(), in a session.                                *)
LEMMA FinishIfSettledOK ==
    ASSUME NEW alone \in BOOLEAN, Own(alone), NEW k, NEW ups, NEW t, NEW d, NEW timer \in {"running", "due"},
           Reached(k, ups, t, d), session # 0,
           t.state = transfer.state, Len(t.files) = Len(transfer.files),
           FinishIfSettled(k, ups, t, d, timer), Aside
    PROVE  Own(alone)'
<1>1. pending = NoConn
  BY DEF Own, Backed
<1>2. CASE AllSettled(t)
  BY <1>2, FinishOK DEF FinishIfSettled
<1>3. CASE ~AllSettled(t)
  BY <1>1, <1>3, ContinueOK DEF FinishIfSettled
<1>4. QED
  BY <1>2, <1>3

-----------------------------------------------------------------------------
(* indexOfFile() finds a row when there is one.                            *)
LEMMA FirstRow ==
    ASSUME NEW t \in Transfer, NEW id, RowsOf(t, id) # {}
    PROVE  indexOfFile(t, id) \in DOMAIN t.files /\ t.files[indexOfFile(t, id)].id = id
<1>1. RowsOf(t, id) \in SUBSET Nat /\ RowsOf(t, id) \subseteq DOMAIN t.files
  BY DEF RowsOf, Transfer
<1>2. \E r \in RowsOf(t, id) : \A q \in RowsOf(t, id) : r <= q
  BY <1>1, LeastExists
<1>3. indexOfFile(t, id) \in RowsOf(t, id)
  BY <1>2 DEF indexOfFile
<1>4. QED
  BY <1>1, <1>3 DEF RowsOf

(* Final and part names are paths of the folder.                           *)
LEMMA PathsExist ==
    /\ FinalPath \subseteq Path
    /\ \A p \in FinalPath : PartOf[p] \in Path /\ PartOf[p] # p
<1>1. FinalPath \subseteq Path
  BY ReceiveAssumption DEF FinalPath
<1>2. QED
  BY <1>1, ReceiveAssumption

(* reserveFilePath() gives a name that is free together with its part.     *)
LEMMA ReservedIsFree ==
    ASSUME NEW name \in FileName, HasFreeName(name)
    PROVE  reserveFilePath(name) \in FinalPath /\ Free(reserveFilePath(name))
<1>1. Candidates[name] \in Seq(Path)
  BY ReceiveAssumption
<1>2. FreeSlots(name) \in SUBSET Nat /\ FreeSlots(name) # {}
  BY <1>1 DEF FreeSlots, HasFreeName
<1>3. \E i \in FreeSlots(name) : \A j \in FreeSlots(name) : i <= j
  BY <1>2, LeastExists
<1>4. PICK i \in FreeSlots(name) : reserveFilePath(name) = Candidates[name][i]
  BY <1>3 DEF reserveFilePath
<1>5. QED
  BY <1>4 DEF FreeSlots, FinalPath

-----------------------------------------------------------------------------
(* The steps, by the shape of what they change.                            *)

(* A connection changes and nothing else.                                  *)
LEMMA ConnectionStep ==
    ASSUME NEW alone \in BOOLEAN, Own(alone), NEW c \in Conn, NEW x \in Connection,
           conns' = [conns EXCEPT ![c] = x], UNCHANGED otherVars,
           x.state = "headers" => ~x.complete /\ c \notin DOMAIN uploads,
           c = pending => x.sock # "free" /\ x.complete,
           c \in DOMAIN uploads => /\ x.sock = "open" /\ ~x.complete
                                  /\ x.address = conns[c].address
    PROVE  Own(alone)'
<1> DEFINE k == [conns EXCEPT ![c] = x]
<1>1. conns \in [Conn -> Connection]
  BY DEF Own, TypeOK
<1>2. k \in [Conn -> Connection] /\ k[c] = x /\ \A e \in Conn \ {c} : k[e] = conns[e]
  BY <1>1
<1>3. conns' = k
  OBVIOUS
<1> HIDE DEF k
<1>4. Reached(k, uploads, transfer, disk)
  BY <1>2, ReachedAtFirst DEF Reached
<1>5. pending # NoConn => k[pending].sock # "free" /\ k[pending].complete
  BY <1>2 DEF Own, TypeOK, Backed
<1>6. Continue(k, uploads, transfer, disk, idleTimer) /\ Aside
  BY <1>3 DEF Continue, Aside, Own, TypeOK, otherVars, sessionVars, timerVars, serverVars,
              recordVars, obsVars
<1>7. idleTimer \in {"off", "running", "due"} /\ (idleTimer # "off" <=> session # 0)
  BY DEF Own, TypeOK, Backed
<1>8. QED
  BY <1>4, <1>5, <1>6, <1>7, ContinueOK

(* Requests that leave nothing behind, tails, and new connections.         *)
LEMMA PassingSteps ==
    ASSUME NEW alone \in BOOLEAN, Own(alone), NEW c \in Conn,
           \/ \E a \in Address : Connect(c, a)
           \/ AnsweredAtOnce(c) \/ RefusedAtHead(c) \/ TailBytes(c) \/ DrainQuiet(c)
           \/ conns[c].state # "responded" /\ conns[c].sock = "open"
              /\ conns' = [conns EXCEPT ![c] = respond(@)] /\ UNCHANGED otherVars
    PROVE  Own(alone)'
<1> DEFINE x == conns[c]
<1>1. x \in Connection
  BY DEF Own, TypeOK
<1>2. c = pending => x.sock # "free" /\ x.complete
  BY ReceiveAssumption DEF Own, Backed
<1>3. c \in DOMAIN uploads => x.sock = "open" /\ ~x.complete
  BY DEF Own, UploadsBelong
<1>4. x.state = "headers" => ~x.complete /\ c \notin DOMAIN uploads
  BY DEF Own, Current
<1>5. ASSUME NEW a \in Address, Connect(c, a) PROVE Own(alone)'
  <2>1. NewConnection(a) \in Connection /\ ~NewConnection(a).complete
    BY ConnectionValues
  <2>2. c # pending /\ c \notin DOMAIN uploads
    BY <1>5, <1>2, <1>3 DEF Connect
  <2>3. QED
    BY <1>5, <2>1, <2>2, ConnectionStep DEF Connect
<1>6. CASE AnsweredAtOnce(c)
  <2>1. respond(finishBody(x)) \in Connection /\ respond(finishBody(x)).state = "responded"
        /\ respond(finishBody(x)).complete /\ x.sock = "open"
        /\ respond(finishBody(x)).sock # "free"
    BY <1>6, <1>1, ConnectionOps DEF AnsweredAtOnce, Reading
  <2>2. c \notin DOMAIN uploads
    BY <1>6, <1>4 DEF AnsweredAtOnce, Reading
  <2>3. QED
    BY <1>6, <2>1, <2>2, ConnectionStep DEF AnsweredAtOnce
<1>7. CASE RefusedAtHead(c)
  <2>1. respond(headersReady(x)) \in Connection /\ respond(headersReady(x)).state = "responded"
        /\ respond(headersReady(x)).complete = x.complete /\ x.sock = "open"
        /\ respond(headersReady(x)).sock # "free"
    BY <1>7, <1>1, ConnectionOps DEF RefusedAtHead, Reading
  <2>2. c \notin DOMAIN uploads
    BY <1>7, <1>4 DEF RefusedAtHead, Reading
  <2>3. QED
    BY <1>7, <1>2, <2>1, <2>2, ConnectionStep DEF RefusedAtHead
<1>8. CASE TailBytes(c)
  <2>1. discardTail(x) \in Connection /\ discardTail(x).state = x.state
        /\ discardTail(x).complete = x.complete /\ discardTail(x).sock = x.sock
        /\ discardTail(x).address = x.address
    BY <1>1, ConnectionOps
  <2>2. QED
    BY <1>8, <1>2, <1>3, <1>4, <2>1, ConnectionStep DEF TailBytes
<1>9. CASE conns[c].state # "responded" /\ conns[c].sock = "open"
           /\ conns' = [conns EXCEPT ![c] = respond(@)] /\ UNCHANGED otherVars
  <2>1. respond(x) \in Connection /\ respond(x).state = "responded"
        /\ respond(x).complete = x.complete /\ (x.sock # "free" => respond(x).sock # "free")
        /\ (~x.complete => respond(x).sock = x.sock) /\ respond(x).address = x.address
    BY <1>1, ConnectionOps
  <2>2. QED
    BY <1>9, <1>2, <1>3, <2>1, ConnectionStep
<1>10. CASE DrainQuiet(c)
  <2>1. Spend(x) \in Connection /\ Spend(x).state = x.state /\ Spend(x).sock = x.sock
        /\ Spend(x).complete = x.complete /\ Spend(x).address = x.address
    BY <1>1, ConnectionOps
  <2>2. QED
    BY <1>10, <1>2, <1>3, <1>4, <2>1, ConnectionStep DEF DrainQuiet
<1>11. QED
  BY <1>5, <1>6, <1>7, <1>8, <1>9, <1>10

(* The prompt is put away, by whoever it is.                               *)
LEMMA PromptGone ==
    ASSUME NEW alone \in BOOLEAN, Own(alone), pending # NoConn,
           NEW k \in [Conn -> Connection],
           \A c \in Conn : k[c].state = "headers" => ~k[c].complete,
           NEW s \in TransferState \ {"pending", "active"},
           conns' = k, pending' = NoConn, acceptTimer' = FALSE,
           transfer' = setState(transfer, s),
           UNCHANGED <<uploads, sessionVars, idleTimer, disk, recordVars>>, Aside
    PROVE  Own(alone)'
<1> USE DEF sessionVars, recordVars
<1>1. session = 0 /\ DOMAIN uploads = {}
  BY DEF Own, Backed, UploadsBelong
<1>2. transfer' \in Transfer /\ transfer'.state = s /\ transfer'.files = transfer.files
  BY SetStateType DEF Own, TypeOK
<1>3. TypeOK'
  BY <1>2 DEF Own, TypeOK, Aside
<1>4. Backed' /\ (alone => Shown)'
  BY <1>1, <1>2 DEF Own, Backed, Shown, SameCount
<1>5. UploadsBelong' /\ SingleWriter'
  BY <1>1 DEF UploadsBelong, SingleWriter
<1>6. Current'
  BY <1>1, <1>2 DEF Own, Current
<1>7. QED
  BY <1>3, <1>4, <1>5, <1>6 DEF Own

LEMMA DecisionSteps ==
    ASSUME NEW alone \in BOOLEAN, Own(alone), Decline \/ onAcceptTimeout
    PROVE  Own(alone)'
<1> DEFINE k == [conns EXCEPT ![pending] = respond(@)]
<1>1. pending \in Conn /\ conns \in [Conn -> Connection]
      /\ \A c \in Conn : conns[c].state = "headers" => ~conns[c].complete
  BY DEF Decline, onAcceptTimeout, Own, TypeOK, Current
<1>2. k \in [Conn -> Connection] /\ \A c \in Conn : k[c].state = "headers" => ~k[c].complete
  BY <1>1, ConnectionOps
<1>3. /\ conns' = k /\ pending' = NoConn /\ acceptTimer' = FALSE /\ pending # NoConn
      /\ transfer' = setState(transfer, "idle")
      /\ UNCHANGED <<uploads, sessionVars, idleTimer, disk, recordVars>> /\ Aside
  BY DEF Decline, onAcceptTimeout, PutAway, Aside, Own, TypeOK, serverVars, obsVars
<1> HIDE DEF k
<1>4. QED
  BY <1>2, <1>3, PromptGone DEF TransferState

(* A connection is replaced by a free slot: the prompt goes with it, or    *)
(* the upload, or neither.                                                 *)
LEMMA DisconnectedStep ==
    ASSUME NEW alone \in BOOLEAN, Own(alone), NEW c \in Conn, Disconnected(c)
    PROVE  Own(alone)'
<1> DEFINE k == [conns EXCEPT ![c] = NoConnection]
           ups == Without(uploads, c)
           t == setFileStatus(transfer, uploads[c].row, "failed")
           d == RemoveAll(disk, {PartPath(uploads[c])})
<1>1. k \in [Conn -> Connection] /\ k[c] = NoConnection
      /\ \A e \in Conn \ {c} : k[e] = conns[e]
  BY ConnectionValues DEF Own, TypeOK
<1>2. \A e \in Conn : k[e].state = "headers" => ~k[e].complete /\ (e = c \/ e \notin DOMAIN uploads)
  BY <1>1, ConnectionValues DEF Own, Current
<1>3. Aside
  BY DEF Disconnected, Aside, Own, TypeOK, serverVars, obsVars
<1>4. CASE /\ c = pending
           /\ conns' = k /\ pending' = NoConn /\ acceptTimer' = FALSE
           /\ transfer' = IF session = 0 THEN setState(transfer, "idle") ELSE transfer
           /\ UNCHANGED <<uploads, sessionVars, idleTimer, disk, recordVars>>
  <2> HIDE DEF k
  <2>1. pending # NoConn /\ session = 0
    BY <1>4, ReceiveAssumption DEF Own, Backed
  <2>2. /\ conns' = k /\ pending' = NoConn /\ acceptTimer' = FALSE
        /\ transfer' = setState(transfer, "idle")
        /\ UNCHANGED <<uploads, sessionVars, idleTimer, disk, recordVars>>
    BY <1>4, <2>1
  <2>3. k \in [Conn -> Connection] /\ \A e \in Conn : k[e].state = "headers" => ~k[e].complete
    BY <1>1, <1>2
  <2>4. "idle" \in TransferState \ {"pending", "active"}
    BY DEF TransferState
  <2>5. QED
    BY <1>3, <2>1, <2>2, <2>3, <2>4, PromptGone
<1>5. CASE /\ c \in DOMAIN uploads
           /\ FinishIfSettled(k, ups, t, d, idleTimer)
  <2>1. Reached(conns, uploads, transfer, disk)
    BY ReachedAtFirst
  <2>2. session # 0 /\ transfer \in Transfer
    BY <1>5 DEF Own, TypeOK, UploadsBelong
  <2>3. t \in Transfer /\ t.state = transfer.state /\ Len(t.files) = Len(transfer.files)
        /\ DOMAIN t.files = DOMAIN transfer.files
    BY <2>2, StatusType DEF FileStatus
  <2>4. d \in [Path -> Content] /\ \A p \in Path : p # PartPath(uploads[c]) => d[p] = disk[p]
    BY RemoveAllType DEF Own, TypeOK
  <2>5. DOMAIN ups = DOMAIN uploads \ {c} /\ \A e \in DOMAIN ups : ups[e] = uploads[e]
    BY DEF Without
  <2>6. \A e \in DOMAIN uploads : PartPath(uploads[e]) \in Path
    BY <2>1, PathsExist DEF Reached, PartPath, Upload
  <2>7. idleTimer \in {"running", "due"}
    BY <2>2 DEF Own, TypeOK, Backed
  <2> HIDE DEF k, ups, t, d
  <2>8. Reached(k, ups, t, d)
    <3>1. \A e \in DOMAIN ups :
             /\ ups[e] = uploads[e] /\ k[e] = conns[e]
             /\ d[PartPath(ups[e])] = disk[PartPath(uploads[e])]
      BY <1>5, <1>1, <2>1, <2>4, <2>5, <2>6 DEF Reached
    <3>2. \A e \in Conn : k[e].state = "headers" => ~k[e].complete /\ e \notin DOMAIN ups
      BY <1>2, <2>5
    <3>3. QED
      BY <3>1, <3>2, <1>1, <2>1, <2>3, <2>4, <2>5, ReachedKept
  <2>9. QED
    BY <1>3, <1>5, <2>2, <2>3, <2>7, <2>8, FinishIfSettledOK
<1>6. CASE /\ c # pending /\ c \notin DOMAIN uploads
           /\ Continue(k, uploads, transfer, disk, idleTimer)
  <2> HIDE DEF k
  <2>1. Reached(k, uploads, transfer, disk)
    BY <1>1, <1>2, <1>6, ReachedAtFirst DEF Reached
  <2>2. pending # NoConn => k[pending].sock # "free" /\ k[pending].complete
    BY <1>1, <1>6 DEF Own, TypeOK, Backed
  <2>3. idleTimer \in {"off", "running", "due"} /\ (idleTimer # "off" <=> session # 0)
    BY DEF Own, TypeOK, Backed
  <2>4. QED
    BY <1>3, <1>6, <2>1, <2>2, <2>3, ContinueOK
<1>7. QED
  BY <1>4, <1>5, <1>6 DEF Disconnected

-----------------------------------------------------------------------------
(* handleUploadFinished(), for an upload u that is no longer in the table. *)
LEMMA UploadFinishedOK ==
    ASSUME NEW alone \in BOOLEAN, Own(alone), NEW c \in Conn, NEW u \in Upload, NEW ups, NEW t, NEW d,
           NEW intact \in BOOLEAN,
           Reached(conns, ups, t, d), c \notin DOMAIN ups, session # 0,
           t.state = transfer.state, Len(t.files) = Len(transfer.files),
           \A e \in DOMAIN ups : PartPath(ups[e]) # PartPath(u),
           handleUploadFinished(c, u, ups, t, d, intact), UNCHANGED <<serverVars, boots>>
    PROVE  Own(alone)'
<1> DEFINE part == PartPath(u)
           place == Place(d, u)
           k == [conns EXCEPT ![c] = respond(finishBody(@))]
           tl == setFileLocalPath(t, u.row, place)
           td == setFileStatus(tl, u.row, "done")
           tf == setFileStatus(t, u.row, "failed")
           dr == RemoveAll(d, {part})
           dk == [dr EXCEPT ![place] = Received(session, u.row, u.received, intact)]
<1>1. /\ t \in Transfer /\ d \in [Path -> Content] /\ conns \in [Conn -> Connection]
      /\ session \in Nat /\ u.row \in Nat /\ u.received \in Nat
  BY DEF Reached, Own, TypeOK, Upload
<1>2. k \in [Conn -> Connection] /\ \A e \in Conn \ {c} : k[e] = conns[e]
  BY <1>1, ConnectionOps
<1>3. \A e \in Conn : k[e].state = "headers" => ~k[e].complete /\ e \notin DOMAIN ups
  BY <1>1, <1>2, ConnectionOps DEF Reached
<1>4. part \in Path /\ u.final \in Path
  BY PathsExist DEF PartPath, Upload
<1>5. place \in Path /\ \A e \in DOMAIN ups : PartPath(ups[e]) # place
  <2>1. ASSUME NEW e \in DOMAIN ups PROVE d[PartPath(ups[e])].kind = "received"
    <3>1. d[PartPath(ups[e])] = Received(session, ups[e].row, ups[e].received, TRUE)
      BY DEF Reached
    <3>2. QED
      BY <3>1 DEF Received
  <2>2. CASE d[u.final].kind = "absent"
    BY <2>1, <2>2, <1>4 DEF Place
  <2>3. CASE d[u.final].kind # "absent"
    BY <2>3, <1>4 DEF Place
  <2>4. QED
    BY <2>2, <2>3
<1>6. tf \in Transfer /\ tf.state = transfer.state /\ Len(tf.files) = Len(transfer.files)
      /\ DOMAIN tf.files = DOMAIN t.files
  BY <1>1, StatusType DEF FileStatus
<1>7. td \in Transfer /\ td.state = transfer.state /\ Len(td.files) = Len(transfer.files)
      /\ DOMAIN td.files = DOMAIN t.files
  <2>1. tl \in Transfer /\ tl.state = t.state /\ Len(tl.files) = Len(t.files)
        /\ DOMAIN tl.files = DOMAIN t.files
    BY <1>1, <1>5, LocalPathType
  <2>2. QED
    BY <2>1, StatusType DEF FileStatus
<1>8. dr \in [Path -> Content] /\ \A p \in Path \ {part} : dr[p] = d[p]
  BY <1>1, RemoveAllType
<1>9. dk \in [Path -> Content] /\ \A p \in Path \ {part, place} : dk[p] = d[p]
  <2>1. Received(session, u.row, u.received, intact) \in Content
    BY <1>1 DEF Received, Content
  <2>2. QED
    BY <2>1, <1>5, <1>8
<1>10. \A e \in DOMAIN ups : PartPath(ups[e]) \in Path /\ e \in Conn /\ e # c
  BY PathsExist DEF Reached, PartPath, Upload
<1>11. Aside
  <2>1. acked' \subseteq Nat \X Nat
    BY <1>1 DEF handleUploadFinished, Own, TypeOK
  <2>2. QED
    BY <2>1 DEF Aside, Own, TypeOK, serverVars
<1>12. \/ FinishIfSettled(k, ups, td, dk, "running")
       \/ FinishIfSettled(k, ups, tf, dr, "running")
  BY DEF handleUploadFinished
<1> HIDE DEF part, place, k, tl, td, tf, dr, dk
<1>13. Reached(k, ups, td, dk)
  <2>1. \A e \in DOMAIN ups :
           k[e] = conns[e] /\ dk[PartPath(ups[e])] = d[PartPath(ups[e])]
    BY <1>2, <1>5, <1>9, <1>10 DEF part
  <2>2. QED
    BY <2>1, <1>2, <1>3, <1>7, <1>9, ReachedKept, SMTT(30)
<1>14. Reached(k, ups, tf, dr)
  <2>1. \A e \in DOMAIN ups :
           k[e] = conns[e] /\ dr[PartPath(ups[e])] = d[PartPath(ups[e])]
    BY <1>2, <1>8, <1>10 DEF part
  <2>2. QED
    BY <2>1, <1>2, <1>3, <1>6, <1>8, ReachedKept, SMTT(30)
<1>15. QED
  BY <1>6, <1>7, <1>11, <1>12, <1>13, <1>14, FinishIfSettledOK

(* handleUploadHeaders() that opens a part file.                           *)
LEMMA UploadHeadersStep ==
    ASSUME NEW alone \in BOOLEAN, Own(alone), TokensLead, NEW c \in Conn, NEW s, NEW id,
           NEW length \in Lengths,
           handleUploadHeaders(c, s, id, length)
    PROVE  Own(alone)'
<1> DEFINE row == indexOfFile(transfer, id)
           file == transfer.files[row]
           u == [row |-> row, final |-> reserveFilePath(file.name),
                 length |-> length, limit |-> file.size, received |-> 0]
           t == setFileStatus(transfer, row, "transferring")
           d == [disk EXCEPT ![PartPath(u)] = Received(session, row, 0, TRUE)]
           k == [conns EXCEPT ![c] = headersReady(@)]
           kr == [k EXCEPT ![c] = respond(@)]
           ups == With(uploads, c, u)
<1>1. /\ Reading(c) /\ session # 0 /\ conns[c].address = sessions[session].address
      /\ RowsOf(transfer, id) # {} /\ HasFreeName(file.name)
  BY DEF handleUploadHeaders, Admitted
<1>2. transfer \in Transfer /\ disk \in [Path -> Content] /\ conns \in [Conn -> Connection]
      /\ session \in Nat
  BY DEF Own, TypeOK
<1>3. row \in DOMAIN transfer.files /\ row \in Nat /\ row \in DOMAIN sessions[session].agreed
  <2>1. transfer.files \in Seq(FileEntry)
    BY <1>2 DEF Transfer
  <2>2. row \in DOMAIN transfer.files /\ row \in Nat /\ transfer.files[row].id = id
    BY <2>1, <1>1, <1>2, FirstRow
  <2>3. id \in tokens
    BY DEF handleUploadHeaders, Admitted
  <2> HIDE DEF row
  <2>4. QED
    BY <2>2, <2>3, <1>1 DEF TokensLead
<1>4. file.name \in FileName /\ file.size \in 0..MaxSize
  <2> HIDE DEF row
  <2>1. transfer.files \in Seq(FileEntry)
    BY <1>2 DEF Transfer
  <2>2. file \in FileEntry
    BY <2>1, <1>3, RowsAreSeq
  <2>3. QED
    BY <2>2 DEF FileEntry
<1>5. reserveFilePath(file.name) \in FinalPath /\ Free(reserveFilePath(file.name))
  BY <1>1, <1>4, ReservedIsFree
<1> HIDE DEF row, file
<1>6. u \in Upload /\ u.row = row /\ u.received = 0 /\ u.final = reserveFilePath(file.name)
  BY <1>3, <1>4, <1>5, ReceiveAssumption DEF Upload
<1>7. PartPath(u) \in Path /\ disk[PartPath(u)].kind = "absent"
  BY <1>5, <1>6, PathsExist DEF Free, PartPath
<1>8. \A e \in DOMAIN uploads : PartPath(uploads[e]) \in Path /\ PartPath(uploads[e]) # PartPath(u)
  <2> TAKE e \in DOMAIN uploads
  <2>1. disk[PartPath(uploads[e])] =
            Received(session, uploads[e].row, uploads[e].received, TRUE)
    BY DEF Own, UploadsBelong
  <2>2. disk[PartPath(uploads[e])].kind = "received"
    BY <2>1 DEF Received
  <2>3. uploads[e].final \in FinalPath
    BY DEF Own, TypeOK, Upload
  <2>4. QED
    BY <2>2, <2>3, <1>7, PathsExist DEF PartPath
<1>9. t \in Transfer /\ t.state = transfer.state /\ Len(t.files) = Len(transfer.files)
      /\ DOMAIN t.files = DOMAIN transfer.files
  BY <1>2, <1>3, StatusType DEF FileStatus
<1>10. /\ d \in [Path -> Content] /\ d[PartPath(u)] = Received(session, row, 0, TRUE)
       /\ \A p \in Path \ {PartPath(u)} : d[p] = disk[p]
  <2>1. Received(session, row, 0, TRUE) \in Content
    BY <1>2, <1>3 DEF Received, Content
  <2> HIDE DEF u
  <2>2. QED
    BY <2>1, <1>2, <1>7
<1>11. /\ conns[c].sock = "open" /\ ~conns[c].complete /\ c \notin DOMAIN uploads
       /\ conns[c] \in Connection
  BY <1>1, <1>2 DEF Own, Current, Reading
<1>12. /\ k \in [Conn -> Connection] /\ \A e \in Conn \ {c} : k[e] = conns[e]
       /\ k[c].sock = "open" /\ ~k[c].complete /\ k[c].state = "body"
       /\ k[c].address = sessions[session].address
  BY <1>1, <1>2, <1>11, ConnectionOps
<1>13. /\ kr \in [Conn -> Connection] /\ \A e \in Conn \ {c} : kr[e] = conns[e]
       /\ kr[c].sock = "open" /\ ~kr[c].complete /\ kr[c].state = "responded"
       /\ kr[c].address = sessions[session].address
  <2> HIDE DEF k
  <2>1. k[c] \in Connection
    BY <1>12
  <2>2. QED
    BY <2>1, <1>12, ConnectionOps
<1>14. /\ DOMAIN ups = DOMAIN uploads \cup {c} /\ ups[c] = u
       /\ \A e \in DOMAIN uploads : ups[e] = uploads[e]
  BY <1>11 DEF With
<1>15. /\ \/ Continue(kr, ups, t, d, "running") /\ UNCHANGED acked
          \/ \E intact \in BOOLEAN : handleUploadFinished(c, u, uploads, t, d, intact)
          \/ Continue(k, ups, t, d, "running") /\ UNCHANGED acked
       /\ UNCHANGED <<serverVars, boots>>
  BY DEF handleUploadHeaders, row, file
<1>16. pending = NoConn
  BY <1>1 DEF Own, Backed
<1> HIDE DEF u, t, d, k, kr, ups
<1>17. ASSUME NEW x \in [Conn -> Connection],
              \A e \in Conn \ {c} : x[e] = conns[e], ~x[c].complete
       PROVE  Reached(x, uploads, t, d)
  <2>1. \A e \in DOMAIN uploads : x[e] = conns[e]
                /\ d[PartPath(uploads[e])] = disk[PartPath(uploads[e])]
    BY <1>8, <1>10, <1>11, <1>17 DEF Own, TypeOK
  <2>2. \A e \in Conn : x[e].state = "headers" => ~x[e].complete /\ e \notin DOMAIN uploads
    BY <1>11, <1>17 DEF Own, Current
  <2>3. QED
    BY <2>1, <2>2, <1>9, <1>10, <1>17, ReachedAtFirst, ReachedKept
<1>18. ASSUME NEW x \in [Conn -> Connection],
              \A e \in Conn \ {c} : x[e] = conns[e],
              x[c].sock = "open", ~x[c].complete, x[c].state # "headers",
              x[c].address = sessions[session].address
       PROVE  Reached(x, ups, t, d)
  <2>1. Reached(x, uploads, t, d)
    BY <1>17, <1>18
  <2>2. \A e \in DOMAIN uploads : ups[e] = uploads[e] /\ PartPath(uploads[e]) # PartPath(ups[c])
    BY <1>8, <1>14
  <2>3. /\ ups[c] \in Upload /\ ups[c].row \in DOMAIN sessions[session].agreed
        /\ d[PartPath(ups[c])] = Received(session, ups[c].row, ups[c].received, TRUE)
    BY <1>3, <1>6, <1>9, <1>10, <1>14
  <2>4. QED
    BY <2>1, <2>2, <2>3, <1>1, <1>11, <1>14, <1>18, ReachedWith
<1>19. ASSUME NEW x, Reached(x, ups, t, d), Continue(x, ups, t, d, "running"), UNCHANGED acked
       PROVE  Own(alone)'
  <2>1. Aside
    BY <1>15, <1>19 DEF Aside, Own, TypeOK, serverVars
  <2>2. QED
    BY <2>1, <1>1, <1>9, <1>16, <1>19, ContinueOK
<1>20. CASE Continue(kr, ups, t, d, "running") /\ UNCHANGED acked
  BY <1>13, <1>18, <1>19, <1>20
<1>21. CASE \E intact \in BOOLEAN : handleUploadFinished(c, u, uploads, t, d, intact)
  <2>1. PICK intact \in BOOLEAN : handleUploadFinished(c, u, uploads, t, d, intact)
    BY <1>21
  <2>2. Reached(conns, uploads, t, d)
    BY <1>2, <1>11, <1>17
  <2>3. QED
    BY <2>1, <2>2, <1>1, <1>6, <1>8, <1>9, <1>11, <1>15, UploadFinishedOK
<1>22. CASE Continue(k, ups, t, d, "running") /\ UNCHANGED acked
  BY <1>12, <1>18, <1>19, <1>22
<1>23. QED
  BY <1>15, <1>20, <1>21, <1>22

(* An upload out of the table leaves the others as they were.              *)
LEMMA ReachedWithout ==
    ASSUME NEW k, NEW ups, NEW t, NEW d, Reached(k, ups, t, d), NEW c \in DOMAIN ups
    PROVE  /\ Reached(k, Without(ups, c), t, d)
           /\ c \notin DOMAIN Without(ups, c)
           /\ \A e \in DOMAIN Without(ups, c) :
                 Without(ups, c)[e] = ups[e] /\ PartPath(ups[e]) # PartPath(ups[c])
<1> DEFINE w == Without(ups, c)
<1>1. DOMAIN w = DOMAIN ups \ {c} /\ \A e \in DOMAIN w : w[e] = ups[e]
  BY DEF Without
<1> HIDE DEF w
<1>2. \A e \in DOMAIN w : PartPath(ups[e]) # PartPath(ups[c])
  BY <1>1 DEF Reached
<1>3. \A e \in Conn : k[e].state = "headers" => ~k[e].complete /\ e \notin DOMAIN w
  BY <1>1 DEF Reached
<1>4. k \in [Conn -> Connection] /\ t \in Transfer /\ d \in [Path -> Content]
  BY DEF Reached
<1>5. \A e \in DOMAIN w : w[e] = ups[e] /\ k[e] = k[e] /\ d[PartPath(w[e])] = d[PartPath(ups[e])]
  BY <1>1
<1>6. Reached(k, w, t, d)
  BY <1>1, <1>3, <1>4, <1>5, ReachedKept
<1>7. QED
  BY <1>1, <1>2, <1>6 DEF w

LEMMA UploadEndStep ==
    ASSUME NEW alone \in BOOLEAN, Own(alone), NEW c \in Conn, UploadEnd(c)
    PROVE  Own(alone)'
<1> DEFINE ups == Without(uploads, c)
<1>1. c \in DOMAIN uploads /\ Reached(conns, uploads, transfer, disk)
  BY ReachedAtFirst DEF UploadEnd, Streaming
<1>2. /\ Reached(conns, ups, transfer, disk) /\ c \notin DOMAIN ups
      /\ \A e \in DOMAIN ups : PartPath(ups[e]) # PartPath(uploads[c])
  BY <1>1, ReachedWithout
<1>3. uploads[c] \in Upload /\ session # 0
  BY <1>1 DEF Reached
<1>4. PICK intact \in BOOLEAN :
          handleUploadFinished(c, uploads[c], ups, transfer, disk, intact)
  BY DEF UploadEnd
<1>5. UNCHANGED <<serverVars, boots>>
  BY DEF UploadEnd
<1> HIDE DEF ups
<1>6. QED
  BY <1>2, <1>3, <1>4, <1>5, UploadFinishedOK

LEMMA UploadBlockStep ==
    ASSUME NEW alone \in BOOLEAN, Own(alone), NEW c \in Conn, UploadBlock(c)
    PROVE  Own(alone)'
<1> DEFINE v == uploads[c]
           u == [v EXCEPT !.received = @ + 1]
           t == setFileTransferred(transfer, u.row, u.received)
           d == [disk EXCEPT ![PartPath(u)] = Grown(@, u.received)]
           kr == [conns EXCEPT ![c] = respond(@)]
           rest == Without(uploads, c)
           ups == [uploads EXCEPT ![c] = u]
<1>1. c \in DOMAIN uploads /\ Reached(conns, uploads, transfer, disk) /\ UNCHANGED <<serverVars, boots>>
  BY ReachedAtFirst DEF UploadBlock, Streaming
<1>2. /\ v \in Upload /\ v.row \in DOMAIN sessions[session].agreed /\ session # 0
      /\ conns[c].sock = "open" /\ ~conns[c].complete
      /\ conns[c].address = sessions[session].address
      /\ disk[PartPath(v)] = Received(session, v.row, v.received, TRUE)
  BY <1>1 DEF Reached
<1>3. transfer \in Transfer /\ disk \in [Path -> Content] /\ conns \in [Conn -> Connection]
      /\ conns[c] \in Connection /\ session \in Nat /\ conns[c].state # "headers"
  BY <1>1 DEF Own, TypeOK, Current
<1>4. pending = NoConn /\ idleTimer \in {"running", "due"}
  BY <1>2 DEF Own, TypeOK, Backed, Shown, SameCount
<1> HIDE DEF v
<1>5. u \in Upload /\ u.row = v.row /\ u.received = v.received + 1 /\ u.final = v.final
      /\ u.received \in Nat /\ u.limit \in 0..MaxSize
  BY <1>2 DEF Upload
<1> HIDE DEF u
<1>6. PartPath(u) = PartPath(v) /\ PartPath(u) \in Path
  BY <1>5, PathsExist DEF PartPath, Upload
<1>7. v.row \in Nat
  BY <1>2 DEF Upload
<1>8. /\ d \in [Path -> Content] /\ \A p \in Path \ {PartPath(u)} : d[p] = disk[p]
      /\ d[PartPath(u)] = Received(session, u.row, u.received, TRUE)
  <2>1. d[PartPath(u)] = Grown(disk[PartPath(u)], u.received)
    BY <1>3, <1>6
  <2>2. Grown(disk[PartPath(u)], u.received) = Received(session, u.row, u.received, TRUE)
    <3>1. disk[PartPath(u)] = Received(session, u.row, v.received, TRUE)
      BY <1>2, <1>5, <1>6
    <3>2. disk[PartPath(u)].session = session /\ disk[PartPath(u)].row = u.row
          /\ disk[PartPath(u)].intact = TRUE
      BY <3>1 DEF Received
    <3>3. QED
      BY <3>2 DEF Grown
  <2>3. Received(session, u.row, u.received, TRUE) \in Content
    BY <1>3, <1>5, <1>7 DEF Received, Content
  <2>4. QED
    BY <2>1, <2>2, <2>3, <1>3, <1>6
<1>9. /\ Reached(conns, rest, transfer, disk) /\ c \notin DOMAIN rest
      /\ \A e \in DOMAIN rest : rest[e] = uploads[e] /\ PartPath(rest[e]) # PartPath(u)
  BY <1>1, <1>6, ReachedWithout DEF v
<1>10. ASSUME WithinCeiling(u)
       PROVE  /\ t \in Transfer /\ t.state = transfer.state
              /\ Len(t.files) = Len(transfer.files) /\ DOMAIN t.files = DOMAIN transfer.files
  <2>1. u.received \in 0..MaxSize
    BY <1>5, <1>10, TransferAssumption DEF WithinCeiling
  <2>2. QED
    BY <2>1, <1>2, <1>3, <1>5, TransferredType
<1>11. DOMAIN rest = DOMAIN uploads \ {c}
  BY DEF Without
<1>12. DOMAIN ups = DOMAIN rest \cup {c} /\ ups[c] = u /\ \A e \in DOMAIN rest : ups[e] = rest[e]
  BY <1>1, <1>9, <1>11
<1>13. \/ WithinCeiling(u) /\ Continue(conns, ups, t, d, "running") /\ UNCHANGED acked
       \/ WithinCeiling(u) /\ \E intact \in BOOLEAN : handleUploadFinished(c, u, rest, t, d, intact)
       \/ Continue(kr, uploads, transfer, disk, idleTimer) /\ UNCHANGED acked
  BY DEF UploadBlock, u, v
<1> HIDE DEF t, d, rest, ups
<1>14. ASSUME WithinCeiling(u) PROVE Reached(conns, rest, t, d)
  <2>1. \A e \in DOMAIN rest : d[PartPath(rest[e])] = disk[PartPath(rest[e])]
    <3> TAKE e \in DOMAIN rest
    <3>1. rest[e] \in Upload
      BY <1>9 DEF Reached
    <3>2. PartPath(rest[e]) \in Path
      BY <3>1, PathsExist DEF PartPath, Upload
    <3>3. QED
      BY <3>2, <1>8, <1>9
  <2>2. \A e \in Conn : conns[e].state = "headers" => ~conns[e].complete /\ e \notin DOMAIN rest
    BY <1>9 DEF Reached
  <2>3. QED
    BY <2>1, <2>2, <1>3, <1>8, <1>9, <1>10, <1>14, ReachedKept
<1>15. CASE WithinCeiling(u) /\ Continue(conns, ups, t, d, "running") /\ UNCHANGED acked
  <2>1. ups[c].row \in DOMAIN sessions[session].agreed /\ ups[c] \in Upload
        /\ d[PartPath(ups[c])] = Received(session, ups[c].row, ups[c].received, TRUE)
    BY <1>2, <1>5, <1>8, <1>10, <1>12, <1>15
  <2>2. \A e \in DOMAIN rest : ups[e] = rest[e] /\ PartPath(rest[e]) # PartPath(ups[c])
    BY <1>9, <1>12
  <2>3. Reached(conns, ups, t, d)
    BY <2>1, <2>2, <1>2, <1>3, <1>9, <1>12, <1>14, <1>15, ReachedWith
  <2>4. Aside
    BY <1>1, <1>15 DEF Aside, Own, TypeOK, serverVars
  <2>5. QED
    BY <2>3, <2>4, <1>2, <1>4, <1>10, <1>15, ContinueOK
<1>16. CASE WithinCeiling(u) /\ \E intact \in BOOLEAN : handleUploadFinished(c, u, rest, t, d, intact)
  <2>1. PICK intact \in BOOLEAN : handleUploadFinished(c, u, rest, t, d, intact)
    BY <1>16
  <2>2. t.state = transfer.state /\ Len(t.files) = Len(transfer.files)
    BY <1>2, <1>5, <1>10, <1>16
  <2>3. QED
    BY <2>1, <2>2, <1>1, <1>2, <1>5, <1>9, <1>14, <1>16, UploadFinishedOK
<1>17. CASE Continue(kr, uploads, transfer, disk, idleTimer) /\ UNCHANGED acked
  <2>1. UNCHANGED otherVars /\ conns' = kr
    BY <1>1, <1>17 DEF Continue, otherVars, sessionVars, timerVars, serverVars, recordVars, obsVars
  <2>2. respond(conns[c]) \in Connection /\ respond(conns[c]).state = "responded"
        /\ respond(conns[c]).sock = "open" /\ ~respond(conns[c]).complete
        /\ respond(conns[c]).address = conns[c].address
    BY <1>2, <1>3, ConnectionOps
  <2>3. c # pending
    BY <1>4, ReceiveAssumption
  <2>4. QED
    BY <2>1, <2>2, <2>3, ConnectionStep
<1>18. QED
  BY <1>13, <1>15, <1>16, <1>17

(* Uploads answered on their head.                                         *)
LEMMA UploadAnsweredStep ==
    ASSUME NEW alone \in BOOLEAN, Own(alone), NEW c \in Conn, NEW s, NEW id,
           UploadAgain(c, s, id) \/ UploadUnwritable(c, s, id)
    PROVE  Own(alone)'
<1> DEFINE row == indexOfFile(transfer, id)
           k == [conns EXCEPT ![c] = respond(headersReady(@))]
           t == setFileStatus(transfer, row, "failed")
<1>1. Reading(c) /\ session # 0 /\ RowsOf(transfer, id) # {}
  BY DEF UploadAgain, UploadUnwritable, Admitted
<1>2. transfer \in Transfer /\ conns \in [Conn -> Connection] /\ conns[c] \in Connection
      /\ session \in Nat /\ disk \in [Path -> Content]
  BY DEF Own, TypeOK
<1>3. c \notin DOMAIN uploads /\ conns[c].sock = "open"
  BY <1>1 DEF Own, Current, Reading
<1>4. row \in DOMAIN transfer.files /\ row \in Nat
  <2>1. transfer.files \in Seq(FileEntry)
    BY <1>2 DEF Transfer
  <2>2. QED
    BY <2>1, <1>1, <1>2, FirstRow
<1>5. t \in Transfer /\ t.state = transfer.state /\ Len(t.files) = Len(transfer.files)
      /\ DOMAIN t.files = DOMAIN transfer.files
  BY <1>2, <1>4, StatusType DEF FileStatus
<1>6. k \in [Conn -> Connection] /\ k[c].state = "responded" /\ \A e \in Conn \ {c} : k[e] = conns[e]
  BY <1>2, ConnectionOps
<1>7. pending = NoConn /\ idleTimer \in {"running", "due"}
  BY <1>1 DEF Own, TypeOK, Backed, Shown, SameCount
<1>8. \/ Continue(k, uploads, transfer, disk, idleTimer) /\ Aside
      \/ Continue(k, uploads, t, disk, idleTimer) /\ Aside
  <2>1. CASE UploadAgain(c, s, id)
    <3>1. acked' \subseteq Nat \X Nat
      BY <2>1, <1>2, <1>4 DEF UploadAgain, Own, TypeOK
    <3>2. QED
      BY <2>1, <3>1 DEF UploadAgain, Continue, Aside, Own, TypeOK, sessionVars, timerVars,
                        serverVars, recordVars
  <2>2. CASE UploadUnwritable(c, s, id)
    BY <2>2 DEF UploadUnwritable, Aside, Own, TypeOK, serverVars, obsVars
  <2>3. QED
    BY <2>1, <2>2
<1> HIDE DEF k, t
<1>9. \A e \in DOMAIN uploads : k[e] = conns[e]
  BY <1>3, <1>6 DEF Own, TypeOK
<1>10. \A e \in Conn : k[e].state = "headers" => ~k[e].complete /\ e \notin DOMAIN uploads
  BY <1>6 DEF Own, Current
<1>11. Reached(k, uploads, transfer, disk) /\ Reached(k, uploads, t, disk)
  BY <1>2, <1>5, <1>6, <1>9, <1>10, ReachedAtFirst, ReachedKept
<1>12. QED
  BY <1>1, <1>5, <1>7, <1>8, <1>11, ContinueOK

-----------------------------------------------------------------------------
(* What was agreed on is a sequence of sizes and digests.                  *)
LEMMA AgreedType ==
    ASSUME NEW t \in Transfer
    PROVE  Agreed(t) \in Seq([size : 0..MaxSize, digest : BOOLEAN])
<1> DEFINE T == [size : 0..MaxSize, digest : BOOLEAN]
<1>1. t.files \in Seq(FileEntry)
  BY DEF Transfer
<1>2. ASSUME NEW r \in DOMAIN t.files
      PROVE  [size |-> t.files[r].size, digest |-> t.files[r].digest] \in T
  <2>1. t.files[r] \in FileEntry
    BY <1>1, RowsAreSeq
  <2>2. QED
    BY <2>1 DEF FileEntry
<1>3. Agreed(t) \in [1..Len(t.files) -> T]
  BY <1>1, <1>2 DEF Agreed
<1>4. Len(t.files) \in Nat
  BY <1>1
<1> HIDE DEF T
<1>5. Agreed(t) \in Seq(T)
  BY <1>3, <1>4, IsASeq
<1>6. QED
  BY <1>5 DEF T

(* accept(), whether or not the folder can be written.                     *)
LEMMA AcceptOK ==
    ASSUME NEW alone \in BOOLEAN, Own(alone), session = 0, NEW c \in Conn, NEW k \in [Conn -> Connection],
           \A e \in Conn : k[e].state = "headers" => ~k[e].complete,
           NEW t \in Transfer, alone => Len(t.files) <= MaxFilesPerSession,
           peer' \in Peer, accept(c, k, t),
           UNCHANGED <<uploads, serverVars, recordVars, obsVars>>
    PROVE  Own(alone)'
<1> USE DEF serverVars, recordVars, obsVars
<1>1. DOMAIN uploads' = {} /\ idleTimer = "off"
  BY DEF Own, UploadsBelong, TypeOK, Backed
<1>2. conns' \in [Conn -> Connection]
      /\ \A e \in Conn : conns'[e].state = "headers" => ~conns'[e].complete
  BY ConnectionOps DEF accept
<1>3. UploadsBelong' /\ SingleWriter'
  BY <1>1 DEF UploadsBelong, SingleWriter
<1>4. pending' = NoConn /\ acceptTimer' = FALSE
  BY DEF accept
<1>5. CASE /\ transfer' = setState(t, "failed")
           /\ UNCHANGED <<session, sessions, tokens, idleTimer, disk>>
  <2>1. transfer' \in Transfer /\ transfer'.state = "failed" /\ transfer'.files = t.files
    BY <1>5, SetStateType DEF TransferState
  <2>2. TypeOK'
    BY <1>1, <1>2, <1>4, <1>5, <2>1 DEF Own, TypeOK
  <2>3. Backed' /\ (alone => Shown)' /\ Current'
    BY <1>1, <1>2, <1>4, <1>5, <2>1 DEF Backed, Shown, SameCount, Current
  <2>4. QED
    BY <1>3, <2>2, <2>3 DEF Own
<1>6. CASE OpenSession(k[c].address, t)
  <2> DEFINE new == [peer |-> peer', address |-> k[c].address, agreed |-> Agreed(t)]
  <2>1. transfer' \in Transfer /\ transfer'.state = "active" /\ transfer'.files = t.files
    BY <1>6, SetStateType DEF OpenSession, TransferState
  <2>2. new \in Session
    <3>1. k[c].address \in Address
      BY DEF Connection
    <3>2. QED
      BY <3>1, AgreedType DEF Session
  <2>3. sessions \in Seq(Session) /\ sessions' = Append(sessions, new)
        /\ session' = Len(sessions) + 1
    BY <1>6 DEF OpenSession, Own, TypeOK
  <2> HIDE DEF new
  <2>4. sessions' \in Seq(Session) /\ session' = Len(sessions') /\ Len(sessions') \in Nat
        /\ session' # 0 /\ session' \in 0..Len(sessions')
    BY <2>2, <2>3
  <2>5. tokens' \subseteq FileId
    <3>1. t.files \in Seq(FileEntry)
      BY DEF Transfer
    <3>2. ASSUME NEW r \in DOMAIN t.files PROVE t.files[r].id \in FileId
      <4>1. t.files[r] \in FileEntry
        BY <3>1, RowsAreSeq
      <4>2. QED
        BY <4>1 DEF FileEntry
    <3>3. QED
      BY <1>6, <3>2 DEF OpenSession
  <2>6. disk' \in [Path -> Content] /\ idleTimer' = "running"
    BY <1>6 DEF OpenSession, Own, TypeOK, Absent, Content
  <2>7. TypeOK'
    BY <1>1, <1>2, <1>4, <2>1, <2>4, <2>5, <2>6 DEF Own, TypeOK
  <2>8. SameCount'
    <3>1. sessions'[session'].agreed = Agreed(t)
      BY <2>3 DEF new
    <3>2. DOMAIN Agreed(t) = DOMAIN t.files /\ t.files \in Seq(FileEntry)
          /\ Agreed(t) \in Seq([size : 0..MaxSize, digest : BOOLEAN])
      BY AgreedType DEF Agreed, Transfer
    <3> HIDE DEF new
    <3>3. Len(Agreed(t)) = Len(t.files)
      BY ONLY <3>2
    <3>4. QED
      BY <2>1, <3>1, <3>3 DEF SameCount
  <2>9. Backed' /\ (alone => Shown)' /\ Current'
    BY <1>1, <1>2, <1>4, <2>1, <2>4, <2>6, <2>8 DEF Backed, Shown, Current
  <2>10. QED
    BY <1>3, <2>7, <2>9 DEF Own
<1>7. QED
  BY <1>5, <1>6 DEF accept

LEMMA PrepareUploadStep ==
    ASSUME NEW alone \in BOOLEAN, Own(alone), NEW c \in Conn, NEW p \in Peer, NEW offer \in Offers,
           handlePrepareUpload(c, p, offer)
    PROVE  Own(alone)'
<1> DEFINE k == [conns EXCEPT ![c] = finishBody(@)]
           b == begin(transfer, offer)
           t == setState(b, "pending")
<1>1. Reading(c) /\ pending = NoConn /\ session = 0 /\ peer' = p
      /\ UNCHANGED <<uploads, serverVars, recordVars, obsVars>>
  BY DEF handlePrepareUpload, Available
<1>2. /\ k \in [Conn -> Connection] /\ k[c].complete /\ k[c].sock = "open"
      /\ \A e \in Conn : k[e].state = "headers" => ~k[e].complete
  BY <1>1, ConnectionOps DEF Own, TypeOK, Current, Reading
<1>3. b \in Transfer /\ Len(b.files) <= MaxFilesPerSession
  BY BeginType, ReceiveAssumption DEF Own, TypeOK
<1>4. t \in Transfer /\ t.state = "pending" /\ t.files = b.files
  BY <1>3, SetStateType DEF TransferState
<1>5. \/ accept(c, k, t)
      \/ /\ conns' = k /\ pending' = c /\ transfer' = t /\ acceptTimer' = TRUE
         /\ UNCHANGED <<session, sessions, tokens, idleTimer, disk>>
  BY DEF handlePrepareUpload
<1> HIDE DEF k, b, t
<1>6. CASE accept(c, k, t)
  BY <1>1, <1>2, <1>3, <1>4, <1>6, AcceptOK
<1>7. CASE /\ conns' = k /\ pending' = c /\ transfer' = t /\ acceptTimer' = TRUE
           /\ UNCHANGED <<session, sessions, tokens, idleTimer, disk>>
  <2>1. DOMAIN uploads = {} /\ idleTimer = "off" /\ c # NoConn
    BY <1>1, ReceiveAssumption DEF Own, UploadsBelong, TypeOK, Backed
  <2>2. TypeOK'
    BY <1>1, <1>2, <1>4, <1>7 DEF Own, TypeOK, serverVars, recordVars, obsVars
  <2>3. Backed' /\ (alone => Shown)'
    BY <1>1, <1>2, <1>3, <1>4, <1>7, <2>1 DEF Backed, Shown, SameCount
  <2>4. UploadsBelong' /\ SingleWriter'
    BY <1>1, <2>1 DEF UploadsBelong, SingleWriter
  <2>5. Current'
    BY <1>1, <1>2, <1>3, <1>4, <1>7, <2>1 DEF Current
  <2>6. QED
    BY <2>2, <2>3, <2>4, <2>5 DEF Own
<1>8. QED
  BY <1>5, <1>6, <1>7

LEMMA AcceptStep ==
    ASSUME NEW alone \in BOOLEAN, Own(alone), Accept
    PROVE  Own(alone)'
<1>1. pending \in Conn /\ session = 0 /\ peer' \in Peer
  BY DEF Accept, Own, TypeOK, Backed, Current
<1>2. conns \in [Conn -> Connection] /\ transfer \in Transfer
      /\ (alone => Len(transfer.files) <= MaxFilesPerSession)
      /\ \A e \in Conn : conns[e].state = "headers" => ~conns[e].complete
  BY DEF Own, TypeOK, Current, Shown
<1>3. accept(pending, conns, transfer) /\ UNCHANGED <<uploads, serverVars, recordVars, obsVars>>
  BY DEF Accept
<1>4. QED
  BY <1>1, <1>2, <1>3, AcceptOK

LEMMA CancelStep ==
    ASSUME NEW alone \in BOOLEAN, Own(alone), NEW c \in Conn, NEW s, handleCancel(c, s)
    PROVE  Own(alone)'
<1> DEFINE k == [conns EXCEPT ![c] = respond(finishBody(@))]
<1>1. Reading(c) /\ conns \in [Conn -> Connection] /\ conns[c] \in Connection
      /\ conns[c].sock = "open"
  BY DEF handleCancel, Reading, Own, TypeOK
<1>2. c \notin DOMAIN uploads /\ c # pending
  BY <1>1, ReceiveAssumption DEF Own, Current, Backed, Reading
<1>3. k \in [Conn -> Connection] /\ k[c].state = "responded" /\ \A e \in Conn \ {c} : k[e] = conns[e]
  BY <1>1, ConnectionOps
<1>4. \A e \in Conn : k[e].state = "headers" => ~k[e].complete /\ e \notin DOMAIN uploads
  BY <1>3 DEF Own, Current
<1>5. Aside
  BY DEF handleCancel, Aside, Own, TypeOK, serverVars, obsVars
<1>6. \/ /\ pending # NoConn /\ session = 0 /\ conns' = k
         /\ pending' = NoConn /\ acceptTimer' = FALSE
         /\ transfer' = setState(transfer, "cancelled")
         /\ UNCHANGED <<uploads, sessionVars, idleTimer, disk, recordVars>>
      \/ session # 0 /\ finishSession(k, uploads, transfer, disk, TRUE)
      \/ Continue(k, uploads, transfer, disk, idleTimer)
  BY DEF handleCancel
<1> HIDE DEF k
<1>7. Reached(k, uploads, transfer, disk)
  <2>1. \A e \in DOMAIN uploads : k[e] = conns[e]
    BY <1>2, <1>3 DEF Own, TypeOK
  <2>2. transfer \in Transfer /\ disk \in [Path -> Content]
    BY DEF Own, TypeOK
  <2>3. QED
    BY <2>1, <2>2, <1>3, <1>4, ReachedAtFirst, ReachedKept
<1>8. pending # NoConn => k[pending].sock # "free" /\ k[pending].complete
  BY <1>2, <1>3 DEF Own, TypeOK, Backed
<1>9. idleTimer \in {"off", "running", "due"} /\ (idleTimer # "off" <=> session # 0)
  BY DEF Own, TypeOK, Backed
<1>10. CASE /\ pending # NoConn /\ session = 0 /\ conns' = k
            /\ pending' = NoConn /\ acceptTimer' = FALSE
            /\ transfer' = setState(transfer, "cancelled")
            /\ UNCHANGED <<uploads, sessionVars, idleTimer, disk, recordVars>>
  BY <1>3, <1>4, <1>5, <1>10, PromptGone DEF TransferState
<1>11. CASE session # 0 /\ finishSession(k, uploads, transfer, disk, TRUE)
  BY <1>5, <1>7, <1>11, FinishOK
<1>12. CASE Continue(k, uploads, transfer, disk, idleTimer)
  BY <1>5, <1>7, <1>8, <1>9, <1>12, ContinueOK
<1>13. QED
  BY <1>6, <1>10, <1>11, <1>12

(* Steps that end what is open, or go on, from where things stand.         *)
LEMMA TeardownSteps ==
    ASSUME NEW alone \in BOOLEAN, Own(alone),
           Cancel \/ onSessionIdle \/ SessionQuiet \/ ReceiveEnabledChanged \/ PortChanged
    PROVE  Own(alone)'
<1>1. Reached(conns, uploads, transfer, disk)
  BY ReachedAtFirst
<1>2. idleTimer \in {"off", "running", "due"} /\ (idleTimer # "off" <=> session # 0)
  BY DEF Own, TypeOK, Backed
<1>3. pending # NoConn => conns[pending].sock # "free" /\ conns[pending].complete
  BY DEF Own, Backed
<1>4. Aside
  BY DEF Aside, Own, TypeOK, Cancel, onSessionIdle, SessionQuiet, ReceiveEnabledChanged,
         PortChanged, serverVars, obsVars
<1>5. ASSUME NEW timer \in {"off", "running", "due"}, timer # "off" <=> session # 0,
             Continue(conns, uploads, transfer, disk, timer)
      PROVE  Own(alone)'
  BY <1>1, <1>3, <1>4, <1>5, ContinueOK
<1>6. ASSUME NEW cancelled \in BOOLEAN, session # 0 \/ pending # NoConn,
             finishSession(conns, uploads, transfer, disk, cancelled)
      PROVE  Own(alone)'
  BY <1>1, <1>4, <1>6, FinishOK
<1>7. CASE Cancel
  BY <1>6, <1>7 DEF Cancel
<1>8. CASE onSessionIdle
  BY <1>6, <1>8 DEF onSessionIdle
<1>9. CASE SessionQuiet
  <2>1. Continue(conns, uploads, transfer, disk, "due") /\ session # 0
    BY <1>2, <1>9 DEF SessionQuiet, Continue, netVars, recordVars
  <2>2. QED
    BY <2>1, <1>5
<1>10. ASSUME stopListening PROVE Own(alone)'
  BY <1>2, <1>5, <1>6, <1>10 DEF stopListening
<1>11. CASE ReceiveEnabledChanged
  BY <1>2, <1>5, <1>10, <1>11 DEF ReceiveEnabledChanged
<1>12. CASE PortChanged
  BY <1>10, <1>12 DEF PortChanged
<1>13. QED
  BY <1>7, <1>8, <1>9, <1>11, <1>12

LEMMA ForeignFileStep ==
    ASSUME NEW alone \in BOOLEAN, Own(alone), NEW p \in Path, ForeignFile(p)
    PROVE  Own(alone)'
<1> DEFINE d == [disk EXCEPT ![p] = Foreign]
<1>1. d \in [Path -> Content] /\ \A q \in Path \ {p} : d[q] = disk[q]
  BY DEF Own, TypeOK, Foreign, Absent, Content
<1>2. Continue(conns, uploads, transfer, d, idleTimer) /\ Aside
  BY DEF ForeignFile, Continue, Aside, Own, TypeOK, netVars, sessionVars, timerVars,
         serverVars, recordVars, obsVars
<1>3. disk[p].kind = "absent"
  BY DEF ForeignFile
<1> HIDE DEF d
<1>4. \A e \in DOMAIN uploads : d[PartPath(uploads[e])] = disk[PartPath(uploads[e])]
  <2> TAKE e \in DOMAIN uploads
  <2>1. disk[PartPath(uploads[e])] =
            Received(session, uploads[e].row, uploads[e].received, TRUE)
    BY DEF Own, UploadsBelong
  <2>2. disk[PartPath(uploads[e])].kind = "received"
    BY <2>1 DEF Received
  <2>3. uploads[e].final \in FinalPath
    BY DEF Own, TypeOK, Upload
  <2>4. QED
    BY <2>2, <2>3, <1>1, <1>3, PathsExist DEF PartPath
<1>5. Reached(conns, uploads, transfer, d)
  <2>1. conns \in [Conn -> Connection] /\ transfer \in Transfer
        /\ \A e \in Conn : conns[e].state = "headers" => ~conns[e].complete /\ e \notin DOMAIN uploads
    BY DEF Own, TypeOK, Current
  <2>2. QED
    BY <2>1, <1>1, <1>4, ReachedAtFirst, ReachedKept
<1>6. /\ idleTimer \in {"off", "running", "due"} /\ (idleTimer # "off" <=> session # 0)
      /\ pending # NoConn => conns[pending].sock # "free" /\ conns[pending].complete
  BY DEF Own, TypeOK, Backed, Shown, SameCount
<1>7. QED
  BY <1>2, <1>5, <1>6, ContinueOK

(* The process ends, at any point or in a step that reads past the rows.   *)
LEMMA RestartStep ==
    ASSUME NEW alone \in BOOLEAN, Own(alone), NEW d \in [Path -> Content], ProcessEnds(d)
    PROVE  Own(alone)'
<1> USE DEF ProcessEnds, recordVars
<1>1. DOMAIN uploads' = {}
  BY DEF NoUploads
<1>2. conns' \in [Conn -> Connection] /\ \A c \in Conn : ~conns'[c].complete
  BY ConnectionValues
<1>3. boots' \in Seq(Nat)
  BY DEF Own, TypeOK
<1>4. sessions' \in Seq(Session) /\ session' \in 0..Len(sessions') /\ session' = 0
  BY DEF Own, TypeOK
<1>5. TypeOK'
  BY <1>1, <1>2, <1>3, <1>4, NoTransferType DEF Own, TypeOK
<1>6. Backed' /\ (alone => Shown)'
  BY NoTransferType, ReceiveAssumption DEF Backed, Shown, SameCount, NoTransfer
<1>7. UploadsBelong' /\ SingleWriter'
  BY <1>1 DEF UploadsBelong, SingleWriter
<1>8. Current'
  BY <1>1, <1>2, <1>4, NoTransferType, ReceiveAssumption DEF Current
<1>9. QED
  BY <1>5, <1>6, <1>7, <1>8 DEF Own

LEMMA StrayReadEnds ==
    ASSUME TypeOK, NEW c \in Conn, StrayRead(c)
    PROVE  /\ c \in DOMAIN uploads /\ ~Listed(transfer, uploads[c].row)
           /\ \/ ProcessEnds(disk)
              \/ LET u == uploads[c]
                     all == u.received + 1
                     d == [disk EXCEPT ![PartPath(u)] = Grown(@, all)]
                 IN  all <= u.limit /\ d \in [Path -> Content] /\ ProcessEnds(d)
<1> DEFINE u == uploads[c]
           all == u.received + 1
           d == [disk EXCEPT ![PartPath(u)] = Grown(@, all)]
<1>1. c \in DOMAIN uploads /\ ~Listed(transfer, u.row)
      /\ (ProcessEnds(disk) \/ (all <= u.limit /\ ProcessEnds(d)))
  BY DEF StrayRead, Streaming
<1>2. u \in Upload /\ disk \in [Path -> Content]
  BY <1>1 DEF TypeOK
<1>3. PartPath(u) \in Path /\ all \in Nat
  BY <1>2, PathsExist DEF PartPath, Upload
<1>4. Grown(disk[PartPath(u)], all) \in Content
  BY <1>2, <1>3 DEF Grown, Received, Content
<1>5. d \in [Path -> Content]
  BY <1>2, <1>4
<1>6. QED
  BY <1>1, <1>5

LEMMA OwnStarts ==
    ASSUME NEW alone \in BOOLEAN, Init
    PROVE  Own(alone)
<1> USE DEF Init
<1>1. DOMAIN uploads = {}
  BY DEF NoUploads
<1>2. conns \in [Conn -> Connection] /\ \A c \in Conn : ~conns[c].complete
  BY ConnectionValues
<1>3. disk \in [Path -> Content]
  BY DEF Absent, Content
<1>4. TypeOK
  <2>1. sessions \in Seq(Session) /\ session \in 0..Len(sessions) /\ boots \in Seq(Nat)
    OBVIOUS
  <2>2. listening \in BOOLEAN /\ receiveEnabled \in BOOLEAN /\ acceptTimer \in BOOLEAN
    OBVIOUS
  <2>3. known \subseteq Peer /\ history \subseteq Nat \X Nat /\ acked \subseteq Nat \X Nat
        /\ tokens \subseteq FileId
    OBVIOUS
  <2>4. QED
    BY <1>1, <1>2, <1>3, <2>1, <2>2, <2>3, NoTransferType DEF TypeOK
<1>5. Backed /\ (alone => Shown)
  BY NoTransferType, ReceiveAssumption DEF Backed, Shown, SameCount, NoTransfer
<1>6. UploadsBelong /\ SingleWriter
  BY <1>1 DEF UploadsBelong, SingleWriter
<1>7. Current
  BY <1>1, <1>2, NoTransferType, ReceiveAssumption DEF Current
<1>8. QED
  BY <1>4, <1>5, <1>6, <1>7 DEF Own

-----------------------------------------------------------------------------
(* Every step preserves the invariant.                                     *)
LEMMA OwnStep ==
    ASSUME NEW alone \in BOOLEAN, Own(alone), TokensLead, [SharedNext]_vars
    PROVE  Own(alone)'
<1>1. ASSUME NEW c \in Conn, Network(c) PROVE Own(alone)'
  <2>1. CASE (\E a \in Address : Connect(c, a)) \/ AnsweredAtOnce(c) \/ RefusedAtHead(c)
             \/ TailBytes(c)
    BY <2>1, PassingSteps
  <2>2. CASE Disconnected(c)
    BY <2>2, DisconnectedStep
  <2>3. CASE \E p \in Peer, offer \in Offers : handlePrepareUpload(c, p, offer)
    BY <2>3, PrepareUploadStep
  <2>4. CASE \E s \in 0..Len(sessions) : handleCancel(c, s)
    BY <2>4, CancelStep
  <2>5. CASE \E s \in 1..Len(sessions), id \in FileId :
                UploadAgain(c, s, id) \/ UploadUnwritable(c, s, id)
    BY <2>5, UploadAnsweredStep
  <2>6. CASE \E s \in 1..Len(sessions), id \in FileId : \E n \in Lengths :
                handleUploadHeaders(c, s, id, n)
    BY <2>6, UploadHeadersStep
  <2>7. CASE UploadBlock(c)
    BY <2>7, UploadBlockStep
  <2>8. CASE UploadEnd(c)
    BY <2>8, UploadEndStep
  <2>9. QED
    BY <1>1, <2>1, <2>2, <2>3, <2>4, <2>5, <2>6, <2>7, <2>8 DEF Network, Traffic
<1>2. CASE User
  BY <1>2, AcceptStep, DecisionSteps, TeardownSteps DEF User
<1>3. ASSUME NEW c \in Conn, IdleTimeout(c) \/ DrainQuiet(c) PROVE Own(alone)'
  BY <1>3, DisconnectedStep, PassingSteps DEF IdleTimeout
<1>4. CASE Timers
  BY <1>3, <1>4, DecisionSteps, TeardownSteps DEF Timers
<1>5. CASE Environment \/ \E c \in Conn : StrayRead(c)
  <2>1. disk \in [Path -> Content] /\ TypeOK
    BY DEF Own, TypeOK
  <2>2. CASE Restart
    BY <2>1, <2>2, RestartStep DEF Restart
  <2>3. ASSUME NEW c \in Conn, StrayRead(c) PROVE Own(alone)'
    BY <2>1, <2>3, StrayReadEnds, RestartStep
  <2>4. QED
    BY <1>5, <2>2, <2>3, ForeignFileStep DEF Environment
<1>6. CASE UNCHANGED vars
  <2> USE DEF vars, netVars, sessionVars, timerVars, serverVars, recordVars, obsVars
  <2>1. TypeOK' /\ Current'
    BY <1>6 DEF Own, TypeOK, Current
  <2>2. Backed' /\ (alone => Shown)' /\ SingleWriter'
    BY <1>6 DEF Own, Backed, Shown, SameCount, SingleWriter, PartPath
  <2>3. UploadsBelong'
    BY <1>6 DEF Own, UploadsBelong, PartPath
  <2>4. QED
    BY <2>1, <2>2, <2>3 DEF Own
<1>7. QED
  BY <1>1, <1>2, <1>4, <1>5, <1>6 DEF SharedNext, Next

LEMMA InitOK == Init => IInv
  BY OwnStarts DEF IInv

(* Alone with its transfer, the rows are those agreed to.                  *)
LEMMA AloneRows ==
    ASSUME IInv
    PROVE  /\ TokensLead
           /\ session # 0 => DOMAIN transfer.files = DOMAIN sessions[session].agreed
           /\ \A c \in DOMAIN uploads : uploads[c].row \in DOMAIN transfer.files
<1>1. transfer.files \in Seq(FileEntry)
  BY DEF IInv, Own, TypeOK, Transfer
<1>2. session # 0 => DOMAIN transfer.files = DOMAIN sessions[session].agreed
  <2> SUFFICES ASSUME session # 0
               PROVE  DOMAIN transfer.files = DOMAIN sessions[session].agreed
    OBVIOUS
  <2>1. session \in 1..Len(sessions) /\ sessions \in Seq(Session)
    BY DEF IInv, Own, TypeOK
  <2>2. sessions[session] \in Session
    BY <2>1
  <2>3. sessions[session].agreed \in Seq([size : 0..MaxSize, digest : BOOLEAN])
    BY <2>2 DEF Session
  <2>4. Len(transfer.files) = Len(sessions[session].agreed)
    BY DEF IInv, Own, Shown, SameCount
  <2>5. QED
    BY ONLY <1>1, <2>3, <2>4
<1>3. QED
  BY <1>2 DEF TokensLead, IInv, Own, UploadsBelong

LEMMA NextOK == IInv /\ [Next]_vars => IInv'
<1>1. Own(TRUE) /\ [Next]_vars => Own(TRUE)'
  BY OwnStep, AloneRows DEF IInv, SharedNext
<1>2. QED
  BY <1>1 DEF IInv

(* Alone with its transfer, what the service shows is what it does.        *)
LEMMA AloneIsBacked ==
    IInv <=> /\ TypeOK /\ PromptIsBacked /\ SessionIsBacked /\ UploadsBelong
             /\ SingleWriter /\ Current /\ Len(transfer.files) <= MaxFilesPerSession
             /\ SameCount
  BY DEF IInv, Own, Backed, Shown, PromptIsBacked, SessionIsBacked

(* The invariant holds throughout.                                         *)
THEOREM Invariance == Spec => []IInv
  BY InitOK, NextOK, PTL DEF Spec

(* Every variable of the service keeps its type: in particular no row ever *)
(* shows a negative or an oversized progress and no table holds a stale    *)
(* row, for any number of connections, files and sessions.                 *)
THEOREM TypeCorrect == Spec => []TypeOK
<1>1. IInv => TypeOK
  BY DEF IInv, Own
<1>2. QED
  BY <1>1, Invariance, PTL

(* Alone with its transfer, the service never reads a row that is not      *)
(* there: entry() is unchecked, but the row of every upload is listed.     *)
THEOREM RowsAreThere == Spec => [](\A c \in DOMAIN uploads : Listed(transfer, uploads[c].row))
<1>1. IInv => \A c \in DOMAIN uploads : Listed(transfer, uploads[c].row)
  BY AloneRows DEF Listed
<1>2. QED
  BY <1>1, Invariance, PTL

(* m_pending, m_acceptTimer, m_sessionId and the transfer's state agree    *)
(* about the prompt, in every interleaving of decisions, timeouts, closed  *)
(* sockets and cancel requests.                                            *)
THEOREM PromptBacked == Spec => []PromptIsBacked
<1>1. IInv => PromptIsBacked
  BY AloneIsBacked
<1>2. QED
  BY <1>1, Invariance, PTL

(* An active transfer has a session id and a running idle timer, and the   *)
(* other way round.                                                        *)
THEOREM SessionBacked == Spec => []SessionIsBacked
<1>1. IInv => SessionIsBacked
  BY AloneIsBacked
<1>2. QED
  BY <1>1, Invariance, PTL

(* The upload table points at live connections of the accepted sender and  *)
(* at part files holding exactly what was received.                        *)
THEOREM UploadsSound == Spec => []UploadsBelong
<1>1. IInv => UploadsBelong
  BY DEF IInv, Own
<1>2. QED
  BY <1>1, Invariance, PTL

(* Two uploads never write one part file, whatever the names asked for.    *)
THEOREM OneWriter == Spec => []SingleWriter
<1>1. IInv => SingleWriter
  BY DEF IInv, Own
<1>2. QED
  BY <1>1, Invariance, PTL

-----------------------------------------------------------------------------
(* ReceiveService implements Inbox: every step asks, withdraws, grants,    *)
(* delivers, ends or leaves the inbox alone.                               *)

(* The mapped phase.                                                       *)
Phase == IF session # 0 THEN "receiving" ELSE IF pending # NoConn THEN "asking" ELSE "idle"

Same == Phase' = Phase /\ sessions' = sessions /\ acked' = acked
Put == /\ Phase = "idle" /\ Phase' = "asking"
       /\ sessions' = sessions /\ acked' = acked
Gone == /\ Phase \in {"asking", "receiving"} /\ Phase' = "idle"
        /\ sessions' = sessions /\ acked' = acked
Granted == /\ Phase = "asking" \/ (Phase = "idle" /\ TRUE \in QuickSaveModes)
           /\ Phase' = "receiving"
           /\ Len(sessions') = Len(sessions) + 1 /\ acked' = acked
Taken == /\ Phase = "receiving" /\ Phase' \in {"receiving", "idle"}
         /\ \E r \in 1..MaxFilesPerSession : acked' = acked \cup {<<Len(sessions), r>>}
         /\ sessions' = sessions

(* These are the steps of Inbox under the mapping.                         *)
LEMMA MappedSteps ==
    ASSUME Same \/ Put \/ Gone \/ Granted \/ Taken
    PROVE  [Promise!Next]_Promise!vars
<1>1. CASE Same
  BY <1>1 DEF Same, Phase, Promise!vars
<1>2. CASE Put
  BY <1>2 DEF Put, Phase, Promise!Next, Promise!Ask
<1>3. CASE Gone
  BY <1>3 DEF Gone, Phase, Promise!Next, Promise!Withdraw, Promise!End
<1>4. CASE Granted
  BY <1>4 DEF Granted, Phase, Promise!Next, Promise!Grant
<1>5. CASE Taken
  BY <1>5 DEF Taken, Phase, Promise!Next, Promise!Deliver
<1>6. QED
  BY <1>1, <1>2, <1>3, <1>4, <1>5

(* Handing over without a delivery goes on or ends.                        *)
LEMMA HandOverMaps ==
    ASSUME IInv, NEW k, NEW ups, NEW t, NEW d, NEW timer, UNCHANGED acked,
           \/ Continue(k, ups, t, d, timer)
           \/ (session # 0 \/ pending # NoConn)
              /\ \E cancelled \in BOOLEAN : finishSession(k, ups, t, d, cancelled)
    PROVE  Same \/ Gone
  BY DEF Continue, finishSession, sessionVars, Same, Gone, Phase

(* With a delivery it is a Deliver of the open session.                    *)
LEMMA UploadFinishedMaps ==
    ASSUME IInv, NEW c, NEW u, NEW ups, NEW t, NEW d, NEW intact,
           session # 0, u.row \in DOMAIN transfer.files,
           handleUploadFinished(c, u, ups, t, d, intact)
    PROVE  Same \/ Gone \/ Taken
<1>1. session = Len(sessions) /\ pending = NoConn
  BY DEF IInv, Own, Current, Backed
<1>2. u.row \in 1..MaxFilesPerSession
  <2>1. transfer.files \in Seq(FileEntry) /\ Len(transfer.files) <= MaxFilesPerSession
    BY DEF IInv, Own, TypeOK, Transfer, Current, Shown
  <2>2. QED
    BY <2>1, ReceiveAssumption
<1>3. Phase = "receiving" /\ Phase' \in {"receiving", "idle"} /\ sessions' = sessions
  BY <1>1 DEF handleUploadFinished, FinishIfSettled, Continue, finishSession, sessionVars, Phase
<1>4. acked' = acked \/ acked' = acked \cup {<<Len(sessions), u.row>>}
  BY <1>1 DEF handleUploadFinished
<1>5. QED
  BY <1>2, <1>3, <1>4 DEF Same, Gone, Taken

LEMMA UploadMaps ==
    ASSUME IInv, NEW c \in Conn,
           \/ UploadBlock(c) \/ UploadEnd(c)
           \/ \E s, id : \/ UploadAgain(c, s, id) \/ UploadUnwritable(c, s, id)
                         \/ \E n \in Lengths : handleUploadHeaders(c, s, id, n)
    PROVE  Same \/ Gone \/ Taken
<1>1. transfer \in Transfer /\ transfer.files \in Seq(FileEntry)
  BY DEF IInv, Own, TypeOK, Transfer
<1>2. c \in DOMAIN uploads => uploads[c].row \in DOMAIN transfer.files /\ session # 0
                             /\ uploads[c] \in Upload
  BY AloneRows DEF IInv, Own, UploadsBelong, TypeOK
<1>3. CASE UploadEnd(c)
  <2>1. c \in DOMAIN uploads
    BY <1>3 DEF UploadEnd, Streaming
  <2>2. QED
    BY <1>2, <1>3, <2>1, UploadFinishedMaps DEF UploadEnd
<1>4. CASE UploadBlock(c)
  <2> DEFINE v == uploads[c]
             u == [v EXCEPT !.received = @ + 1]
             t == setFileTransferred(transfer, u.row, u.received)
             d == [disk EXCEPT ![PartPath(u)] = Grown(@, u.received)]
  <2>1. c \in DOMAIN uploads /\ v \in Upload /\ v.row \in DOMAIN transfer.files /\ session # 0
    BY <1>2, <1>4 DEF UploadBlock, Streaming
  <2> HIDE DEF v
  <2>2. u.row = v.row
    BY <2>1 DEF Upload
  <2>3. \/ \E k, ups, t1, d1, timer : Continue(k, ups, t1, d1, timer) /\ UNCHANGED acked
        \/ \E intact \in BOOLEAN : handleUploadFinished(c, u, Without(uploads, c), t, d, intact)
    BY <1>4 DEF UploadBlock, v
  <2> HIDE DEF u, t, d
  <2>4. QED
    BY <2>1, <2>2, <2>3, HandOverMaps, UploadFinishedMaps
<1>5. ASSUME NEW s, NEW id,
             UploadAgain(c, s, id) \/ UploadUnwritable(c, s, id)
             \/ \E n \in Lengths : handleUploadHeaders(c, s, id, n)
      PROVE  Same \/ Gone \/ Taken
  <2> DEFINE row == indexOfFile(transfer, id)
  <2>1. session # 0 /\ row \in DOMAIN transfer.files
    BY <1>1, <1>5, FirstRow DEF UploadAgain, UploadUnwritable, handleUploadHeaders, Admitted
  <2>2. CASE UploadAgain(c, s, id)
    <3>1. session = Len(sessions) /\ Len(transfer.files) <= MaxFilesPerSession
      BY <2>1 DEF IInv, Own, Shown, Current
    <3>2. row \in 1..MaxFilesPerSession
      BY <1>1, <2>1, <3>1, ReceiveAssumption
    <3>3. acked' = acked \cup {<<Len(sessions), row>>} /\ UNCHANGED <<session, sessions, pending>>
      BY <2>2, <3>1 DEF UploadAgain, sessionVars
    <3> HIDE DEF row
    <3>4. QED
      BY <2>1, <3>2, <3>3 DEF Taken, Phase
  <2>3. CASE UploadUnwritable(c, s, id)
    <3>1. \E k, ups, t, d, timer : Continue(k, ups, t, d, timer) /\ UNCHANGED acked
      BY <2>3 DEF UploadUnwritable, obsVars
    <3>2. QED
      BY <3>1, HandOverMaps
  <2>4. ASSUME NEW n \in Lengths, handleUploadHeaders(c, s, id, n)
        PROVE  Same \/ Gone \/ Taken
    <3> DEFINE file == transfer.files[row]
               u == [row |-> row, final |-> reserveFilePath(file.name),
                     length |-> n, limit |-> file.size, received |-> 0]
               t == setFileStatus(transfer, row, "transferring")
               d == [disk EXCEPT ![PartPath(u)] = Received(session, row, 0, TRUE)]
    <3>1. \/ \E k, ups, t1, d1, timer : Continue(k, ups, t1, d1, timer) /\ UNCHANGED acked
          \/ \E intact \in BOOLEAN : handleUploadFinished(c, u, uploads, t, d, intact)
      BY <2>4 DEF handleUploadHeaders
    <3>2. u.row = row
      OBVIOUS
    <3> HIDE DEF row, u, t, d
    <3>3. QED
      BY <2>1, <3>1, <3>2, HandOverMaps, UploadFinishedMaps
  <2>5. QED
    BY <1>5, <2>2, <2>3, <2>4
<1>6. QED
  BY <1>3, <1>4, <1>5

(* A grant or a failed grant, from a prompt or from quick save.            *)
LEMMA AcceptMaps ==
    ASSUME IInv, session = 0, NEW c \in Conn, NEW k, NEW t, accept(c, k, t), UNCHANGED acked,
           pending # NoConn \/ TRUE \in QuickSaveModes
    PROVE  Same \/ Gone \/ Granted
<1>1. sessions \in Seq(Session) /\ Len(sessions) \in Nat
  BY DEF IInv, Own, TypeOK
<1>2. CASE UNCHANGED <<session, sessions>>
  BY <1>2 DEF accept, Same, Gone, Phase
<1>3. CASE OpenSession(k[c].address, t)
  <2>1. \E x : sessions' = Append(sessions, x)
    BY <1>3 DEF OpenSession
  <2>2. Len(sessions') = Len(sessions) + 1 /\ session' = Len(sessions) + 1
    BY <1>1, <1>3, <2>1 DEF OpenSession
  <2>3. Phase' = "receiving"
    BY <1>1, <2>2 DEF Phase
  <2>4. Phase = "asking" \/ (Phase = "idle" /\ TRUE \in QuickSaveModes)
    <3>1. CASE pending # NoConn
      BY <3>1 DEF Phase
    <3>2. CASE pending = NoConn
      BY <3>2 DEF Phase
    <3>3. QED
      BY <3>1, <3>2
  <2>5. QED
    BY <2>2, <2>3, <2>4 DEF Granted
<1>4. QED
  BY <1>2, <1>3 DEF accept

LEMMA StepMaps ==
    ASSUME IInv, [Next]_vars
    PROVE  Same \/ Put \/ Gone \/ Granted \/ Taken
<1>1. ASSUME UNCHANGED <<session, sessions, pending, acked>> PROVE Same
  BY <1>1 DEF Same, Phase
<1>2. ASSUME NEW k, NEW ups, NEW t, NEW d, NEW timer, UNCHANGED acked,
             \/ Continue(k, ups, t, d, timer)
             \/ (session # 0 \/ pending # NoConn)
                /\ \E cancelled \in BOOLEAN : finishSession(k, ups, t, d, cancelled)
      PROVE  Same \/ Gone
  BY <1>2, HandOverMaps
<1>3. ASSUME pending # NoConn, pending' = NoConn, UNCHANGED <<sessionVars, acked>> PROVE Gone
  BY <1>3 DEF IInv, Own, Backed, Gone, Phase, sessionVars
<1>4. ASSUME NEW c \in Conn, Disconnected(c) PROVE Same \/ Gone
  <2>1. acked' = acked /\ NoConn \notin Conn
    BY <1>4, ReceiveAssumption DEF Disconnected, obsVars
  <2>2. CASE c = pending /\ pending' = NoConn /\ UNCHANGED sessionVars
    BY <1>3, <2>1, <2>2
  <2>3. CASE \E k, ups, t, d, timer : Continue(k, ups, t, d, timer)
    BY <1>2, <2>1, <2>3
  <2>4. CASE c \in DOMAIN uploads /\
             \E k, ups, t, d, timer : FinishIfSettled(k, ups, t, d, timer)
    <3>1. session # 0
      BY <2>4 DEF IInv, Own, UploadsBelong
    <3>2. PICK k, ups, t, d, timer : FinishIfSettled(k, ups, t, d, timer)
      BY <2>4
    <3>3. QED
      BY <1>2, <2>1, <3>1, <3>2 DEF FinishIfSettled
  <2>5. QED
    BY <1>4, <2>2, <2>3, <2>4 DEF Disconnected
<1>5. ASSUME NEW c \in Conn, Network(c) PROVE Same \/ Put \/ Gone \/ Granted \/ Taken
  <2>1. CASE (\E a \in Address : Connect(c, a)) \/ AnsweredAtOnce(c) \/ RefusedAtHead(c)
             \/ TailBytes(c)
    BY <2>1, <1>1 DEF Connect, AnsweredAtOnce, RefusedAtHead, TailBytes, otherVars,
                      sessionVars, obsVars
  <2>2. ASSUME NEW p \in Peer, NEW offer \in Offers, handlePrepareUpload(c, p, offer)
        PROVE  Same \/ Put \/ Gone \/ Granted
    <3>1. session = 0 /\ pending = NoConn /\ acked' = acked /\ c # NoConn
      BY <2>2, ReceiveAssumption DEF handlePrepareUpload, Available, obsVars
    <3>2. CASE TRUE \in QuickSaveModes /\ \E k, t : accept(c, k, t)
      BY <3>1, <3>2, AcceptMaps
    <3>3. CASE pending' = c /\ UNCHANGED <<session, sessions>>
      BY <3>1, <3>3 DEF Put, Phase
    <3>4. QED
      BY <2>2, <3>2, <3>3, ReceiveAssumption DEF handlePrepareUpload
  <2>3. ASSUME NEW s, handleCancel(c, s) PROVE Same \/ Gone
    <3>1. acked' = acked
      BY <2>3 DEF handleCancel, obsVars
    <3>2. CASE pending # NoConn /\ pending' = NoConn /\ UNCHANGED sessionVars
      BY <1>3, <3>1, <3>2
    <3>3. CASE \E k, ups, t, d, timer :
                  \/ Continue(k, ups, t, d, timer)
                  \/ session # 0 /\ finishSession(k, ups, t, d, TRUE)
      BY <1>2, <3>1, <3>3
    <3>4. QED
      BY <2>3, <3>2, <3>3 DEF handleCancel
  <2>4. CASE \/ UploadBlock(c) \/ UploadEnd(c)
             \/ \E s, id : \/ UploadAgain(c, s, id) \/ UploadUnwritable(c, s, id)
                           \/ \E n \in Lengths : handleUploadHeaders(c, s, id, n)
    BY <2>4, UploadMaps
  <2>5. QED
    BY <1>4, <1>5, <2>1, <2>2, <2>3, <2>4 DEF Network, Traffic
<1>6. CASE User
  <2>1. CASE Accept
    <3>1. session = 0 /\ pending \in Conn /\ acked' = acked /\ pending # NoConn
          /\ accept(pending, conns, transfer)
      BY <2>1 DEF Accept, IInv, Own, TypeOK, Backed, obsVars
    <3>2. QED
      BY <3>1, AcceptMaps
  <2>2. CASE Decline
    BY <2>2, <1>3 DEF Decline, PutAway, obsVars
  <2>3. CASE Cancel
    BY <2>3, <1>2 DEF Cancel, obsVars
  <2>4. CASE ReceiveEnabledChanged \/ PortChanged
    BY <2>4, <1>2 DEF ReceiveEnabledChanged, PortChanged, stopListening, obsVars
  <2>5. QED
    BY <1>6, <2>1, <2>2, <2>3, <2>4 DEF User
<1>7. CASE Timers
  <2>1. CASE onAcceptTimeout
    BY <2>1, <1>3 DEF onAcceptTimeout, PutAway, obsVars
  <2>2. CASE SessionQuiet
    BY <2>2, <1>1 DEF SessionQuiet, netVars, sessionVars, obsVars
  <2>3. CASE onSessionIdle
    BY <2>3, <1>2 DEF onSessionIdle, obsVars
  <2>4. CASE \E c \in Conn : DrainQuiet(c) \/ IdleTimeout(c)
    BY <2>4, <1>1, <1>4 DEF DrainQuiet, IdleTimeout, otherVars, sessionVars, obsVars
  <2>5. QED
    BY <1>7, <2>1, <2>2, <2>3, <2>4 DEF Timers
<1>8. CASE Environment
  <2>1. CASE Restart
    BY <2>1 DEF Restart, ProcessEnds, Same, Gone, Phase
  <2>2. CASE \E p \in Path : ForeignFile(p)
    BY <2>2, <1>1 DEF ForeignFile, netVars, sessionVars, obsVars
  <2>3. QED
    BY <1>8, <2>1, <2>2 DEF Environment
<1>9. CASE UNCHANGED vars
  BY <1>9, <1>1 DEF vars, netVars, sessionVars, obsVars
<1>10. QED
  BY <1>5, <1>6, <1>7, <1>8, <1>9 DEF Next

(* The receiving service implements the promise of Inbox for any number of *)
(* connections, peers, files and sessions, restarts included: no file is   *)
(* taken outside a granted session and none is given up again.             *)
THEOREM PromiseKept == Spec => KeepsPromise
<1>1. Init => Promise!Init
  BY DEF Init, Promise!Init
<1>2. IInv /\ [Next]_vars => [Promise!Next]_Promise!vars
  BY StepMaps, MappedSteps
<1>3. QED
  BY <1>1, <1>2, Invariance, PTL DEF Spec, KeepsPromise, Promise!Spec

-----------------------------------------------------------------------------
(* The destination folder: what ReceiveService may touch in it, and what   *)
(* it holds.                                                               *)

(* The paths a step may change: free ones, parts being written, the probe. *)
Safe == {p \in Path : disk[p].kind = "absent" \/ p \in OpenParts \/ p = ProbePath}

(* A folder that differs from disk at most there.                          *)
Stays(d) == \A p \in Path \ Safe : d[p] = disk[p]

LEMMA PartsAreSafe ==
    ASSUME TypeOK, NEW c \in DOMAIN uploads
    PROVE  PartPath(uploads[c]) \in Safe /\ PartPath(uploads[c]) \in Path
<1>1. uploads[c].final \in FinalPath
  BY DEF TypeOK, Upload
<1>2. PartPath(uploads[c]) \in Path
  BY <1>1, PathsExist DEF PartPath
<1>3. QED
  BY <1>2 DEF Safe, OpenParts

LEMMA RemoveStays ==
    ASSUME NEW d, Stays(d), NEW paths, paths \subseteq Safe
    PROVE  Stays(RemoveAll(d, paths))
  BY DEF Stays, RemoveAll

(* finishSession() and Continue() on a folder reached safely.              *)
LEMMA HandOverStays ==
    ASSUME TypeOK, NEW k, NEW ups, NEW t, NEW d, NEW timer, Stays(d),
           \A c \in DOMAIN ups : PartPath(ups[c]) \in Safe,
           \/ Continue(k, ups, t, d, timer)
           \/ \E cancelled \in BOOLEAN : finishSession(k, ups, t, d, cancelled)
           \/ FinishIfSettled(k, ups, t, d, timer)
    PROVE  Stays(disk')
<1>1. Stays(RemoveAll(d, {PartPath(ups[c]) : c \in DOMAIN ups}))
  BY RemoveStays
<1>2. disk' = d \/ disk' = RemoveAll(d, {PartPath(ups[c]) : c \in DOMAIN ups})
  BY DEF Continue, finishSession, FinishIfSettled
<1>3. QED
  BY <1>1, <1>2

LEMMA UploadFinishedStays ==
    ASSUME TypeOK, NEW c, NEW u \in Upload, NEW ups, NEW t, NEW d \in [Path -> Content],
           NEW intact \in BOOLEAN,
           Stays(d), PartPath(u) \in Safe,
           \A e \in DOMAIN ups : PartPath(ups[e]) \in Safe,
           handleUploadFinished(c, u, ups, t, d, intact)
    PROVE  Stays(disk')
<1> DEFINE k == [conns EXCEPT ![c] = respond(finishBody(@))]
           place == Place(d, u)
           td == setFileStatus(setFileLocalPath(t, u.row, place), u.row, "done")
           tf == setFileStatus(t, u.row, "failed")
           dr == RemoveAll(d, {PartPath(u)})
           dk == [dr EXCEPT ![place] = Received(session, u.row, u.received, intact)]
<1>1. u.final \in Path
  BY PathsExist DEF Upload
<1>2. place \in Safe
  BY <1>1 DEF Place, Stays, Safe
<1>3. Stays(dr)
  BY RemoveStays
<1>4. Stays(dk)
  <2>1. DOMAIN dr = Path
    BY DEF RemoveAll
  <2> HIDE DEF dr, place
  <2>2. QED
    BY <2>1, <1>2, <1>3 DEF Stays
<1>5. \/ FinishIfSettled(k, ups, td, dk, "running")
      \/ FinishIfSettled(k, ups, tf, dr, "running")
  BY DEF handleUploadFinished
<1> HIDE DEF k, place, td, tf, dr, dk
<1>6. QED
  BY <1>3, <1>4, <1>5, HandOverStays

(* The three places where a handler writes before it hands over.           *)
LEMMA UploadStays ==
    ASSUME TypeOK, NEW c \in Conn,
           \/ UploadBlock(c) \/ UploadEnd(c)
           \/ \E s, id : \E n \in Lengths : handleUploadHeaders(c, s, id, n)
    PROVE  Stays(disk')
<1>1. disk \in [Path -> Content] /\ Stays(disk)
  BY DEF TypeOK, Stays
<1>2. \A e \in DOMAIN uploads : PartPath(uploads[e]) \in Safe
  BY PartsAreSafe
<1>3. \A e \in DOMAIN Without(uploads, c) : PartPath(Without(uploads, c)[e]) \in Safe
  BY <1>2 DEF Without
<1>4. CASE UploadEnd(c)
  <2>1. PICK intact \in BOOLEAN :
            handleUploadFinished(c, uploads[c], Without(uploads, c), transfer, disk, intact)
    BY <1>4 DEF UploadEnd
  <2>2. uploads[c] \in Upload /\ PartPath(uploads[c]) \in Safe
    BY <1>2, <1>4 DEF UploadEnd, Streaming, TypeOK
  <2>3. QED
    BY <2>1, <2>2, <1>1, <1>3, UploadFinishedStays
<1>5. CASE UploadBlock(c)
  <2> DEFINE v == uploads[c]
             u == [v EXCEPT !.received = @ + 1]
             t == setFileTransferred(transfer, u.row, u.received)
             d == [disk EXCEPT ![PartPath(u)] = Grown(@, u.received)]
             ups == [uploads EXCEPT ![c] = u]
  <2>1. c \in DOMAIN uploads /\ v \in Upload
    BY <1>5 DEF UploadBlock, Streaming, TypeOK
  <2> HIDE DEF v
  <2>2. u \in Upload /\ u.final = v.final /\ u.received \in Nat
    BY <2>1 DEF Upload
  <2>3. PartPath(u) = PartPath(v) /\ PartPath(u) \in Safe /\ PartPath(u) \in Path
    BY <2>1, <2>2, <1>2, PartsAreSafe DEF PartPath, v
  <2> HIDE DEF u
  <2>4. Grown(disk[PartPath(u)], u.received) \in Content
    <3>1. disk[PartPath(u)] \in Content
      BY <1>1, <2>3
    <3>2. QED
      BY <3>1, <2>2 DEF Grown, Received, Content
  <2>5. d \in [Path -> Content] /\ Stays(d)
    BY <1>1, <2>3, <2>4 DEF Stays
  <2>6. \A e \in DOMAIN ups : PartPath(ups[e]) \in Safe
    BY <1>2, <2>3
  <2>7. \/ Continue(conns, ups, t, d, "running")
        \/ \E intact \in BOOLEAN : handleUploadFinished(c, u, Without(uploads, c), t, d, intact)
        \/ disk' = disk
    BY <1>5 DEF UploadBlock, Continue, u, v
  <2> HIDE DEF t, d, ups
  <2>8. QED
    BY <2>2, <2>3, <2>5, <2>6, <2>7, <1>1, <1>3, HandOverStays, UploadFinishedStays
<1>6. ASSUME NEW s, NEW id, NEW n \in Lengths, handleUploadHeaders(c, s, id, n)
      PROVE  Stays(disk')
  <2> DEFINE row == indexOfFile(transfer, id)
             file == transfer.files[row]
             u == [row |-> row, final |-> reserveFilePath(file.name), length |-> n,
                   limit |-> file.size, received |-> 0]
             t == setFileStatus(transfer, row, "transferring")
             d == [disk EXCEPT ![PartPath(u)] = Received(session, row, 0, TRUE)]
             k == [conns EXCEPT ![c] = headersReady(@)]
             ups == With(uploads, c, u)
  <2>1. RowsOf(transfer, id) # {} /\ HasFreeName(file.name) /\ session # 0
    BY <1>6 DEF handleUploadHeaders, Admitted
  <2>2. row \in DOMAIN transfer.files /\ transfer.files \in Seq(FileEntry)
    BY <2>1, FirstRow DEF TypeOK, Transfer
  <2> HIDE DEF row
  <2>3. row \in Nat /\ file \in FileEntry /\ file.name \in FileName /\ file.size \in 0..MaxSize
    <3>1. row \in Nat /\ file \in FileEntry
      BY <2>2, RowsAreSeq
    <3>2. QED
      BY <3>1 DEF FileEntry
  <2>4. reserveFilePath(file.name) \in FinalPath /\ Free(reserveFilePath(file.name))
    BY <2>1, <2>3, ReservedIsFree
  <2> HIDE DEF file
  <2>5. u \in Upload /\ u.final = reserveFilePath(file.name)
    BY <2>3, <2>4, ReceiveAssumption DEF Upload
  <2>6. PartPath(u) \in Path /\ PartPath(u) \in Safe
    BY <2>4, <2>5, PathsExist DEF Free, PartPath, Safe
  <2>7. Received(session, row, 0, TRUE) \in Content
    BY <2>3 DEF Received, Content, TypeOK
  <2>8. \/ \E x : Continue(x, ups, t, d, "running")
        \/ \E intact \in BOOLEAN : handleUploadFinished(c, u, uploads, t, d, intact)
    BY <1>6 DEF handleUploadHeaders, row, file
  <2> HIDE DEF u
  <2>9. d \in [Path -> Content] /\ Stays(d)
    BY <1>1, <2>6, <2>7 DEF Stays
  <2>10. \A e \in DOMAIN ups : PartPath(ups[e]) \in Safe
    BY <1>2, <2>6 DEF With
  <2> HIDE DEF t, d, ups
  <2>11. QED
    BY <2>5, <2>6, <2>8, <2>9, <2>10, <1>2, HandOverStays, UploadFinishedStays
<1>7. QED
  BY <1>4, <1>5, <1>6

LEMMA StepStays ==
    ASSUME TypeOK, SharedNext
    PROVE  Stays(disk')
<1>1. disk \in [Path -> Content] /\ Stays(disk)
  BY DEF TypeOK, Stays
<1>2. \A e \in DOMAIN uploads : PartPath(uploads[e]) \in Safe
  BY PartsAreSafe
<1>3. ASSUME disk' = disk PROVE Stays(disk')
  BY <1>1, <1>3
<1>4. ASSUME NEW k, NEW timer,
             \/ Continue(k, uploads, transfer, disk, timer)
             \/ \E cancelled \in BOOLEAN : finishSession(k, uploads, transfer, disk, cancelled)
      PROVE  Stays(disk')
  BY <1>1, <1>2, <1>4, HandOverStays
<1>5. ASSUME NEW c, NEW k, NEW t, accept(c, k, t) PROVE Stays(disk')
  <2>1. disk' = disk \/ disk' = [disk EXCEPT ![ProbePath] = Absent]
    BY <1>5 DEF accept, OpenSession
  <2>2. QED
    BY <2>1, <1>1 DEF Stays, Safe
<1>6. ASSUME NEW c \in Conn, Disconnected(c) PROVE Stays(disk')
  <2> DEFINE k == [conns EXCEPT ![c] = NoConnection]
             ups == Without(uploads, c)
             t == setFileStatus(transfer, uploads[c].row, "failed")
             d == RemoveAll(disk, {PartPath(uploads[c])})
  <2>1. CASE disk' = disk
    BY <1>3, <2>1
  <2>2. CASE c \in DOMAIN uploads /\ FinishIfSettled(k, ups, t, d, idleTimer)
    <3>1. Stays(d)
      BY <1>1, <1>2, <2>2, RemoveStays
    <3>2. \A e \in DOMAIN ups : PartPath(ups[e]) \in Safe
      BY <1>2 DEF Without
    <3> HIDE DEF k, ups, t, d
    <3>3. QED
      BY <2>2, <3>1, <3>2, HandOverStays
  <2>3. QED
    BY <1>6, <2>1, <2>2 DEF Disconnected, Continue
<1>7. ASSUME NEW c \in Conn, Network(c) PROVE Stays(disk')
  <2>1. CASE (\E a \in Address : Connect(c, a)) \/ AnsweredAtOnce(c) \/ RefusedAtHead(c)
             \/ TailBytes(c)
    BY <2>1, <1>3 DEF Connect, AnsweredAtOnce, RefusedAtHead, TailBytes, otherVars
  <2>2. CASE \E s, id : UploadAgain(c, s, id) \/ UploadUnwritable(c, s, id)
    BY <2>2, <1>3 DEF UploadAgain, UploadUnwritable, Continue
  <2>3. CASE \E p \in Peer, offer \in Offers : handlePrepareUpload(c, p, offer)
    BY <2>3, <1>3, <1>5 DEF handlePrepareUpload
  <2>4. CASE \E s \in 0..Len(sessions) : handleCancel(c, s)
    BY <2>4, <1>3, <1>4 DEF handleCancel
  <2>5. CASE UploadBlock(c) \/ UploadEnd(c)
             \/ \E s, id : \E n \in Lengths : handleUploadHeaders(c, s, id, n)
    BY <2>5, UploadStays
  <2>6. QED
    BY <1>6, <1>7, <2>1, <2>2, <2>3, <2>4, <2>5 DEF Network, Traffic
<1>8. CASE User
  <2>1. CASE Accept
    BY <2>1, <1>5 DEF Accept
  <2>2. CASE Decline
    BY <2>2, <1>3 DEF Decline, PutAway
  <2>3. CASE Cancel \/ ReceiveEnabledChanged \/ PortChanged
    BY <2>3, <1>4 DEF Cancel, ReceiveEnabledChanged, PortChanged, stopListening
  <2>4. QED
    BY <1>8, <2>1, <2>2, <2>3 DEF User
<1>9. CASE Timers
  <2>1. CASE onAcceptTimeout \/ SessionQuiet
    BY <2>1, <1>3 DEF onAcceptTimeout, PutAway, SessionQuiet
  <2>2. CASE onSessionIdle
    BY <2>2, <1>4 DEF onSessionIdle
  <2>3. CASE \E c \in Conn : DrainQuiet(c) \/ IdleTimeout(c)
    BY <2>3, <1>3, <1>6 DEF DrainQuiet, IdleTimeout, otherVars
  <2>4. QED
    BY <1>9, <2>1, <2>2, <2>3 DEF Timers
<1>10. CASE Environment \/ \E c \in Conn : StrayRead(c)
  <2>1. ASSUME NEW p \in Path, ForeignFile(p) PROVE Stays(disk')
    BY <2>1, <1>1 DEF ForeignFile, Stays, Safe
  <2>2. CASE Restart
    BY <2>2, <1>3 DEF Restart, ProcessEnds
  <2>3. ASSUME NEW c \in Conn, StrayRead(c) PROVE Stays(disk')
    <3> DEFINE u == uploads[c]
               d == [disk EXCEPT ![PartPath(u)] = Grown(@, u.received + 1)]
    <3>1. c \in DOMAIN uploads /\ (disk' = disk \/ disk' = d)
      BY <2>3, StrayReadEnds DEF ProcessEnds
    <3>2. Stays(d)
      BY <1>1, <1>2, <3>1 DEF Stays
    <3>3. QED
      BY <1>3, <3>1, <3>2
  <2>4. QED
    BY <1>10, <2>1, <2>2, <2>3 DEF Environment
<1>11. QED
  BY <1>7, <1>8, <1>9, <1>10 DEF SharedNext, Next

(* A file in the destination folder that is not a part being written is    *)
(* never changed or removed by a step of the service, be it a received     *)
(* file or somebody else's; only the path of the write probe is excepted.  *)
THEOREM FilesStay == Spec => SettledFilesStay
<1> DEFINE Stay == \A p \in Path \ {ProbePath} :
                      disk[p].kind # "absent" /\ p \notin OpenParts => disk'[p] = disk[p]
<1>1. IInv /\ [Next]_vars => [Stay]_vars
  BY StepStays DEF SharedNext, Stays, Safe, IInv, Own
<1>2. QED
  BY <1>1, Invariance, PTL DEF Spec, SettledFilesStay

-----------------------------------------------------------------------------
(* What the service keeps, shows and records.  The invariant is again      *)
(* stated of the uploads ups, rows t, folder d and answers ack a handler   *)
(* has reached, and of the variables in between steps.                     *)

AgreedOf(x) == sessions[x.session].agreed[x.row]
WholeContent(x) == /\ x.kind = "received" /\ x.bytes = AgreedOf(x).size
                   /\ AgreedOf(x).digest => x.intact
Ours(p) == p \in FinalPath \/ \E q \in FinalPath : p = PartOf[q]
PartsOf(ups) == {PartPath(ups[c]) : c \in DOMAIN ups}

(* The rows are what the user agreed to, and an upload's ceiling is that.  *)
Bounded(ups, t) ==
    /\ session # 0 => Agreed(t) = sessions[session].agreed
    /\ \A c \in DOMAIN ups : /\ ups[c].limit = t.files[ups[c].row].size
                             /\ ups[c].received <= ups[c].limit

(* Every upload has a part file of its own, with its bytes.                *)
Writers(ups, t, d) ==
    /\ \A c \in DOMAIN ups :
          /\ ups[c] \in Upload /\ session # 0 /\ ups[c].row \in DOMAIN t.files
          /\ d[PartPath(ups[c])] = Received(session, ups[c].row, ups[c].received, TRUE)
    /\ \A c, e \in DOMAIN ups : PartPath(ups[c]) = PartPath(ups[e]) => c = e

(* What is in the folder is within what was agreed on, under a name the    *)
(* service gives, and whole, being written, or from before a restart.      *)
Accounted(x) == /\ x.session \in 1..Len(sessions)
                /\ x.row \in DOMAIN sessions[x.session].agreed
                /\ x.bytes <= AgreedOf(x).size
Tidy(ups, d) ==
    \A p \in Path : d[p].kind = "received" =>
        /\ Accounted(d[p]) /\ Ours(p)
        /\ WholeContent(d[p]) \/ p \in PartsOf(ups) \/ d[p].session <= LastBoot

(* A whole file of row r of session s that nobody is writing.              *)
Keeps(ups, d, p, s, r) == /\ p \in Path \ PartsOf(ups) /\ WholeContent(d[p])
                          /\ d[p].session = s /\ d[p].row = r

RowsHold(ups, t, d, ack) ==
    \A r \in DOMAIN t.files :
        /\ t.files[r].status = "done" =>
              /\ <<Len(sessions), r>> \in ack
              /\ Keeps(ups, d, t.files[r].localPath, Len(sessions), r)
        /\ t.files[r].status = "transferring" => \E c \in DOMAIN ups : ups[c].row = r

AnswersHold(ups, d, ack) ==
    \A a \in ack :
        /\ a[1] \in 1..Len(sessions)
        /\ ProbePath \notin FinalPath => \E p \in Path : Keeps(ups, d, p, a[1], a[2])

Sound(ups, t, d, ack) ==
    /\ Bounded(ups, t) /\ Writers(ups, t, d) /\ Tidy(ups, d)
    /\ RowsHold(ups, t, d, ack) /\ AnswersHold(ups, d, ack)

(* Around that: the records, the finished state, the rows of a prompt.     *)
Books ==
    /\ RecordsAreEarned
    /\ session # 0 => sessions[session].peer = peer
    /\ transfer.state = "finished" => AllDone(transfer)
    /\ pending # NoConn => \A r \in DOMAIN transfer.files : transfer.files[r].status = "waiting"
    /\ LastBoot <= Len(sessions)

FInv == Sound(uploads, transfer, disk, acked) /\ Books

(* Rows with the sizes and digests of other rows.                          *)
Alike(u, t) ==
    /\ DOMAIN u.files = DOMAIN t.files
    /\ \A r \in DOMAIN t.files : /\ u.files[r].size = t.files[r].size
                                 /\ u.files[r].digest = t.files[r].digest

LEMMA BoundedKept ==
    ASSUME NEW all, NEW t, NEW ups, NEW u, Bounded(all, t), Alike(u, t),
           DOMAIN ups \subseteq DOMAIN all,
           \A e \in DOMAIN ups : ups[e] = all[e] /\ ups[e].row \in DOMAIN t.files
    PROVE  Bounded(ups, u)
<1>1. Agreed(u) = Agreed(t)
  BY DEF Agreed, Alike
<1>2. \A e \in DOMAIN ups : /\ ups[e].limit = u.files[ups[e].row].size
                            /\ ups[e].received <= ups[e].limit
  BY DEF Bounded, Alike
<1>3. QED
  BY <1>1, <1>2 DEF Bounded

(* The parts that are left when one upload is taken out.                   *)
LEMMA PartsWithout ==
    ASSUME NEW all, NEW t, NEW d, NEW c \in DOMAIN all, NEW ups, Writers(all, t, d),
           DOMAIN ups = DOMAIN all \ {c}, \A e \in DOMAIN ups : ups[e] = all[e]
    PROVE  PartsOf(all) = PartsOf(ups) \cup {PartPath(all[c])}
           /\ PartPath(all[c]) \notin PartsOf(ups)
  BY DEF PartsOf, Writers

LEMMA PartsArePaths ==
    ASSUME NEW all, NEW t, NEW d, Writers(all, t, d)
    PROVE  \A p \in PartsOf(all) : p \in Path /\ d[p].kind = "received"
<1> SUFFICES ASSUME NEW c \in DOMAIN all
             PROVE  PartPath(all[c]) \in Path /\ d[PartPath(all[c])].kind = "received"
  BY DEF PartsOf
<1>1. all[c].final \in FinalPath
  BY DEF Writers, Upload
<1>2. d[PartPath(all[c])] = Received(session, all[c].row, all[c].received, TRUE)
  BY DEF Writers
<1>3. QED
  BY <1>1, <1>2, PathsExist DEF PartPath, Received

(* The uploads that are left keep their writers if their parts stay.       *)
AllBut(c, ups, all) == /\ c \in DOMAIN all /\ DOMAIN ups = DOMAIN all \ {c}
                       /\ \A e \in DOMAIN ups : ups[e] = all[e]
PartsStay(ups, d, f) == \A p \in PartsOf(ups) : f[p] = d[p]
LEMMA WritersWithout ==
    ASSUME NEW all, NEW t, NEW d, NEW c, NEW ups, NEW u, NEW f,
           Writers(all, t, d), Alike(u, t), AllBut(c, ups, all), PartsStay(ups, d, f)
    PROVE  Writers(ups, u, f)
<1> USE DEF AllBut, PartsStay
<1>1. ASSUME NEW e \in DOMAIN ups
      PROVE  /\ ups[e] \in Upload /\ session # 0 /\ ups[e].row \in DOMAIN u.files
             /\ f[PartPath(ups[e])] = Received(session, ups[e].row, ups[e].received, TRUE)
  <2>1. PartPath(ups[e]) \in PartsOf(ups) /\ e \in DOMAIN all /\ ups[e] = all[e]
    BY DEF PartsOf
  <2>2. QED
    BY <2>1 DEF Writers, Alike
<1>2. \A e, g \in DOMAIN ups : PartPath(ups[e]) = PartPath(ups[g]) => e = g
  BY DEF Writers
<1>3. QED
  BY <1>1, <1>2 DEF Writers

(* An upload is given up: its row fails and its part goes.                 *)
LEMMA SoundDrop ==
    ASSUME NEW all, NEW t, NEW d, NEW ack, NEW c \in DOMAIN all, NEW ups, NEW u,
           Sound(all, t, d, ack), Alike(u, t),
           DOMAIN ups = DOMAIN all \ {c}, \A e \in DOMAIN ups : ups[e] = all[e],
           \A r \in DOMAIN t.files :
               /\ u.files[r].status = IF r = all[c].row THEN "failed" ELSE t.files[r].status
               /\ u.files[r].localPath = t.files[r].localPath
    PROVE  Sound(ups, u, RemoveAll(d, {PartPath(all[c])}), ack)
<1> DEFINE f == RemoveAll(d, {PartPath(all[c])})
<1>1. /\ Bounded(all, t) /\ Writers(all, t, d) /\ Tidy(all, d)
      /\ RowsHold(all, t, d, ack) /\ AnswersHold(all, d, ack)
  BY DEF Sound
<1>2. /\ PartsOf(all) = PartsOf(ups) \cup {PartPath(all[c])}
      /\ PartPath(all[c]) \notin PartsOf(ups)
  BY <1>1, PartsWithout
<1>3. \A p \in Path : f[p] = IF p = PartPath(all[c]) THEN Absent ELSE d[p]
  BY DEF RemoveAll
<1> HIDE DEF f
<1>4. \A e \in DOMAIN ups : ups[e].row \in DOMAIN t.files /\ ups[e] \in Upload
  BY <1>1 DEF Writers
<1>5. Bounded(ups, u)
  BY <1>1, <1>4, BoundedKept
<1>6. Writers(ups, u, f)
  <2>1. PartsOf(ups) \subseteq Path
    BY <1>1, <1>2, PartsArePaths
  <2>2. PartsStay(ups, d, f)
    BY <2>1, <1>2, <1>3 DEF PartsStay
  <2>3. AllBut(c, ups, all)
    BY DEF AllBut
  <2>4. QED
    <3> HIDE DEF f
    <3> QED BY <2>2, <2>3, <1>1, WritersWithout
<1>7. Tidy(ups, f)
  BY <1>1, <1>2, <1>3 DEF Tidy, Absent
<1>8. ASSUME NEW p, NEW s, NEW r, Keeps(all, d, p, s, r) PROVE Keeps(ups, f, p, s, r)
  BY <1>8, <1>2, <1>3 DEF Keeps
<1>9. RowsHold(ups, u, f, ack)
  <2> SUFFICES ASSUME NEW r \in DOMAIN t.files
               PROVE  /\ u.files[r].status = "done" =>
                            /\ <<Len(sessions), r>> \in ack
                            /\ Keeps(ups, f, u.files[r].localPath, Len(sessions), r)
                      /\ u.files[r].status = "transferring" =>
                            \E e \in DOMAIN ups : ups[e].row = r
    BY DEF RowsHold, Alike
  <2>1. CASE u.files[r].status = "done"
    BY <2>1, <1>1, <1>8 DEF RowsHold
  <2>2. CASE u.files[r].status = "transferring"
    <3>1. r # all[c].row /\ t.files[r].status = "transferring"
      BY <2>2
    <3>2. PICK e \in DOMAIN all : all[e].row = r
      BY <3>1, <1>1 DEF RowsHold
    <3>3. QED
      BY <2>2, <3>1, <3>2
  <2>3. QED
    BY <2>1, <2>2
<1>10. AnswersHold(ups, f, ack)
  BY <1>1, <1>8 DEF AnswersHold
<1>11. QED
  BY <1>5, <1>6, <1>7, <1>9, <1>10 DEF Sound, f

(* A completed upload is kept: its row is done, and the bytes, all that    *)
(* was agreed on, are under the final name or, failing that, its part name.*)
Keeping(all, c, ups, t, u, d, f, intact) ==
    /\ Alike(u, t) /\ c \in DOMAIN all /\ intact \in BOOLEAN
    /\ DOMAIN ups = DOMAIN all \ {c} /\ \A e \in DOMAIN ups : ups[e] = all[e]
    /\ Kept(all[c], t.files[all[c].row], intact)
    /\ t.files[all[c].row].size \in Nat
    /\ \A r \in DOMAIN t.files :
          IF r = all[c].row
          THEN u.files[r].status = "done" /\ u.files[r].localPath = Place(d, all[c])
          ELSE /\ u.files[r].status = t.files[r].status
               /\ u.files[r].localPath = t.files[r].localPath
    /\ \A p \in Path : f[p] =
          IF p = Place(d, all[c])
          THEN Received(session, all[c].row, all[c].received, intact)
          ELSE IF p = PartPath(all[c]) THEN Absent ELSE d[p]

LEMMA SoundKeep ==
    ASSUME NEW all, NEW t, NEW d, NEW ack, NEW c, NEW ups, NEW u, NEW f, NEW intact,
           session \in 1..Len(sessions), session = Len(sessions),
           Sound(all, t, d, ack), Keeping(all, c, ups, t, u, d, f, intact)
    PROVE  Sound(ups, u, f, ack \cup {<<session, all[c].row>>})
<1> USE DEF Keeping
<1> DEFINE v == all[c]
           part == PartPath(v)
           place == Place(d, v)
           x == Received(session, v.row, v.received, intact)
           more == ack \cup {<<session, v.row>>}
<1>1. /\ Bounded(all, t) /\ Writers(all, t, d) /\ Tidy(all, d)
      /\ RowsHold(all, t, d, ack) /\ AnswersHold(all, d, ack)
  BY DEF Sound
<1>2. /\ v \in Upload /\ v.row \in DOMAIN t.files
      /\ v.received = t.files[v.row].size
      /\ t.files[v.row].digest => intact
  <2>1. v \in Upload /\ v.row \in DOMAIN t.files
    BY <1>1 DEF Writers
  <2>2. v.received <= t.files[v.row].size /\ v.received \in Nat
    BY <1>1, <2>1 DEF Bounded, Upload
  <2>3. QED
    BY <2>1, <2>2 DEF Kept
<1>3. /\ v.final \in FinalPath /\ v.final \in Path /\ part \in Path /\ part = PartOf[v.final]
      /\ part # v.final
  BY <1>2, PathsExist DEF Upload, PartPath
<1>4. /\ PartsOf(all) = PartsOf(ups) \cup {part} /\ part \notin PartsOf(ups)
  BY <1>1, PartsWithout
<1>5. \A p \in PartsOf(all) : d[p].kind = "received"
  BY <1>1, PartsArePaths
<1>6. /\ place \in Path /\ place \notin PartsOf(ups) /\ Ours(place)
      /\ place = part \/ d[place].kind # "received"
  BY <1>3, <1>4, <1>5 DEF Place, Ours
<1>7. /\ x.kind = "received" /\ x.session = session /\ x.row = v.row
      /\ x.bytes = v.received /\ x.intact = intact
  BY DEF Received
<1>8. Accounted(x) /\ WholeContent(x)
  <2>1. Agreed(t) = sessions[session].agreed
    BY <1>1 DEF Bounded
  <2>2. /\ v.row \in DOMAIN Agreed(t)
        /\ Agreed(t)[v.row].size = t.files[v.row].size
        /\ Agreed(t)[v.row].digest = t.files[v.row].digest
    BY <1>2 DEF Agreed
  <2> HIDE DEF x, v
  <2>3. AgreedOf(x).size = x.bytes /\ AgreedOf(x).digest = t.files[v.row].digest
    BY <2>1, <2>2, <1>2, <1>7 DEF AgreedOf
  <2>4. x.session \in 1..Len(sessions) /\ x.row \in DOMAIN sessions[x.session].agreed
    BY <2>1, <2>2, <1>7
  <2>5. x.bytes \in Nat
    BY <1>2, <1>7 DEF Upload
  <2>6. QED
    BY <2>3, <2>4, <2>5, <1>2, <1>7 DEF Accounted, WholeContent
<1> HIDE DEF v, part, place, x
<1>9. /\ f[place] = x /\ \A p \in Path \ {place, part} : f[p] = d[p]
      /\ part # place => f[part] = Absent
  BY <1>3, <1>6 DEF v, part, place, x
<1>10. Bounded(ups, u)
  <2>1. \A e \in DOMAIN ups : ups[e] = all[e] /\ ups[e].row \in DOMAIN t.files
    BY <1>1 DEF Writers
  <2>2. QED
    BY <2>1, <1>1, BoundedKept
<1>11. Writers(ups, u, f)
  <2>1. PartsOf(all) \subseteq Path
    BY <1>1, PartsArePaths
  <2>2. PartsStay(ups, d, f)
    BY <2>1, <1>4, <1>6, <1>9 DEF PartsStay
  <2>3. Writers(all, t, d) /\ Alike(u, t) /\ AllBut(c, ups, all)
    BY <1>1 DEF AllBut
  <2>4. QED
    BY ONLY <2>2, <2>3, WritersWithout
<1>12. Tidy(ups, f)
  <2> SUFFICES ASSUME NEW p \in Path, f[p].kind = "received"
               PROVE  /\ Accounted(f[p]) /\ Ours(p)
                      /\ WholeContent(f[p]) \/ p \in PartsOf(ups) \/ f[p].session <= LastBoot
    BY DEF Tidy
  <2>1. CASE p = place
    BY <2>1, <1>6, <1>8, <1>9
  <2>2. CASE p # place
    <3>1. p # part
      BY <2>2, <1>9 DEF Absent
    <3>2. QED
      BY <2>2, <3>1, <1>1, <1>4, <1>9 DEF Tidy
  <2>3. QED
    BY <2>1, <2>2
<1>13. Keeps(ups, f, place, session, v.row)
  BY <1>6, <1>7, <1>8, <1>9 DEF Keeps
<1>14. ASSUME NEW p, NEW s, NEW r, Keeps(all, d, p, s, r) PROVE Keeps(ups, f, p, s, r)
  <2>1. p \in Path /\ p # part /\ p \notin PartsOf(ups) /\ d[p].kind = "received"
    BY <1>14, <1>4 DEF Keeps, WholeContent
  <2>2. f[p] = d[p]
    BY <2>1, <1>6, <1>9
  <2>3. QED
    BY <1>14, <2>1, <2>2 DEF Keeps
<1>15. RowsHold(ups, u, f, more)
  <2> SUFFICES ASSUME NEW r \in DOMAIN t.files
               PROVE  /\ u.files[r].status = "done" =>
                            /\ <<Len(sessions), r>> \in more
                            /\ Keeps(ups, f, u.files[r].localPath, Len(sessions), r)
                      /\ u.files[r].status = "transferring" =>
                            \E e \in DOMAIN ups : ups[e].row = r
    BY DEF RowsHold, Alike
  <2>1. CASE r = v.row
    BY <2>1, <1>13 DEF v, place
  <2>2. CASE r # v.row
    <3>1. u.files[r].status = t.files[r].status /\ u.files[r].localPath = t.files[r].localPath
      BY <2>2 DEF v
    <3>2. CASE u.files[r].status = "done"
      BY <3>1, <3>2, <1>1, <1>14 DEF RowsHold
    <3>3. CASE u.files[r].status = "transferring"
      <4>1. PICK e \in DOMAIN all : all[e].row = r
        BY <3>1, <3>3, <1>1 DEF RowsHold
      <4>2. e # c
        BY <2>2, <4>1 DEF v
      <4>3. QED
        BY <3>3, <4>1, <4>2
    <3>4. QED
      BY <3>2, <3>3
  <2>3. QED
    BY <2>1, <2>2
<1>16. AnswersHold(ups, f, more)
  <2> SUFFICES ASSUME NEW a \in more
               PROVE  /\ a[1] \in 1..Len(sessions)
                      /\ ProbePath \notin FinalPath =>
                            \E p \in Path : Keeps(ups, f, p, a[1], a[2])
    BY DEF AnswersHold
  <2>1. CASE a \in ack
    BY <2>1, <1>1, <1>14 DEF AnswersHold
  <2>2. CASE a = <<session, v.row>>
    BY <2>2, <1>6, <1>13
  <2>3. QED
    BY <2>1, <2>2
<1>17. QED
  BY <1>10, <1>11, <1>12, <1>15, <1>16 DEF Sound, v

(* An upload is begun on a free part name, or has written on.              *)
Writing(all, c, ups, t, u, d, f) ==
    /\ Alike(u, t)
    /\ DOMAIN ups = DOMAIN all \cup {c} /\ \A e \in DOMAIN all \ {c} : ups[e] = all[e]
    /\ ups[c] \in Upload /\ ups[c].row \in DOMAIN t.files
    /\ ups[c].limit = t.files[ups[c].row].size /\ ups[c].received <= ups[c].limit
    /\ \/ /\ c \in DOMAIN all
          /\ all[c].row = ups[c].row /\ PartPath(all[c]) = PartPath(ups[c])
       \/ c \notin DOMAIN all /\ d[PartPath(ups[c])].kind = "absent"
    /\ \A p \in Path : f[p] = IF p = PartPath(ups[c])
                             THEN Received(session, ups[c].row, ups[c].received, TRUE)
                             ELSE d[p]
    /\ \A r \in DOMAIN t.files :
          /\ u.files[r].status = "done" =>
                t.files[r].status = "done" /\ u.files[r].localPath = t.files[r].localPath
          /\ u.files[r].status = "transferring" =>
                t.files[r].status = "transferring" \/ r = ups[c].row

LEMMA SoundWrite ==
    ASSUME NEW all, NEW t, NEW d, NEW ack, NEW c, NEW ups, NEW u, NEW f,
           session \in 1..Len(sessions), session = Len(sessions),
           Sound(all, t, d, ack), Writing(all, c, ups, t, u, d, f)
    PROVE  Sound(ups, u, f, ack)
<1> USE DEF Writing
<1> DEFINE v == ups[c]
           part == PartPath(v)
           x == Received(session, v.row, v.received, TRUE)
<1>1. /\ Bounded(all, t) /\ Writers(all, t, d) /\ Tidy(all, d)
      /\ RowsHold(all, t, d, ack) /\ AnswersHold(all, d, ack)
  BY DEF Sound
<1>2. /\ v.final \in FinalPath /\ part = PartOf[v.final] /\ part \in Path
      /\ v \in Upload /\ v.row \in DOMAIN t.files
  BY PathsExist DEF Upload, PartPath
<1>3. \A p \in PartsOf(all) : p \in Path /\ d[p].kind = "received"
  BY <1>1, PartsArePaths
<1>4. \A e \in DOMAIN all \ {c} : ups[e] = all[e] /\ PartPath(all[e]) # part
  <2> TAKE e \in DOMAIN all \ {c}
  <2>1. CASE c \in DOMAIN all
    BY <2>1, <1>1 DEF Writers
  <2>2. CASE c \notin DOMAIN all
    <3>1. d[PartPath(all[e])].kind = "received"
      BY <1>3 DEF PartsOf
    <3>2. QED
      BY <2>2, <3>1
  <2>3. QED
    BY <2>1, <2>2
<1>5. PartsOf(ups) = PartsOf(all) \cup {part}
      /\ (part \in PartsOf(all) \/ d[part].kind # "received")
  <2>1. \A p : p \in PartsOf(ups) <=> \E e \in DOMAIN ups : p = PartPath(ups[e])
    BY DEF PartsOf
  <2>2. \A p : p \in PartsOf(all) <=> \E e \in DOMAIN all : p = PartPath(all[e])
    BY DEF PartsOf
  <2>3. QED
    BY <2>1, <2>2, <1>4
<1>6. /\ x.kind = "received" /\ x.session = session /\ x.row = v.row
      /\ x.bytes = v.received
  BY DEF Received
<1>7. /\ Agreed(t) = sessions[session].agreed /\ Agreed(u) = Agreed(t)
      /\ v.row \in DOMAIN Agreed(t) /\ Agreed(t)[v.row].size = t.files[v.row].size
  BY <1>1, <1>2 DEF Bounded, Agreed, Alike
<1>8. Accounted(x)
  <2> HIDE DEF x
  <2> QED BY <1>6, <1>7 DEF Accounted, AgreedOf
<1>9. f[part] = x /\ \A p \in Path \ {part} : f[p] = d[p]
  BY <1>2
<1> HIDE DEF x, part
<1>10. Bounded(ups, u)
  <2>1. ASSUME NEW e \in DOMAIN ups
        PROVE  ups[e].limit = u.files[ups[e].row].size /\ ups[e].received <= ups[e].limit
    <3>1. CASE e = c
      BY <3>1 DEF Alike
    <3>2. CASE e # c
      <4>1. e \in DOMAIN all /\ ups[e] = all[e] /\ all[e].row \in DOMAIN t.files
        BY <3>2, <1>1 DEF Writers
      <4>2. QED
        BY <4>1, <1>1 DEF Bounded, Alike
    <3>3. QED
      BY <3>1, <3>2
  <2>2. QED
    BY <2>1, <1>7 DEF Bounded
<1>11. Writers(ups, u, f)
  <2>1. ASSUME NEW e \in DOMAIN ups
        PROVE  /\ ups[e] \in Upload /\ session # 0 /\ ups[e].row \in DOMAIN u.files
               /\ f[PartPath(ups[e])] = Received(session, ups[e].row, ups[e].received, TRUE)
    <3>1. CASE e = c
      BY <3>1, <1>2, <1>9 DEF Alike, part, x
    <3>2. CASE e # c
      <4>1. e \in DOMAIN all /\ ups[e] = all[e] /\ PartPath(all[e]) # part
        BY <3>2, <1>4
      <4>2. PartPath(all[e]) \in Path
        BY <4>1, <1>3 DEF PartsOf
      <4>3. f[PartPath(ups[e])] = d[PartPath(all[e])]
        BY <4>1, <4>2, <1>9
      <4>4. QED
        BY <4>1, <4>3, <1>1 DEF Writers, Alike
    <3>3. QED
      BY <3>1, <3>2
  <2>2. ASSUME NEW e \in DOMAIN ups, NEW g \in DOMAIN ups, PartPath(ups[e]) = PartPath(ups[g])
        PROVE  e = g
    <3>1. CASE e # c /\ g # c
      BY <2>2, <3>1, <1>1, <1>4 DEF Writers
    <3>2. CASE e = c \/ g = c
      BY <2>2, <3>2, <1>4 DEF part
    <3>3. QED
      BY <3>1, <3>2
  <2>3. QED
    BY <2>1, <2>2 DEF Writers
<1>12. Tidy(ups, f)
  <2> SUFFICES ASSUME NEW p \in Path, f[p].kind = "received"
               PROVE  /\ Accounted(f[p]) /\ Ours(p)
                      /\ WholeContent(f[p]) \/ p \in PartsOf(ups) \/ f[p].session <= LastBoot
    BY DEF Tidy
  <2>1. CASE p = part
    BY <2>1, <1>2, <1>5, <1>8, <1>9 DEF Ours
  <2>2. CASE p # part
    BY <2>2, <1>1, <1>5, <1>9 DEF Tidy
  <2>3. QED
    BY <2>1, <2>2
<1>13. ASSUME NEW p, NEW s, NEW r, Keeps(all, d, p, s, r) PROVE Keeps(ups, f, p, s, r)
  <2>1. p \in Path /\ p \notin PartsOf(all) /\ d[p].kind = "received"
    BY <1>13 DEF Keeps, WholeContent
  <2>2. p # part
    BY <2>1, <1>5
  <2>3. f[p] = d[p] /\ p \notin PartsOf(ups)
    BY <2>1, <2>2, <1>5, <1>9
  <2>4. QED
    BY <1>13, <2>1, <2>3 DEF Keeps
<1>14. RowsHold(ups, u, f, ack)
  <2> SUFFICES ASSUME NEW r \in DOMAIN t.files
               PROVE  /\ u.files[r].status = "done" =>
                            /\ <<Len(sessions), r>> \in ack
                            /\ Keeps(ups, f, u.files[r].localPath, Len(sessions), r)
                      /\ u.files[r].status = "transferring" =>
                            \E e \in DOMAIN ups : ups[e].row = r
    BY DEF RowsHold, Alike
  <2>1. CASE u.files[r].status = "done"
    BY <2>1, <1>1, <1>13 DEF RowsHold
  <2>2. CASE u.files[r].status = "transferring"
    <3>1. CASE r = v.row
      BY <2>2, <3>1
    <3>2. CASE r # v.row
      <4>1. PICK e \in DOMAIN all : all[e].row = r
        BY <2>2, <3>2, <1>1 DEF RowsHold
      <4>2. e # c
        BY <3>2, <4>1
      <4>3. QED
        BY <2>2, <4>1, <4>2, <1>4
    <3>3. QED
      BY <3>1, <3>2
  <2>3. QED
    BY <2>1, <2>2
<1>15. AnswersHold(ups, f, ack)
  BY <1>1, <1>13 DEF AnswersHold
<1>16. QED
  BY <1>10, <1>11, <1>12, <1>14, <1>15 DEF Sound

(* A row that is not done fails, or nothing but its progress changes.      *)
LEMMA SoundRows ==
    ASSUME NEW ups, NEW t, NEW d, NEW ack, NEW u,
           Sound(ups, t, d, ack), Alike(u, t),
           \A r \in DOMAIN t.files :
               /\ u.files[r].status = "done" =>
                     t.files[r].status = "done" /\ u.files[r].localPath = t.files[r].localPath
               /\ u.files[r].status = "transferring" => t.files[r].status = "transferring"
    PROVE  Sound(ups, u, d, ack)
<1>1. /\ Bounded(ups, t) /\ Writers(ups, t, d) /\ Tidy(ups, d)
      /\ RowsHold(ups, t, d, ack) /\ AnswersHold(ups, d, ack)
  BY DEF Sound
<1>2. Bounded(ups, u)
  <2>1. \A e \in DOMAIN ups : ups[e].row \in DOMAIN t.files
    BY <1>1 DEF Writers
  <2>2. QED
    BY <2>1, <1>1, BoundedKept
<1>3. Writers(ups, u, d)
  BY <1>1 DEF Writers, Alike
<1>4. RowsHold(ups, u, d, ack)
  BY <1>1 DEF RowsHold, Alike
<1>5. QED
  BY <1>1, <1>2, <1>3, <1>4 DEF Sound

-----------------------------------------------------------------------------
(* How a handler ends: the session goes on, or it is finished.             *)

(* Sound() of what a handler reached is Sound() of the next state.         *)
LEMMA SoundNext ==
    ASSUME NEW ups, NEW t, NEW d, NEW ack, Sound(ups, t, d, ack),
           uploads' = ups, transfer' = t, disk' = d, acked' = ack,
           session' = session, sessions' = sessions, boots' = boots
    PROVE  Sound(uploads, transfer, disk, acked)'
<1>1. /\ Bounded(ups, t) /\ Writers(ups, t, d) /\ Tidy(ups, d)
      /\ RowsHold(ups, t, d, ack) /\ AnswersHold(ups, d, ack)
  BY DEF Sound
<1>2. Bounded(uploads, transfer)'
  BY <1>1 DEF Bounded, Agreed
<1>3. Writers(uploads, transfer, disk)'
  BY <1>1 DEF Writers, PartPath
<1>4. Tidy(uploads, disk)'
  BY <1>1 DEF Tidy, Accounted, AgreedOf, WholeContent, Ours, PartsOf, PartPath, LastBoot
<1>5. ASSUME NEW p, NEW s, NEW r, Keeps(ups, d, p, s, r)
      PROVE  Keeps(uploads, disk, p, s, r)'
  BY <1>5 DEF Keeps, WholeContent, AgreedOf, PartsOf, PartPath
<1>6. RowsHold(uploads, transfer, disk, acked)'
  <2> SUFFICES ASSUME NEW r \in DOMAIN t.files
               PROVE  /\ t.files[r].status = "done" =>
                            /\ <<Len(sessions), r>> \in ack
                            /\ Keeps(uploads, disk, t.files[r].localPath, Len(sessions), r)'
                      /\ t.files[r].status = "transferring" =>
                            \E c \in DOMAIN ups : ups[c].row = r
    BY DEF RowsHold
  <2> QED BY <1>1, <1>5 DEF RowsHold
<1>7. AnswersHold(uploads, disk, acked)'
  BY <1>1, <1>5 DEF AnswersHold
<1>8. QED
  BY <1>2, <1>3, <1>4, <1>6, <1>7 DEF Sound

LEMMA ContinueSound ==
    ASSUME FInv, NEW k, NEW ups, NEW t, NEW d, NEW timer, Sound(ups, t, d, acked'),
           acked \subseteq acked', boots' = boots, t.state = transfer.state,
           session # 0, pending = NoConn, transfer.state = "active",
           Continue(k, ups, t, d, timer)
    PROVE  FInv'
<1>1. /\ uploads' = ups /\ transfer' = t /\ disk' = d /\ pending' = pending
      /\ session' = session /\ sessions' = sessions /\ peer' = peer
      /\ known' = known /\ history' = history
  BY DEF Continue, sessionVars, recordVars
<1>2. Sound(uploads, transfer, disk, acked)'
  BY <1>1, SoundNext
<1>3. Books'
  BY <1>1 DEF FInv, Books, RecordsAreEarned, LastBoot
<1>4. QED
  BY <1>2, <1>3 DEF FInv

(* Closing a session keeps done rows that nobody is sending again, makes   *)
(* no row done and leaves none streaming.                                  *)
LEMMA ClosedRows ==
    ASSUME NEW t \in Transfer, NEW ups
    PROVE  /\ DOMAIN CloseRows(t, ups).files = DOMAIN t.files
           /\ \A r \in DOMAIN t.files :
                 /\ CloseRows(t, ups).files[r].localPath = t.files[r].localPath
                 /\ CloseRows(t, ups).files[r].status = "done" => t.files[r].status = "done"
                 /\ CloseRows(t, ups).files[r].status # "transferring"
<1> DEFINE streaming == {ups[c].row : c \in DOMAIN ups}
           closed(r) == IF r \in streaming THEN "failed"
                        ELSE IF t.files[r].status \in {"waiting", "transferring"} THEN "skipped"
                        ELSE t.files[r].status
<1>1. /\ DOMAIN CloseRows(t, ups).files = DOMAIN t.files
      /\ \A r \in DOMAIN t.files :
            CloseRows(t, ups).files[r] = [t.files[r] EXCEPT !.status = closed(r)]
  BY DEF CloseRows, Updated
<1> HIDE DEF streaming
<1>2. ASSUME NEW r \in DOMAIN t.files
      PROVE  /\ closed(r) = "done" => t.files[r].status = "done"
             /\ closed(r) # "transferring"
  OBVIOUS
<1> HIDE DEF closed
<1>3. ASSUME NEW r \in DOMAIN t.files
      PROVE  /\ [t.files[r] EXCEPT !.status = closed(r)].localPath = t.files[r].localPath
             /\ [t.files[r] EXCEPT !.status = closed(r)].status = closed(r)
  <2>1. t.files[r] \in FileEntry
    BY DEF Transfer
  <2>2. QED
    BY <2>1 DEF FileEntry
<1>4. QED
  BY <1>1, <1>2, <1>3

(* finishSession(): the parts go, the rows are closed, and what is entered *)
(* in the history or remembered was answered.                              *)
LEMMA FinishSound ==
    ASSUME IInv, FInv, NEW k, NEW ups, NEW t \in Transfer, NEW d, NEW cancelled \in BOOLEAN,
           Sound(ups, t, d, acked'), acked \subseteq acked', boots' = boots,
           finishSession(k, ups, t, d, cancelled)
    PROVE  FInv'
<1> DEFINE closed == CloseRows(t, ups)
<1>1. /\ uploads' = NoUploads
      /\ disk' = RemoveAll(d, PartsOf(ups))
      /\ pending' = NoConn /\ session' = 0 /\ sessions' = sessions /\ peer' = peer
      /\ session = 0 => transfer' = setState(t, "cancelled") /\ UNCHANGED recordVars
      /\ session # 0 =>
             /\ transfer' = setState(closed, Outcome(closed, cancelled))
             /\ known' = known \cup (IF SomeDone(closed) THEN {peer} ELSE {})
             /\ history' = history \cup {<<session, r>> : r \in DoneRows(closed)}
  BY DEF finishSession, PartsOf
<1>2. /\ DOMAIN closed.files = DOMAIN t.files
      /\ \A r \in DOMAIN t.files :
            /\ closed.files[r].localPath = t.files[r].localPath
            /\ closed.files[r].status = "done" => t.files[r].status = "done"
            /\ closed.files[r].status # "transferring"
  BY ClosedRows
<1> HIDE DEF closed
<1>3. /\ Bounded(ups, t) /\ Writers(ups, t, d) /\ Tidy(ups, d)
      /\ RowsHold(ups, t, d, acked') /\ AnswersHold(ups, d, acked')
  BY DEF Sound
<1>4. DOMAIN uploads' = {} /\ PartsOf(uploads)' = {}
  BY <1>1 DEF NoUploads, PartsOf
<1>5. \A p \in Path : disk'[p] = IF p \in PartsOf(ups) THEN Absent ELSE d[p]
  BY <1>1 DEF RemoveAll
<1>6. /\ DOMAIN transfer'.files = DOMAIN t.files
      /\ \A r \in DOMAIN t.files :
            /\ transfer'.files[r].status = "done" =>
                  /\ t.files[r].status = "done"
                  /\ transfer'.files[r].localPath = t.files[r].localPath
            /\ transfer'.files[r].status # "transferring"
  <2>1. CASE session = 0
    <3>1. transfer'.files = t.files
      BY <2>1, <1>1 DEF setState
    <3>2. \A r \in DOMAIN t.files : t.files[r].status # "transferring"
      BY <2>1, <1>3 DEF RowsHold, Writers
    <3>3. QED
      BY <3>1, <3>2
  <2>2. CASE session # 0
    <3>1. transfer'.files = closed.files
      BY <2>2, <1>1 DEF setState
    <3>2. QED
      BY <3>1, <1>2
  <2>3. QED
    BY <2>1, <2>2
<1>7. Bounded(uploads, transfer)' /\ Writers(uploads, transfer, disk)'
  BY <1>1, <1>4 DEF Bounded, Writers
<1>8. \A x : Accounted(x)' = Accounted(x) /\ WholeContent(x)' = WholeContent(x)
  BY <1>1 DEF Accounted, WholeContent, AgreedOf
<1>9. Tidy(uploads, disk)'
  <2> SUFFICES ASSUME NEW p \in Path, disk'[p].kind = "received"
               PROVE  /\ Accounted(d[p]) /\ Ours(p) /\ disk'[p] = d[p]
                      /\ WholeContent(d[p]) \/ d[p].session <= LastBoot
    BY <1>1, <1>8 DEF Tidy, LastBoot, Accounted, WholeContent, AgreedOf, Ours
  <2>1. p \notin PartsOf(ups) /\ disk'[p] = d[p]
    BY <1>5 DEF Absent
  <2>2. QED
    BY <2>1, <1>3 DEF Tidy
<1>10. ASSUME NEW p, NEW s, NEW r, Keeps(ups, d, p, s, r) PROVE Keeps(uploads, disk, p, s, r)'
  <2>1. p \in Path /\ disk'[p] = d[p] /\ p \notin PartsOf(uploads)'
    BY <1>10, <1>4, <1>5 DEF Keeps
  <2>2. QED
    BY <1>1, <1>10, <2>1 DEF Keeps, WholeContent, AgreedOf
<1>11. RowsHold(uploads, transfer, disk, acked)'
  <2> SUFFICES ASSUME NEW r \in DOMAIN t.files, transfer'.files[r].status = "done"
               PROVE  /\ <<Len(sessions), r>> \in acked'
                      /\ Keeps(uploads, disk, t.files[r].localPath, Len(sessions), r)'
    BY <1>1, <1>6 DEF RowsHold
  <2>1. t.files[r].status = "done"
    BY <1>6
  <2>2. /\ <<Len(sessions), r>> \in acked'
        /\ Keeps(ups, d, t.files[r].localPath, Len(sessions), r)
    BY <2>1, <1>3 DEF RowsHold
  <2>3. QED
    BY <2>2, <1>1, <1>10
<1>12. AnswersHold(uploads, disk, acked)'
  BY <1>1, <1>3, <1>10 DEF AnswersHold
<1>13. RecordsAreEarned'
  <2>1. history \subseteq acked' /\ \A f \in known : \E a \in acked' : sessions[a[1]].peer = f
    BY DEF FInv, Books, RecordsAreEarned
  <2>2. CASE session = 0
    BY <2>1, <2>2, <1>1 DEF RecordsAreEarned, recordVars
  <2>3. CASE session # 0
    <3>1. session = Len(sessions) /\ sessions[session].peer = peer
      BY <2>3 DEF IInv, Own, Current, FInv, Books
    <3>2. \A r \in DoneRows(closed) : <<session, r>> \in acked'
      BY <3>1, <1>2, <1>3 DEF DoneRows, RowsHold
    <3>3. history' \subseteq acked'
      BY <2>1, <2>3, <3>2, <1>1
    <3>4. SomeDone(closed) => \E a \in acked' : sessions[a[1]].peer = peer
      <4> SUFFICES ASSUME NEW r \in DOMAIN closed.files, closed.files[r].status = "done"
                   PROVE  \E a \in acked' : sessions[a[1]].peer = peer
        BY DEF SomeDone
      <4>1. <<session, r>> \in acked'
        BY <3>2 DEF DoneRows
      <4>2. <<session, r>>[1] = session
        OBVIOUS
      <4>3. QED
        BY <4>1, <4>2, <3>1
    <3>5. QED
      BY <2>1, <2>3, <3>3, <3>4, <1>1 DEF RecordsAreEarned
  <2>4. QED
    BY <2>2, <2>3
<1>14. transfer'.state = "finished" => AllDone(transfer)'
  BY <1>1 DEF setState, Outcome, AllDone
<1>15. LastBoot' <= Len(sessions')
  BY <1>1 DEF FInv, Books, LastBoot
<1>16. QED
  BY <1>1, <1>7, <1>9, <1>11, <1>12, <1>13, <1>14, <1>15 DEF FInv, Sound, Books

LEMMA SettledSound ==
    ASSUME IInv, FInv, NEW k, NEW ups, NEW t \in Transfer, NEW d, NEW timer,
           session # 0, t.state = transfer.state,
           Sound(ups, t, d, acked'), acked \subseteq acked', boots' = boots,
           FinishIfSettled(k, ups, t, d, timer)
    PROVE  FInv'
<1>1. pending = NoConn /\ transfer.state = "active"
  BY DEF IInv, Own, Backed, Shown
<1>2. CASE AllSettled(t)
  BY <1>2, FinishSound DEF FinishIfSettled
<1>3. CASE ~AllSettled(t)
  BY <1>1, <1>3, ContinueSound DEF FinishIfSettled
<1>4. QED
  BY <1>2, <1>3

(* Steps that leave rows, uploads, folder and records alone.               *)
LEMMA Untouched ==
    ASSUME FInv, UNCHANGED <<uploads, sessionVars, disk, recordVars, obsVars>>,
           pending' \in {pending, NoConn}, transfer'.files = transfer.files,
           transfer'.state = "finished" => transfer.state = "finished"
    PROVE  FInv'
<1> USE DEF sessionVars, recordVars, obsVars
<1>1. Sound(uploads, transfer, disk, acked)
  BY DEF FInv
<1>2. Sound(uploads, transfer', disk, acked)
  BY <1>1, SoundRows DEF Alike
<1>3. Sound(uploads, transfer, disk, acked)'
  BY <1>2, SoundNext
<1>4. Books'
  BY DEF FInv, Books, RecordsAreEarned, LastBoot, AllDone
<1>5. QED
  BY <1>3, <1>4 DEF FInv

(* New rows are put up while no session is open.                           *)
LEMMA FreshRows ==
    ASSUME IInv, FInv, session = 0, session' = 0, transfer'.state # "finished",
           \A r \in DOMAIN transfer'.files : transfer'.files[r].status = "waiting",
           UNCHANGED <<uploads, sessions, disk, recordVars, obsVars>>
    PROVE  FInv'
<1> USE DEF recordVars, obsVars
<1>1. DOMAIN uploads = {}
  BY DEF IInv, Own, UploadsBelong
<1>2. /\ Bounded(uploads, transfer) /\ Writers(uploads, transfer, disk) /\ Tidy(uploads, disk)
      /\ RowsHold(uploads, transfer, disk, acked) /\ AnswersHold(uploads, disk, acked)
  BY DEF FInv, Sound
<1>3. Bounded(uploads, transfer') /\ Writers(uploads, transfer', disk)
      /\ RowsHold(uploads, transfer', disk, acked)
  BY <1>1 DEF Bounded, Writers, RowsHold
<1>4. Sound(uploads, transfer', disk, acked)
  BY <1>2, <1>3 DEF Sound
<1>5. Sound(uploads, transfer, disk, acked)'
  BY <1>4, SoundNext
<1>6. Books'
  BY DEF FInv, Books, RecordsAreEarned, LastBoot
<1>7. QED
  BY <1>5, <1>6 DEF FInv

(* A session opens on rows that wait, and the probe has come and gone: if  *)
(* no file can be given the probe's name, nothing that was answered for is *)
(* lost.                                                                   *)
LEMMA OpenSound ==
    ASSUME IInv, FInv, session = 0, NEW address, NEW t \in Transfer,
           \A r \in DOMAIN t.files : t.files[r].status = "waiting",
           OpenSession(address, t), pending' = NoConn,
           UNCHANGED <<uploads, recordVars, obsVars>>
    PROVE  FInv'
<1> USE DEF recordVars, obsVars
<1> DEFINE n == Len(sessions)
           new == [peer |-> peer', address |-> address, agreed |-> Agreed(t)]
<1>1. DOMAIN uploads = {} /\ n \in Nat /\ sessions \in Seq(Session)
      /\ disk \in [Path -> Content]
  <2>1. sessions \in Seq(Session) /\ disk \in [Path -> Content]
    BY DEF IInv, Own, TypeOK
  <2>2. DOMAIN uploads = {}
    BY DEF IInv, Own, UploadsBelong
  <2>3. QED
    BY <2>1, <2>2
<1>2. /\ sessions' = Append(sessions, new) /\ session' = n + 1
      /\ transfer' = setState(t, "active") /\ disk' = [disk EXCEPT ![ProbePath] = Absent]
  BY DEF OpenSession
<1>3. /\ Tidy(uploads, disk) /\ AnswersHold(uploads, disk, acked)
  BY DEF FInv, Sound
<1> HIDE DEF new
<1>4. /\ Len(sessions') = n + 1 /\ sessions'[n + 1] = new
      /\ \A i \in 1..n : sessions'[i] = sessions[i]
  BY <1>1, <1>2
<1>5. new.peer = peer' /\ new.agreed = Agreed(t)
  BY DEF new
<1>6. transfer'.files = t.files /\ transfer'.state = "active"
  BY <1>2 DEF setState
<1>7. PartsOf(uploads) = {} /\ PartsOf(uploads)' = {}
  BY <1>1 DEF PartsOf
<1>8. \A p \in Path : disk'[p] = IF p = ProbePath THEN Absent ELSE disk[p]
  BY <1>1, <1>2
<1>9. Bounded(uploads, transfer)' /\ Writers(uploads, transfer, disk)'
  <2>1. Agreed(transfer)' = Agreed(t)
    BY <1>6 DEF Agreed
  <2>2. QED
    BY <2>1, <1>1, <1>2, <1>4, <1>5 DEF Bounded, Writers
<1>10. ASSUME NEW x, Accounted(x)
       PROVE  Accounted(x)' /\ (WholeContent(x) => WholeContent(x)')
  <2>1. x.session \in 1..n /\ sessions'[x.session] = sessions[x.session]
    BY <1>10, <1>4 DEF Accounted
  <2>2. QED
    BY <1>10, <2>1, <1>1, <1>4 DEF Accounted, WholeContent, AgreedOf
<1>11. Tidy(uploads, disk)'
  <2> SUFFICES ASSUME NEW p \in Path, disk'[p].kind = "received"
               PROVE  /\ Accounted(disk[p])' /\ Ours(p) /\ disk'[p] = disk[p]
                      /\ WholeContent(disk[p])' \/ disk'[p].session <= LastBoot
    BY DEF Tidy, LastBoot, Ours
  <2>1. disk'[p] = disk[p]
    BY <1>8 DEF Absent
  <2>2. Accounted(disk[p]) /\ Ours(p) /\ (WholeContent(disk[p]) \/ disk[p].session <= LastBoot)
    BY <2>1, <1>3, <1>7 DEF Tidy
  <2>3. QED
    BY <2>1, <2>2, <1>10
<1>12. RowsHold(uploads, transfer, disk, acked)'
  BY <1>6 DEF RowsHold
<1>13. AnswersHold(uploads, disk, acked)'
  <2> SUFFICES ASSUME NEW a \in acked
               PROVE  /\ a[1] \in 1..(n + 1)
                      /\ ProbePath \notin FinalPath =>
                            \E p \in Path : Keeps(uploads, disk, p, a[1], a[2])'
    BY <1>4 DEF AnswersHold
  <2>1. a[1] \in 1..n
    BY <1>3 DEF AnswersHold
  <2>2. ASSUME ProbePath \notin FinalPath
        PROVE  \E p \in Path : Keeps(uploads, disk, p, a[1], a[2])'
    <3>1. PICK p \in Path : Keeps(uploads, disk, p, a[1], a[2])
      BY <2>2, <1>3 DEF AnswersHold
    <3>2. WholeContent(disk[p]) /\ disk[p].kind = "received"
      BY <3>1 DEF Keeps, WholeContent
    <3>3. Accounted(disk[p]) /\ Ours(p)
      BY <3>2, <1>3 DEF Tidy
    <3>4. p # ProbePath
      BY <2>2, <3>3, ReceiveAssumption DEF Ours
    <3>5. disk'[p] = disk[p] /\ WholeContent(disk[p])'
      BY <3>2, <3>3, <3>4, <1>8, <1>10
    <3>6. Keeps(uploads, disk, p, a[1], a[2])'
      BY <3>1, <3>5, <1>7 DEF Keeps
    <3>7. QED
      BY <3>6
  <2>3. QED
    BY <2>1, <2>2, <1>1
<1>14. RecordsAreEarned'
  <2>1. ASSUME NEW f \in known PROVE \E a \in acked : sessions'[a[1]].peer = f
    <3>1. PICK a \in acked : sessions[a[1]].peer = f
      BY DEF FInv, Books, RecordsAreEarned
    <3>2. a[1] \in 1..n
      BY <1>3 DEF AnswersHold
    <3>3. QED
      BY <3>1, <3>2, <1>4
  <2>2. QED
    BY <2>1 DEF FInv, Books, RecordsAreEarned
<1>15. Books'
  <2>1. LastBoot' <= Len(sessions')
    <3>1. LastBoot \in Nat
      BY DEF LastBoot, IInv, Own, TypeOK
    <3>2. QED
      BY <3>1, <1>1, <1>4 DEF FInv, Books, LastBoot
  <2>2. QED
    BY <2>1, <1>2, <1>4, <1>5, <1>6, <1>14 DEF Books
<1>16. QED
  BY <1>9, <1>11, <1>12, <1>13, <1>15 DEF FInv, Sound

-----------------------------------------------------------------------------
(* The handlers.                                                           *)

(* handleUploadFinished() of an upload c of all, the others being ups.     *)
Finishing(c, all, ups, t, d) ==
    /\ t \in Transfer /\ t.state = transfer.state /\ d \in [Path -> Content]
    /\ Sound(all, t, d, acked) /\ c \in DOMAIN all
    /\ DOMAIN ups = DOMAIN all \ {c} /\ \A e \in DOMAIN ups : ups[e] = all[e]

LEMMA UploadFinishedSound ==
    ASSUME IInv, FInv, session # 0, boots' = boots,
           NEW c, NEW all, NEW ups, NEW t, NEW d, NEW intact \in BOOLEAN,
           Finishing(c, all, ups, t, d), handleUploadFinished(c, all[c], ups, t, d, intact)
    PROVE  FInv'
<1> USE DEF Finishing
<1> DEFINE u == all[c]
           file == t.files[u.row]
           k == [conns EXCEPT ![c] = respond(finishBody(@))]
           place == Place(d, u)
           tl == setFileLocalPath(t, u.row, place)
           td == setFileStatus(tl, u.row, "done")
           tf == setFileStatus(t, u.row, "failed")
           dr == RemoveAll(d, {PartPath(u)})
           dk == [dr EXCEPT ![place] = Received(session, u.row, u.received, intact)]
<1>1. u \in Upload /\ u.row \in DOMAIN t.files
  BY DEF Sound, Writers
<1>2. session \in 1..Len(sessions) /\ session = Len(sessions)
  BY DEF IInv, Own, TypeOK, Current
<1>3. CASE Kept(u, file, intact)
  <2>1. FinishIfSettled(k, ups, td, dk, "running") /\ acked' = acked \cup {<<session, u.row>>}
    BY <1>1, <1>3 DEF handleUploadFinished, entry, Listed
  <2>2. place \in Path
    BY <1>1, PathsExist DEF Place, Upload, PartPath
  <2>3. file.size \in Nat
    <3>1. file \in FileEntry
      BY <1>1, RowsAreSeq DEF Transfer
    <3>2. QED
      BY <3>1, TransferAssumption DEF FileEntry
  <2>4. /\ tl \in Transfer /\ tl.state = t.state /\ DOMAIN tl.files = DOMAIN t.files
        /\ \A r \in DOMAIN t.files :
              /\ tl.files[r].size = t.files[r].size /\ tl.files[r].digest = t.files[r].digest
              /\ tl.files[r].status = t.files[r].status
              /\ tl.files[r].localPath = IF r = u.row THEN place ELSE t.files[r].localPath
    <3> HIDE DEF place, u
    <3> QED BY <1>1, <2>2, LocalPathTypeAt, RowFieldsAt
  <2>5. /\ td \in Transfer /\ td.state = t.state /\ DOMAIN td.files = DOMAIN t.files
        /\ \A r \in DOMAIN t.files :
              /\ td.files[r].size = t.files[r].size /\ td.files[r].digest = t.files[r].digest
              /\ td.files[r].status = IF r = u.row THEN "done" ELSE t.files[r].status
              /\ td.files[r].localPath = IF r = u.row THEN place ELSE t.files[r].localPath
    <3>1. u.row \in DOMAIN tl.files /\ "done" \in FileStatus
      BY <1>1, <2>4 DEF FileStatus
    <3> HIDE DEF tl, place, u
    <3>2. /\ td \in Transfer /\ td.state = tl.state /\ DOMAIN td.files = DOMAIN tl.files
          /\ \A r \in DOMAIN tl.files :
                td.files[r].status = IF r = u.row THEN "done" ELSE tl.files[r].status
      BY <2>4, <3>1, StatusTypeAt
    <3>3. \A r \in DOMAIN tl.files :
             /\ td.files[r].size = tl.files[r].size /\ td.files[r].digest = tl.files[r].digest
             /\ td.files[r].localPath = tl.files[r].localPath
      BY <2>4, <3>1, RowFieldsAt
    <3> HIDE DEF td
    <3>4. QED
      BY <2>4, <3>2, <3>3
  <2>6. Alike(td, t)
    BY <2>5 DEF Alike
  <2>7. \A p \in Path : dk[p] = IF p = place
                               THEN Received(session, u.row, u.received, intact)
                               ELSE IF p = PartPath(u) THEN Absent ELSE d[p]
    BY <2>2 DEF RemoveAll
  <2>8. Sound(ups, td, dk, acked \cup {<<session, u.row>>})
    <3>1. \A r \in DOMAIN t.files :
             IF r = all[c].row
             THEN td.files[r].status = "done" /\ td.files[r].localPath = Place(d, all[c])
             ELSE /\ td.files[r].status = t.files[r].status
                  /\ td.files[r].localPath = t.files[r].localPath
      BY <2>5
    <3> HIDE DEF td, dk
    <3>2. /\ Kept(all[c], t.files[all[c].row], intact) /\ t.files[all[c].row].size \in Nat
          /\ \A p \in Path : dk[p] =
                IF p = Place(d, all[c])
                THEN Received(session, all[c].row, all[c].received, intact)
                ELSE IF p = PartPath(all[c]) THEN Absent ELSE d[p]
      BY <1>3, <2>3, <2>7
    <3>3. Keeping(all, c, ups, t, td, d, dk, intact)
      BY <2>6, <3>1, <3>2 DEF Keeping
    <3>4. QED
      BY <1>2, <3>3, SoundKeep
  <2> HIDE DEF td, dk, k, u
  <2>9. QED
    BY <2>1, <2>5, <2>8, SettledSound
<1>4. CASE ~Kept(u, file, intact)
  <2>1. FinishIfSettled(k, ups, tf, dr, "running") /\ acked' = acked
    BY <1>1, <1>4 DEF handleUploadFinished, entry, Listed
  <2>2. /\ tf \in Transfer /\ tf.state = t.state /\ DOMAIN tf.files = DOMAIN t.files
        /\ \A r \in DOMAIN t.files :
              /\ tf.files[r].size = t.files[r].size /\ tf.files[r].digest = t.files[r].digest
              /\ tf.files[r].status = IF r = u.row THEN "failed" ELSE t.files[r].status
              /\ tf.files[r].localPath = t.files[r].localPath
    <3> HIDE DEF u
    <3> QED BY <1>1, StatusTypeAt, RowFieldsAt DEF FileStatus
  <2>3. Alike(tf, t)
    BY <2>2 DEF Alike
  <2>4. Sound(ups, tf, dr, acked)
    <3> HIDE DEF tf
    <3> QED BY <2>2, <2>3, SoundDrop
  <2> HIDE DEF tf, dr, k, u
  <2>5. QED
    BY <2>1, <2>2, <2>4, SettledSound
<1>5. QED
  BY <1>3, <1>4

(* onPendingClosed(), onUploadClosed() or neither.                         *)
LEMMA DisconnectedSound ==
    ASSUME IInv, FInv, NEW c \in Conn, Disconnected(c)
    PROVE  FInv'
<1> DEFINE k == [conns EXCEPT ![c] = NoConnection]
           ups == Without(uploads, c)
           t == setFileStatus(transfer, uploads[c].row, "failed")
           d == RemoveAll(disk, {PartPath(uploads[c])})
<1>1. UNCHANGED obsVars
  BY DEF Disconnected
<1>2. CASE /\ c = pending /\ pending' = NoConn
           /\ transfer' = IF session = 0 THEN setState(transfer, "idle") ELSE transfer
           /\ UNCHANGED <<uploads, sessionVars, idleTimer, disk, recordVars>>
  <2>1. transfer'.files = transfer.files
        /\ (transfer'.state = "finished" => transfer.state = "finished")
    BY <1>2 DEF setState
  <2>2. QED
    BY <1>1, <1>2, <2>1, Untouched
<1>3. CASE c \in DOMAIN uploads /\ FinishIfSettled(k, ups, t, d, idleTimer)
  <2>1. /\ transfer \in Transfer /\ session # 0 /\ uploads[c].row \in DOMAIN transfer.files
        /\ Sound(uploads, transfer, disk, acked)
    BY <1>3, AloneRows DEF IInv, Own, TypeOK, UploadsBelong, FInv
  <2>2. /\ t \in Transfer /\ t.state = transfer.state /\ DOMAIN t.files = DOMAIN transfer.files
        /\ \A r \in DOMAIN transfer.files :
              /\ t.files[r].size = transfer.files[r].size
              /\ t.files[r].digest = transfer.files[r].digest
              /\ t.files[r].status =
                    IF r = uploads[c].row THEN "failed" ELSE transfer.files[r].status
              /\ t.files[r].localPath = transfer.files[r].localPath
    BY <2>1, StatusTypeAt, RowFieldsAt DEF FileStatus
  <2>3. Alike(t, transfer)
    BY <2>2 DEF Alike
  <2>4. DOMAIN ups = DOMAIN uploads \ {c} /\ \A e \in DOMAIN ups : ups[e] = uploads[e]
    BY DEF Without
  <2> HIDE DEF t, ups
  <2>5. Sound(ups, t, d, acked)
    BY <1>3, <2>1, <2>2, <2>3, <2>4, SoundDrop
  <2> HIDE DEF d, k
  <2>6. QED
    BY <1>1, <1>3, <2>1, <2>2, <2>5, SettledSound DEF obsVars
<1>4. CASE Continue(k, uploads, transfer, disk, idleTimer)
  BY <1>1, <1>4, Untouched DEF Continue
<1>5. QED
  BY <1>2, <1>3, <1>4 DEF Disconnected

(* A request for a file that is here already, or that cannot be written.   *)
LEMMA AnsweredSound ==
    ASSUME IInv, FInv, NEW c \in Conn, NEW s, NEW id,
           UploadAgain(c, s, id) \/ UploadUnwritable(c, s, id)
    PROVE  FInv'
<1> DEFINE row == indexOfFile(transfer, id)
           k == [conns EXCEPT ![c] = respond(headersReady(@))]
           t == setFileStatus(transfer, row, "failed")
<1>1. session # 0 /\ RowsOf(transfer, id) # {} /\ transfer \in Transfer
  BY DEF UploadAgain, UploadUnwritable, Admitted, IInv, Own, TypeOK
<1>2. row \in DOMAIN transfer.files
  BY <1>1, FirstRow
<1>3. /\ Sound(uploads, transfer, disk, acked) /\ session = Len(sessions)
      /\ pending = NoConn /\ transfer.state = "active"
  BY <1>1 DEF FInv, IInv, Own, Current, Backed, Shown
<1> HIDE DEF row
<1>4. CASE UploadAgain(c, s, id)
  <2>1. <<session, row>> \in acked
    BY <1>2, <1>3, <1>4 DEF UploadAgain, Sound, RowsHold, row
  <2>2. UNCHANGED <<uploads, sessionVars, disk, recordVars, obsVars, pending, transfer>>
    BY <1>4, <2>1 DEF UploadAgain, obsVars, row
  <2>3. QED
    BY <2>2, Untouched
<1>5. CASE UploadUnwritable(c, s, id)
  <2>1. /\ transfer.files[row].status # "done" /\ UNCHANGED obsVars
        /\ Continue(k, uploads, t, disk, idleTimer)
    BY <1>5 DEF UploadUnwritable, row
  <2>2. /\ t.state = transfer.state /\ DOMAIN t.files = DOMAIN transfer.files
        /\ \A r \in DOMAIN transfer.files :
              /\ t.files[r].size = transfer.files[r].size
              /\ t.files[r].digest = transfer.files[r].digest
              /\ t.files[r].status = IF r = row THEN "failed" ELSE transfer.files[r].status
              /\ t.files[r].localPath = transfer.files[r].localPath
    BY <1>1, <1>2, StatusTypeAt, RowFieldsAt DEF FileStatus
  <2> HIDE DEF t, k
  <2>3. Sound(uploads, t, disk, acked)
    BY <1>3, <2>2, SoundRows DEF Alike
  <2>4. QED
    BY <1>1, <1>3, <2>1, <2>2, <2>3, ContinueSound DEF obsVars
<1>6. QED
  BY <1>4, <1>5

(* An upload begins; an empty one is finished in the same call.            *)
LEMMA HeadersSound ==
    ASSUME IInv, FInv, NEW c \in Conn, NEW s, NEW id, NEW n \in Lengths,
           handleUploadHeaders(c, s, id, n)
    PROVE  FInv'
<1> DEFINE row == indexOfFile(transfer, id)
           file == transfer.files[row]
           u == [row |-> row, final |-> reserveFilePath(file.name), length |-> n,
                 limit |-> file.size, received |-> 0]
           t == setFileStatus(transfer, row, "transferring")
           d == [disk EXCEPT ![PartPath(u)] = Received(session, row, 0, TRUE)]
           ups == With(uploads, c, u)
<1>1. /\ RowsOf(transfer, id) # {} /\ HasFreeName(file.name) /\ session # 0 /\ Reading(c)
      /\ file.status # "done" /\ boots' = boots
  BY DEF handleUploadHeaders, Admitted
<1>2. /\ transfer \in Transfer /\ disk \in [Path -> Content]
      /\ Sound(uploads, transfer, disk, acked) /\ c \notin DOMAIN uploads
      /\ pending = NoConn /\ transfer.state = "active"
      /\ session \in 1..Len(sessions) /\ session = Len(sessions)
  BY <1>1 DEF IInv, Own, TypeOK, FInv, Current, Reading, Backed, Shown
<1>3. row \in DOMAIN transfer.files
  BY <1>1, <1>2, FirstRow
<1> HIDE DEF row
<1>4. row \in Nat /\ file.name \in FileName /\ file.size \in 0..MaxSize
  <2>1. row \in Nat /\ file \in FileEntry
    BY <1>2, <1>3, RowsAreSeq DEF Transfer
  <2>2. QED
    BY <2>1 DEF FileEntry
<1>5. reserveFilePath(file.name) \in FinalPath /\ Free(reserveFilePath(file.name))
  BY <1>1, <1>4, ReservedIsFree
<1> HIDE DEF file
<1>6. /\ u \in Upload /\ u.final = reserveFilePath(file.name) /\ u.row = row
      /\ u.limit = file.size /\ u.received = 0
  BY <1>4, <1>5, ReceiveAssumption DEF Upload
<1>7. PartPath(u) \in Path /\ disk[PartPath(u)].kind = "absent"
  BY <1>5, <1>6, PathsExist DEF Free, PartPath
<1>8. /\ t \in Transfer /\ t.state = transfer.state /\ DOMAIN t.files = DOMAIN transfer.files
      /\ \A r \in DOMAIN transfer.files :
            /\ t.files[r].size = transfer.files[r].size
            /\ t.files[r].digest = transfer.files[r].digest
            /\ t.files[r].status = IF r = row THEN "transferring" ELSE transfer.files[r].status
            /\ t.files[r].localPath = transfer.files[r].localPath
  BY <1>2, <1>3, StatusTypeAt, RowFieldsAt DEF FileStatus
<1>9. /\ DOMAIN ups = DOMAIN uploads \cup {c} /\ ups[c] = u
      /\ \A e \in DOMAIN uploads : ups[e] = uploads[e]
  BY <1>2 DEF With
<1>10. /\ DOMAIN d = Path
       /\ \A p \in Path : d[p] = IF p = PartPath(u) THEN Received(session, row, 0, TRUE)
                                ELSE disk[p]
  BY <1>2, <1>7
<1>11. d \in [Path -> Content]
  <2>1. Received(session, row, 0, TRUE) \in Content
    BY <1>2, <1>4 DEF Received, Content
  <2>2. QED
    BY <2>1, <1>2
<1>12. \/ \E k : Continue(k, ups, t, d, "running") /\ UNCHANGED acked
       \/ \E intact \in BOOLEAN : handleUploadFinished(c, u, uploads, t, d, intact)
  BY DEF handleUploadHeaders, row, file
<1> HIDE DEF u, t, d, ups
<1>13. Writing(uploads, c, ups, transfer, t, disk, d)
  <2>1. Alike(t, transfer)
    BY <1>8 DEF Alike
  <2>2. /\ ups[c] \in Upload /\ ups[c].row = row /\ ups[c].limit = transfer.files[row].size
        /\ ups[c].received = 0 /\ ups[c].received <= ups[c].limit
    BY <1>4, <1>6, <1>9 DEF file
  <2>3. \A r \in DOMAIN transfer.files :
          /\ t.files[r].status = "done" =>
                /\ transfer.files[r].status = "done"
                /\ t.files[r].localPath = transfer.files[r].localPath
          /\ t.files[r].status = "transferring" =>
                transfer.files[r].status = "transferring" \/ r = row
    BY <1>8
  <2>4. QED
    BY <2>1, <2>2, <2>3, <1>2, <1>3, <1>7, <1>9, <1>10 DEF Writing
<1>14. Sound(ups, t, d, acked)
  BY <1>2, <1>13, SoundWrite
<1>15. ASSUME NEW k, Continue(k, ups, t, d, "running"), UNCHANGED acked PROVE FInv'
  BY <1>1, <1>2, <1>8, <1>14, <1>15, ContinueSound
<1>16. ASSUME NEW intact \in BOOLEAN, handleUploadFinished(c, u, uploads, t, d, intact)
       PROVE  FInv'
  <2>1. /\ c \in DOMAIN ups /\ DOMAIN uploads = DOMAIN ups \ {c}
        /\ \A e \in DOMAIN uploads : uploads[e] = ups[e]
        /\ handleUploadFinished(c, ups[c], uploads, t, d, intact)
    BY <1>2, <1>9, <1>16
  <2>2. Finishing(c, ups, uploads, t, d)
    BY <2>1, <1>8, <1>11, <1>14 DEF Finishing
  <2>3. QED
    BY <2>1, <2>2, <1>1, UploadFinishedSound
<1>17. QED
  BY <1>12, <1>15, <1>16

(* The terminating chunk, and a block: written on, completed, or refused.  *)
LEMMA StreamSound ==
    ASSUME IInv, FInv, NEW c \in Conn, UploadBlock(c) \/ UploadEnd(c)
    PROVE  FInv'
<1> DEFINE rest == Without(uploads, c)
<1>1. /\ c \in DOMAIN uploads /\ boots' = boots
  BY DEF UploadBlock, UploadEnd, Streaming
<1>2. /\ session # 0 /\ transfer \in Transfer /\ disk \in [Path -> Content]
      /\ uploads[c] \in Upload /\ uploads[c].row \in DOMAIN transfer.files
      /\ Sound(uploads, transfer, disk, acked)
      /\ pending = NoConn /\ transfer.state = "active"
      /\ session \in 1..Len(sessions) /\ session = Len(sessions)
  <2>1. session # 0 /\ uploads[c].row \in DOMAIN transfer.files
    BY <1>1, AloneRows DEF IInv, Own, UploadsBelong
  <2>2. /\ transfer \in Transfer /\ disk \in [Path -> Content] /\ uploads[c] \in Upload
        /\ Sound(uploads, transfer, disk, acked)
    BY <1>1 DEF IInv, Own, TypeOK, FInv
  <2>3. /\ pending = NoConn /\ transfer.state = "active"
        /\ session \in 1..Len(sessions) /\ session = Len(sessions)
    BY <2>1 DEF IInv, Own, TypeOK, Current, Backed, Shown
  <2>4. QED
    BY <2>1, <2>2, <2>3
<1>3. DOMAIN rest = DOMAIN uploads \ {c} /\ \A e \in DOMAIN rest : rest[e] = uploads[e]
  BY DEF Without
<1> HIDE DEF rest
<1>4. CASE UploadEnd(c)
  <2>1. PICK intact \in BOOLEAN :
            handleUploadFinished(c, uploads[c], rest, transfer, disk, intact)
    BY <1>4 DEF UploadEnd, rest
  <2>2. Finishing(c, uploads, rest, transfer, disk)
    BY <1>1, <1>2, <1>3 DEF Finishing
  <2>3. QED
    BY <2>1, <2>2, <1>1, <1>2, UploadFinishedSound
<1>5. CASE UploadBlock(c)
  <2> DEFINE v == uploads[c]
             u == [v EXCEPT !.received = @ + 1]
             t == setFileTransferred(transfer, u.row, u.received)
             d == [disk EXCEPT ![PartPath(u)] = Grown(@, u.received)]
             ups == [uploads EXCEPT ![c] = u]
  <2>1. v \in Upload /\ v.row \in DOMAIN transfer.files
        /\ disk[PartPath(v)] = Received(session, v.row, v.received, TRUE)
        /\ v.limit = transfer.files[v.row].size
    BY <1>1, <1>2 DEF Sound, Writers, Bounded
  <2> HIDE DEF v
  <2>2. /\ u \in Upload /\ u.row = v.row /\ u.final = v.final /\ u.limit = v.limit
        /\ u.received \in Nat
    BY <2>1 DEF Upload
  <2>3. PartPath(u) = PartPath(v) /\ PartPath(u) \in Path
    BY <2>1, <2>2, PathsExist DEF PartPath, Upload
  <2>4. CASE Continue([conns EXCEPT ![c] = respond(@)], uploads, transfer, disk, idleTimer)
             /\ UNCHANGED acked
    BY <2>4, <1>1, Untouched DEF Continue, obsVars
  <2>5. CASE WithinCeiling(u)
    <3>1. u.received \in 0..MaxSize /\ u.received <= u.limit
      BY <2>2, <2>5, TransferAssumption DEF WithinCeiling, Upload
    <3> HIDE DEF u
    <3>2. /\ t \in Transfer /\ t.state = transfer.state
          /\ DOMAIN t.files = DOMAIN transfer.files
          /\ \A r \in DOMAIN transfer.files :
                /\ t.files[r].size = transfer.files[r].size
                /\ t.files[r].digest = transfer.files[r].digest
                /\ t.files[r].status = transfer.files[r].status
                /\ t.files[r].localPath = transfer.files[r].localPath
      <4>1. u.row \in DOMAIN transfer.files
        BY <2>1, <2>2
      <4>2. QED
        BY <1>2, <3>1, <4>1, TransferredTypeAt, RowFieldsAt
    <3>3. Grown(disk[PartPath(u)], u.received) = Received(session, u.row, u.received, TRUE)
      <4>1. disk[PartPath(u)] = Received(session, u.row, v.received, TRUE)
        BY <2>1, <2>2, <2>3
      <4>2. QED
        BY <4>1 DEF Grown, Received
    <3>4. /\ DOMAIN d = Path
          /\ \A p \in Path : d[p] = IF p = PartPath(u)
                                   THEN Received(session, u.row, u.received, TRUE)
                                   ELSE disk[p]
      BY <1>2, <2>3, <3>3
    <3>5. d \in [Path -> Content]
      <4>1. Received(session, u.row, u.received, TRUE) \in Content
        BY <1>2, <2>2 DEF Received, Content, Upload
      <4>2. QED
        BY <4>1, <1>2, <3>3
    <3>6. /\ DOMAIN ups = DOMAIN uploads /\ ups[c] = u
          /\ \A e \in DOMAIN uploads \ {c} : ups[e] = uploads[e]
      BY <1>1
    <3>7. \/ Continue(conns, ups, t, d, "running") /\ UNCHANGED acked
          \/ \E intact \in BOOLEAN : handleUploadFinished(c, u, rest, t, d, intact)
          \/ Continue([conns EXCEPT ![c] = respond(@)], uploads, transfer, disk, idleTimer)
             /\ UNCHANGED acked
      BY <1>5 DEF UploadBlock, u, v, rest
    <3> HIDE DEF t, d, ups
    <3>8. Writing(uploads, c, ups, transfer, t, disk, d)
      <4>1. Alike(t, transfer)
        BY <3>2 DEF Alike
      <4>2. /\ ups[c] \in Upload /\ ups[c].row = v.row
            /\ ups[c].row \in DOMAIN transfer.files
            /\ ups[c].limit = transfer.files[ups[c].row].size
            /\ ups[c].received <= ups[c].limit
        BY <2>1, <2>2, <3>1, <3>6
      <4>3. uploads[c].row = ups[c].row /\ PartPath(uploads[c]) = PartPath(ups[c])
        BY <2>2, <2>3, <3>6 DEF v
      <4>4. \A p \in Path : d[p] = IF p = PartPath(ups[c])
                                 THEN Received(session, ups[c].row, ups[c].received, TRUE)
                                 ELSE disk[p]
        BY <3>4, <3>6
      <4>5. QED
        BY <4>1, <4>2, <4>3, <4>4, <1>1, <3>2, <3>6 DEF Writing
    <3>9. Sound(ups, t, d, acked)
      BY <1>2, <3>8, SoundWrite
    <3>10. CASE Continue(conns, ups, t, d, "running") /\ UNCHANGED acked
      BY <1>1, <1>2, <3>2, <3>9, <3>10, ContinueSound
    <3>11. ASSUME NEW intact \in BOOLEAN, handleUploadFinished(c, u, rest, t, d, intact)
           PROVE  FInv'
      <4>1. Finishing(c, ups, rest, t, d)
        BY <1>1, <1>3, <3>2, <3>5, <3>6, <3>9 DEF Finishing
      <4>2. handleUploadFinished(c, ups[c], rest, t, d, intact)
        BY <3>6, <3>11
      <4>3. QED
        BY <4>1, <4>2, <1>1, <1>2, UploadFinishedSound
    <3>12. QED
      BY <2>4, <3>7, <3>10, <3>11
  <2>6. QED
    BY <1>5, <2>4, <2>5 DEF UploadBlock, u, v
<1>6. QED
  BY <1>4, <1>5

(* A prompt, and the decision about it.                                    *)
LEMMA AcceptSound ==
    ASSUME IInv, FInv, session = 0, NEW c, NEW k, NEW t \in Transfer,
           \A r \in DOMAIN t.files : t.files[r].status = "waiting", accept(c, k, t),
           UNCHANGED <<uploads, serverVars, recordVars, obsVars>>
    PROVE  FInv'
<1>1. CASE /\ transfer' = setState(t, "failed")
           /\ UNCHANGED <<session, sessions, tokens, idleTimer, disk>>
  <2>1. transfer'.files = t.files /\ transfer'.state = "failed"
    BY <1>1 DEF setState
  <2>2. QED
    BY <1>1, <2>1, FreshRows
<1>2. CASE OpenSession(k[c].address, t)
  BY <1>2, OpenSound DEF accept
<1>3. QED
  BY <1>1, <1>2 DEF accept

LEMMA PromptSound ==
    ASSUME IInv, FInv,
           \/ Accept
           \/ \E c \in Conn, p \in Peer, offer \in Offers : handlePrepareUpload(c, p, offer)
    PROVE  FInv'
<1>1. transfer \in Transfer
  BY DEF IInv, Own, TypeOK
<1>2. CASE Accept
  <2>1. session = 0 /\ \A r \in DOMAIN transfer.files : transfer.files[r].status = "waiting"
    BY <1>2 DEF Accept, IInv, Own, Backed, FInv, Books
  <2>2. accept(pending, conns, transfer) /\ UNCHANGED <<uploads, serverVars, recordVars, obsVars>>
    BY <1>2 DEF Accept
  <2>3. QED
    BY <1>1, <2>1, <2>2, AcceptSound
<1>3. ASSUME NEW c \in Conn, NEW p \in Peer, NEW offer \in Offers,
             handlePrepareUpload(c, p, offer)
      PROVE  FInv'
  <2> DEFINE k == [conns EXCEPT ![c] = finishBody(@)]
             b == begin(transfer, offer)
             t == setState(b, "pending")
  <2>1. session = 0 /\ UNCHANGED <<uploads, serverVars, recordVars, obsVars>>
    BY <1>3 DEF handlePrepareUpload, Available
  <2>2. b \in Transfer /\ \A r \in DOMAIN b.files : b.files[r].status = "waiting"
    BY <1>1, BeginType, ReceiveAssumption
  <2>3. \/ accept(c, k, t)
        \/ transfer' = t /\ UNCHANGED <<session, sessions, tokens, idleTimer, disk>>
    BY <1>3 DEF handlePrepareUpload
  <2> HIDE DEF b
  <2>4. /\ t \in Transfer /\ t.state = "pending"
        /\ \A r \in DOMAIN t.files : t.files[r].status = "waiting"
    BY <2>2, SetStateType DEF TransferState
  <2> HIDE DEF t, k
  <2>5. CASE accept(c, k, t)
    BY <2>1, <2>4, <2>5, AcceptSound
  <2>6. CASE transfer' = t /\ UNCHANGED <<session, sessions, tokens, idleTimer, disk>>
    BY <2>1, <2>4, <2>6, FreshRows
  <2>7. QED
    BY <2>3, <2>5, <2>6
<1>4. QED
  BY <1>2, <1>3

(* cancel and teardown, from a peer, the user, a timer or the settings.    *)
LEMMA TeardownSound ==
    ASSUME IInv, FInv,
           \/ Cancel \/ onSessionIdle \/ ReceiveEnabledChanged \/ PortChanged
           \/ \E c \in Conn : \E s \in 0..Len(sessions) : handleCancel(c, s)
    PROVE  FInv'
<1>1. /\ Sound(uploads, transfer, disk, acked) /\ transfer \in Transfer
  BY DEF FInv, IInv, Own, TypeOK
<1>2. UNCHANGED obsVars
  BY DEF Cancel, onSessionIdle, ReceiveEnabledChanged, PortChanged, handleCancel
<1>3. ASSUME NEW k, NEW cancelled \in BOOLEAN,
             finishSession(k, uploads, transfer, disk, cancelled)
      PROVE  FInv'
  BY <1>1, <1>2, <1>3, FinishSound DEF obsVars
<1>4. ASSUME NEW k, Continue(k, uploads, transfer, disk, idleTimer) PROVE FInv'
  BY <1>2, <1>4, Untouched DEF Continue
<1>5. CASE Cancel \/ onSessionIdle
  BY <1>3, <1>5 DEF Cancel, onSessionIdle
<1>6. CASE ReceiveEnabledChanged \/ PortChanged
  BY <1>3, <1>4, <1>6 DEF ReceiveEnabledChanged, PortChanged, stopListening
<1>7. ASSUME NEW c \in Conn, NEW s \in 0..Len(sessions), handleCancel(c, s)
      PROVE  FInv'
  <2>1. CASE /\ pending' = NoConn /\ transfer' = setState(transfer, "cancelled")
             /\ UNCHANGED <<uploads, sessionVars, idleTimer, disk, recordVars>>
    <3>1. transfer'.files = transfer.files /\ transfer'.state = "cancelled"
      BY <2>1 DEF setState
    <3>2. QED
      BY <1>2, <2>1, <3>1, Untouched
  <2>2. QED
    BY <1>3, <1>4, <1>7, <2>1 DEF handleCancel
<1>8. QED
  BY <1>5, <1>6, <1>7

(* Other programs and the end of the process.                              *)
LEMMA ForeignSound ==
    ASSUME IInv, FInv, NEW q \in Path, ForeignFile(q)
    PROVE  FInv'
<1> DEFINE d == [disk EXCEPT ![q] = Foreign]
<1>1. /\ disk[q].kind = "absent" /\ disk' = d
      /\ UNCHANGED <<netVars, sessionVars, transfer, recordVars, obsVars>>
  BY DEF ForeignFile
<1>2. \A p \in Path : d[p] = IF p = q THEN Foreign ELSE disk[p]
  BY DEF IInv, Own, TypeOK
<1>3. Foreign.kind = "foreign"
  BY DEF Foreign, Absent
<1> HIDE DEF d
<1>4. /\ Bounded(uploads, transfer) /\ Writers(uploads, transfer, disk) /\ Tidy(uploads, disk)
      /\ RowsHold(uploads, transfer, disk, acked) /\ AnswersHold(uploads, disk, acked)
  BY DEF FInv, Sound
<1>5. \A p \in PartsOf(uploads) : p \in Path /\ d[p] = disk[p]
  BY <1>1, <1>2, <1>4, PartsArePaths
<1>6. Writers(uploads, transfer, d)
  BY <1>4, <1>5 DEF Writers, PartsOf
<1>7. Tidy(uploads, d)
  BY <1>2, <1>3, <1>4 DEF Tidy
<1>8. ASSUME NEW p, NEW s, NEW r, Keeps(uploads, disk, p, s, r)
      PROVE  Keeps(uploads, d, p, s, r)
  BY <1>1, <1>2, <1>8 DEF Keeps, WholeContent
<1>9. RowsHold(uploads, transfer, d, acked)
  BY <1>4, <1>8 DEF RowsHold
<1>10. AnswersHold(uploads, d, acked)
  BY <1>4, <1>8 DEF AnswersHold
<1>11. Sound(uploads, transfer, d, acked)
  BY <1>4, <1>6, <1>7, <1>9, <1>10 DEF Sound
<1>12. Sound(uploads, transfer, disk, acked)'
  BY <1>1, <1>11, SoundNext DEF netVars, sessionVars, obsVars
<1>13. Books'
  BY <1>1 DEF FInv, Books, RecordsAreEarned, LastBoot, netVars, sessionVars, recordVars, obsVars
<1>14. QED
  BY <1>12, <1>13 DEF FInv

LEMMA RestartSound ==
    ASSUME IInv, FInv, Restart
    PROVE  FInv'
<1>1. /\ boots' = Append(boots, Len(sessions)) /\ uploads' = NoUploads
      /\ session' = 0 /\ pending' = NoConn /\ transfer' = NoTransfer
      /\ sessions' = sessions /\ disk' = disk /\ acked' = acked
      /\ known' = known /\ history' = history
  BY DEF Restart, ProcessEnds, recordVars
<1>2. DOMAIN uploads' = {} /\ PartsOf(uploads)' = {}
  BY <1>1 DEF NoUploads, PartsOf
<1>3. DOMAIN transfer'.files = {} /\ transfer'.state = "idle"
  BY <1>1 DEF NoTransfer
<1>4. boots \in Seq(Nat) /\ Len(sessions) \in Nat
  BY DEF IInv, Own, TypeOK
<1>5. LastBoot' = Len(sessions)
  BY <1>1, <1>4 DEF LastBoot
<1>6. Tidy(uploads, disk) /\ AnswersHold(uploads, disk, acked)
  BY DEF FInv, Sound
<1>7. Tidy(uploads, disk)'
  <2> SUFFICES ASSUME NEW p \in Path, disk[p].kind = "received"
               PROVE  Accounted(disk[p])' /\ Ours(p) /\ disk'[p].session <= Len(sessions)
    BY <1>1, <1>5 DEF Tidy, Ours
  <2>1. Accounted(disk[p]) /\ Ours(p)
    BY <1>6 DEF Tidy
  <2>2. QED
    BY <2>1, <1>1, <1>4 DEF Accounted, AgreedOf
<1>8. ASSUME NEW p, NEW s, NEW r, Keeps(uploads, disk, p, s, r)
      PROVE  Keeps(uploads, disk, p, s, r)'
  BY <1>1, <1>2, <1>8 DEF Keeps, WholeContent, AgreedOf
<1>9. AnswersHold(uploads, disk, acked)'
  BY <1>1, <1>6, <1>8 DEF AnswersHold
<1>10. Sound(uploads, transfer, disk, acked)'
  BY <1>1, <1>2, <1>3, <1>7, <1>9 DEF Sound, Bounded, Writers, RowsHold
<1>11. Books'
  BY <1>1, <1>3, <1>4, <1>5 DEF FInv, Books, RecordsAreEarned
<1>12. QED
  BY <1>10, <1>11 DEF FInv

LEMMA SoundAtFirst == Init => FInv
<1> SUFFICES ASSUME Init PROVE FInv
  OBVIOUS
<1>1. /\ uploads = NoUploads /\ transfer = NoTransfer /\ session = 0 /\ sessions = <<>>
      /\ disk = [p \in Path |-> Absent] /\ acked = {} /\ boots = <<>> /\ pending = NoConn
      /\ known = {} /\ history = {}
  BY DEF Init
<1>2. DOMAIN uploads = {} /\ DOMAIN transfer.files = {} /\ transfer.state = "idle"
  BY <1>1 DEF NoUploads, NoTransfer
<1>3. \A p \in Path : disk[p].kind = "absent"
  BY <1>1 DEF Absent
<1>4. Sound(uploads, transfer, disk, acked)
  BY <1>1, <1>2, <1>3 DEF Sound, Bounded, Writers, Tidy, RowsHold, AnswersHold
<1>5. LastBoot = 0 /\ Len(sessions) = 0
  BY <1>1 DEF LastBoot
<1>6. Books
  BY <1>1, <1>2, <1>5 DEF Books, RecordsAreEarned
<1>7. QED
  BY <1>4, <1>6 DEF FInv

LEMMA StepSound == IInv /\ FInv /\ [Next]_vars => FInv'
<1> SUFFICES ASSUME IInv, FInv, [Next]_vars PROVE FInv'
  OBVIOUS
<1>1. ASSUME UNCHANGED <<pending, uploads, sessionVars, transfer, disk, recordVars, obsVars>>
      PROVE  FInv'
  BY <1>1, Untouched
<1>2. CASE UNCHANGED vars
  BY <1>1, <1>2 DEF vars, netVars
<1>3. ASSUME NEW c \in Conn, Network(c) PROVE FInv'
  <2>1. CASE (\E a \in Address : Connect(c, a)) \/ AnsweredAtOnce(c) \/ RefusedAtHead(c)
             \/ TailBytes(c)
    BY <1>1, <2>1 DEF Connect, AnsweredAtOnce, RefusedAtHead, TailBytes, otherVars
  <2>2. CASE Disconnected(c)
    BY <2>2, DisconnectedSound
  <2>3. CASE \E s \in 1..Len(sessions), id \in FileId :
                UploadAgain(c, s, id) \/ UploadUnwritable(c, s, id)
    BY <2>3, AnsweredSound
  <2>4. CASE \E s \in 1..Len(sessions), id \in FileId : \E n \in Lengths :
                handleUploadHeaders(c, s, id, n)
    BY <2>4, HeadersSound
  <2>5. CASE UploadBlock(c) \/ UploadEnd(c)
    BY <2>5, StreamSound
  <2>6. CASE \E p \in Peer, offer \in Offers : handlePrepareUpload(c, p, offer)
    BY <2>6, PromptSound
  <2>7. CASE \E s \in 0..Len(sessions) : handleCancel(c, s)
    BY <2>7, TeardownSound
  <2>8. QED
    BY <1>3, <2>1, <2>2, <2>3, <2>4, <2>5, <2>6, <2>7 DEF Network, Traffic
<1>4. ASSUME PutAway PROVE FInv'
  <2>1. transfer'.files = transfer.files /\ transfer'.state = "idle"
    BY <1>4 DEF PutAway, setState
  <2>2. QED
    BY <1>4, <2>1, Untouched DEF PutAway
<1>5. CASE User
  BY <1>4, <1>5, PromptSound, TeardownSound DEF User, Decline
<1>6. CASE Timers
  <2>1. CASE onAcceptTimeout
    BY <1>4, <2>1 DEF onAcceptTimeout
  <2>2. CASE SessionQuiet
    BY <1>1, <2>2 DEF SessionQuiet, netVars
  <2>3. CASE onSessionIdle
    BY <2>3, TeardownSound
  <2>4. ASSUME NEW c \in Conn, DrainQuiet(c) \/ IdleTimeout(c) PROVE FInv'
    BY <1>1, <2>4, DisconnectedSound DEF DrainQuiet, IdleTimeout, otherVars
  <2>5. QED
    BY <1>6, <2>1, <2>2, <2>3, <2>4 DEF Timers
<1>7. CASE Environment
  BY <1>7, ForeignSound, RestartSound DEF Environment
<1>8. QED
  BY <1>2, <1>3, <1>5, <1>6, <1>7 DEF Next

(* Rows, uploads, folder, answers and records agree in every reachable     *)
(* state, whatever the connections, files, sessions, restarts and foreign  *)
(* files: the inductive invariant behind the theorems below.               *)
THEOREM FolderInvariance == Spec => [](IInv /\ FInv)
<1>1. Init => IInv /\ FInv
  BY InitOK, SoundAtFirst
<1>2. IInv /\ FInv /\ [Next]_vars => (IInv /\ FInv)'
  BY NextOK, StepSound
<1>3. QED
  BY <1>1, <1>2, PTL DEF Spec

(* Every failure path of the service removes what it wrote: a received     *)
(* file is whole, being written now, or was cut off by the process's end.  *)
THEOREM LitterNever == Spec => []NoLitter
<1>1. FInv => NoLitter
  BY DEF FInv, Sound, Tidy, NoLitter, Whole, WholeContent, AgreedFor, AgreedOf, OpenParts, PartsOf
<1>2. QED
  BY <1>1, FolderInvariance, PTL

(* No path ever holds more than was agreed on, chunked bodies included.    *)
THEOREM WithinAgreement == Spec => []NeverMoreThanAgreed
<1>1. FInv => NeverMoreThanAgreed
  BY DEF FInv, Sound, Tidy, Accounted, NeverMoreThanAgreed, AgreedFor, AgreedOf
<1>2. QED
  BY <1>1, FolderInvariance, PTL

(* A row shown as done names a whole file of that session and row, also    *)
(* when other uploads of the same row end, fail or are retried after it.   *)
THEOREM DoneOnDisk == Spec => []DoneIsOnDisk
<1>1. FInv => DoneIsOnDisk
  BY DEF FInv, Sound, RowsHold, Keeps, DoneIsOnDisk, Whole, WholeContent, AgreedFor, AgreedOf
<1>2. QED
  BY <1>1, FolderInvariance, PTL

(* Devices are remembered and files recorded only after a 200 answer.      *)
THEOREM RecordsEarned == Spec => []RecordsAreEarned
<1>1. FInv => RecordsAreEarned
  BY DEF FInv, Books
<1>2. QED
  BY <1>1, FolderInvariance, PTL

(* A row shown as transferring has an upload behind it, through every      *)
(* retry, refusal, closed socket and teardown.                             *)
THEOREM SpinnerBacked == Spec => []SpinnerIsBacked
<1>1. FInv => SpinnerIsBacked
  BY DEF FInv, Sound, RowsHold, SpinnerIsBacked
<1>2. QED
  BY <1>1, FolderInvariance, PTL

(* A session is reported as finished only when each of its rows has been   *)
(* answered 200.                                                           *)
THEOREM FinishedAll == Spec => []FinishedMeansAll
<1>1. FInv => FinishedMeansAll
  BY DEF FInv, Sound, Books, RowsHold, AllDone, FinishedMeansAll
<1>2. QED
  BY <1>1, FolderInvariance, PTL

(* An upload answered 200 is on disk, whole, for good, provided no file    *)
(* can be given the name of the write probe (prepareDirectory() removes    *)
(* that one file at the start of every session, whoever wrote it).         *)
THEOREM AnsweredKept ==
    ASSUME ProbePath \notin FinalPath
    PROVE  Spec => []AckedIsKept
<1>1. IInv /\ FInv => AckedIsKept
  <2> SUFFICES ASSUME IInv, FInv, NEW a \in acked
               PROVE  \E p \in Path : Whole(p) /\ <<disk[p].session, disk[p].row>> = a
    BY DEF AckedIsKept
  <2>1. a = <<a[1], a[2]>>
    BY DEF IInv, Own, TypeOK
  <2>2. PICK p \in Path : Keeps(uploads, disk, p, a[1], a[2])
    BY DEF FInv, Sound, AnswersHold
  <2>3. QED
    BY <2>1, <2>2 DEF Keeps, Whole, WholeContent, AgreedFor, AgreedOf
<1>2. QED
  BY <1>1, FolderInvariance, PTL

-----------------------------------------------------------------------------
(* The progress bar.  An upload's share is within its row's size because   *)
(* its ceiling is that size (Bounded), so FInv is needed; the rest is what *)
(* each method of the transfer keeps.                                      *)
LEMMA ClosedAddsUp ==
    ASSUME NEW t \in Transfer, NEW ups, AddsUp(t)
    PROVE  AddsUp(CloseRows(t, ups))
<1> DEFINE u == CloseRows(t, ups)
<1>1. u \in Transfer /\ Len(u.files) = Len(t.files)
  BY CloseRowsType
<1>2. u.transferredBytes = t.transferredBytes
  BY DEF CloseRows, Updated
<1>3. ASSUME NEW r \in DOMAIN t.files
      PROVE  /\ u.files[r].transferred = t.files[r].transferred
             /\ u.files[r].size = t.files[r].size
  <2>1. t.files[r] \in FileEntry
    BY SharesType
  <2>2. PICK s : u.files[r] = [t.files[r] EXCEPT !.status = s]
    BY DEF CloseRows, Updated
  <2> QED BY <2>1, <2>2 DEF FileEntry
<1> HIDE DEF u
<1>4. AddsUp(u)
  BY <1>1, <1>2, <1>3, AddsUpSame
<1> QED BY <1>4 DEF u

LEMMA FinishAddsUp ==
    ASSUME NEW k, NEW ups, NEW t \in Transfer, NEW d, NEW how, AddsUp(t),
           finishSession(k, ups, t, d, how)
    PROVE  AddsUp(transfer')
<1>1. AddsUp(CloseRows(t, ups))
  BY ClosedAddsUp
<1>2. CASE session = 0
  BY <1>2, SetStateAddsUp DEF finishSession
<1>3. CASE session # 0
  <2>1. \E s : transfer' = setState(CloseRows(t, ups), s)
    BY <1>3 DEF finishSession
  <2> QED BY <1>1, <2>1, SetStateAddsUp
<1> QED BY <1>2, <1>3

LEMMA SettledAddsUp ==
    ASSUME NEW k, NEW ups, NEW t \in Transfer, NEW d, NEW timer, AddsUp(t),
           FinishIfSettled(k, ups, t, d, timer)
    PROVE  AddsUp(transfer')
<1>1. CASE AllSettled(t)
  BY <1>1, FinishAddsUp DEF FinishIfSettled
<1>2. CASE ~AllSettled(t)
  BY <1>2 DEF FinishIfSettled, Continue
<1> QED BY <1>1, <1>2

LEMMA UploadFinishedAddsUp ==
    ASSUME NEW c, NEW u, NEW ups, NEW t \in Transfer, NEW d, NEW intact, AddsUp(t),
           u.row \in DOMAIN t.files, u.final \in FinalPath,
           handleUploadFinished(c, u, ups, t, d, intact)
    PROVE  AddsUp(transfer')
<1> DEFINE keep == Kept(u, t.files[u.row], intact)
           place == Place(d, u)
           moved == setFileLocalPath(t, u.row, place)
<1>1. place \in Path
  BY PathsExist DEF Place, PartPath
<1>2. /\ moved \in Transfer /\ AddsUp(moved) /\ u.row \in DOMAIN moved.files
  <2> HIDE DEF place
  <2> QED BY <1>1, LocalPathTypeAt, LocalPathAddsUp
<1>3. "done" \in FileStatus /\ "failed" \in FileStatus
  BY DEF FileStatus
<1>4. CASE keep
  <2>1. \E k, e : FinishIfSettled(k, ups, setFileStatus(moved, u.row, "done"), e, "running")
    BY <1>4 DEF handleUploadFinished, entry, Listed
  <2> HIDE DEF moved
  <2>2. /\ setFileStatus(moved, u.row, "done") \in Transfer
        /\ AddsUp(setFileStatus(moved, u.row, "done"))
    BY <1>2, <1>3, StatusTypeAt, StatusAddsUp
  <2> QED BY <2>1, <2>2, SettledAddsUp
<1>5. CASE ~keep
  <2>1. \E k, e : FinishIfSettled(k, ups, setFileStatus(t, u.row, "failed"), e, "running")
    BY <1>5 DEF handleUploadFinished, entry, Listed
  <2>2. /\ setFileStatus(t, u.row, "failed") \in Transfer
        /\ AddsUp(setFileStatus(t, u.row, "failed"))
    BY <1>3, StatusTypeAt, StatusAddsUp
  <2> QED BY <2>1, <2>2, SettledAddsUp
<1> QED BY <1>4, <1>5

LEMMA UploadAddsUp ==
    ASSUME IInv, FInv, ProgressAddsUp, NEW c \in Conn,
           \/ \E s, id : \/ UploadAgain(c, s, id) \/ UploadUnwritable(c, s, id)
                         \/ \E n \in Lengths : handleUploadHeaders(c, s, id, n)
           \/ UploadBlock(c) \/ UploadEnd(c) \/ Disconnected(c)
    PROVE  ProgressAddsUp'
<1>1. transfer \in Transfer /\ AddsUp(transfer)
  BY DEF IInv, Own, TypeOK, ProgressAddsUp
<1>2. {"failed", "transferring"} \subseteq FileStatus
  BY DEF FileStatus
<1>3. ASSUME NEW s, NEW id, Admitted(c, s, id)
      PROVE  indexOfFile(transfer, id) \in DOMAIN transfer.files
  BY <1>1, <1>3, FirstRow DEF Admitted
<1>4. ASSUME c \in DOMAIN uploads
      PROVE  /\ uploads[c].row \in DOMAIN transfer.files /\ uploads[c] \in Upload
             /\ uploads[c].limit = transfer.files[uploads[c].row].size
  BY <1>4, AloneRows DEF IInv, Own, TypeOK, FInv, Sound, Bounded
<1>5. ASSUME NEW s, NEW id, UploadAgain(c, s, id) PROVE ProgressAddsUp'
  BY <1>1, <1>5 DEF UploadAgain, ProgressAddsUp
<1>6. ASSUME NEW s, NEW id, UploadUnwritable(c, s, id) PROVE ProgressAddsUp'
  <2> DEFINE row == indexOfFile(transfer, id)
  <2>1. row \in DOMAIN transfer.files
    BY <1>3, <1>6 DEF UploadUnwritable
  <2>2. transfer' = setFileStatus(transfer, row, "failed")
    BY <1>6 DEF UploadUnwritable, Continue
  <2> HIDE DEF row
  <2> QED BY <1>1, <1>2, <2>1, <2>2, StatusAddsUp DEF ProgressAddsUp
<1>7. ASSUME NEW s, NEW id, NEW n \in Lengths, handleUploadHeaders(c, s, id, n)
      PROVE  ProgressAddsUp'
  <2> DEFINE row == indexOfFile(transfer, id)
             file == transfer.files[row]
             u == [row |-> row, final |-> reserveFilePath(file.name),
                   length |-> n, limit |-> file.size, received |-> 0]
             t == setFileStatus(transfer, row, "transferring")
  <2>1. row \in DOMAIN transfer.files /\ HasFreeName(file.name) /\ file.name \in FileName
    <3>1. row \in DOMAIN transfer.files /\ HasFreeName(file.name)
      BY <1>3, <1>7 DEF handleUploadHeaders
    <3> HIDE DEF row
    <3>2. file \in FileEntry
      BY <1>1, <3>1, SharesType
    <3> QED BY <3>1, <3>2 DEF FileEntry
  <2>2. u.row = row /\ u.final \in FinalPath
    BY <1>1, <2>1, ReservedIsFree DEF IInv, Own, TypeOK
  <2>3. \/ transfer' = t
        \/ \E d : \E intact \in BOOLEAN : handleUploadFinished(c, u, uploads, t, d, intact)
    BY <1>7 DEF handleUploadHeaders, Continue
  <2> HIDE DEF row, u
  <2>4. t \in Transfer /\ AddsUp(t) /\ row \in DOMAIN t.files
    BY <1>1, <1>2, <2>1, StatusTypeAt, StatusAddsUp
  <2> HIDE DEF t
  <2>5. CASE transfer' = t
    BY <2>4, <2>5 DEF ProgressAddsUp
  <2>6. CASE \E d : \E intact \in BOOLEAN : handleUploadFinished(c, u, uploads, t, d, intact)
    BY <2>2, <2>4, <2>6, UploadFinishedAddsUp DEF ProgressAddsUp
  <2> QED BY <2>3, <2>5, <2>6
<1>8. CASE UploadBlock(c)
  <2> DEFINE u == [uploads[c] EXCEPT !.received = @ + 1]
             t == setFileTransferred(transfer, u.row, u.received)
  <2>1. \/ transfer' = transfer
        \/ WithinCeiling(u) /\ transfer' = t
        \/ WithinCeiling(u) /\ \E ups, d : \E intact \in BOOLEAN :
              handleUploadFinished(c, u, ups, t, d, intact)
    BY <1>8 DEF UploadBlock, Continue
  <2>2. c \in DOMAIN uploads
    BY <1>8 DEF UploadBlock, Streaming
  <2>3. /\ u.row = uploads[c].row /\ u.limit = uploads[c].limit /\ u.final \in FinalPath
        /\ u.received \in Nat
    BY <1>4, <2>2 DEF Upload
  <2> HIDE DEF u
  <2>4. u.row \in DOMAIN transfer.files /\ u.limit = transfer.files[u.row].size
    BY <1>4, <2>2, <2>3
  <2>5. CASE transfer' = transfer
    BY <1>1, <2>5 DEF ProgressAddsUp
  <2>6. ASSUME WithinCeiling(u)
        PROVE  t \in Transfer /\ AddsUp(t) /\ u.row \in DOMAIN t.files
    <3>1. transfer.files[u.row].size \in 0..MaxSize
      BY <1>1, <2>4, SharesType
    <3>2. u.received \in 0..transfer.files[u.row].size /\ u.received \in 0..MaxSize
      BY <2>3, <2>4, <2>6, <3>1, TransferAssumption DEF WithinCeiling
    <3> QED BY <1>1, <2>4, <3>2, TransferredTypeAt, TransferredAddsUp
  <2> HIDE DEF t
  <2>7. CASE WithinCeiling(u) /\ transfer' = t
    BY <2>6, <2>7 DEF ProgressAddsUp
  <2>8. CASE WithinCeiling(u) /\ \E ups, d : \E intact \in BOOLEAN :
                handleUploadFinished(c, u, ups, t, d, intact)
    BY <2>3, <2>6, <2>8, UploadFinishedAddsUp DEF ProgressAddsUp
  <2> QED BY <2>1, <2>5, <2>7, <2>8
<1>9. CASE UploadEnd(c)
  <2>1. c \in DOMAIN uploads /\ \E ups : \E intact \in BOOLEAN :
            handleUploadFinished(c, uploads[c], ups, transfer, disk, intact)
    BY <1>9 DEF UploadEnd, Streaming
  <2>2. uploads[c].row \in DOMAIN transfer.files /\ uploads[c].final \in FinalPath
    BY <1>4, <2>1 DEF Upload
  <2> QED BY <1>1, <2>1, <2>2, UploadFinishedAddsUp DEF ProgressAddsUp
<1>10. CASE Disconnected(c)
  <2> DEFINE t == setFileStatus(transfer, uploads[c].row, "failed")
  <2>1. \/ \E s : transfer' = setState(transfer, s)
        \/ transfer' = transfer
        \/ c \in DOMAIN uploads /\ \E k, ups, d : FinishIfSettled(k, ups, t, d, idleTimer)
    BY <1>10 DEF Disconnected, Continue
  <2>2. CASE c \in DOMAIN uploads /\ \E k, ups, d : FinishIfSettled(k, ups, t, d, idleTimer)
    <3>1. t \in Transfer /\ AddsUp(t)
      BY <1>1, <1>2, <1>4, <2>2, StatusTypeAt, StatusAddsUp
    <3> HIDE DEF t
    <3> QED BY <2>2, <3>1, SettledAddsUp DEF ProgressAddsUp
  <2> HIDE DEF t
  <2> QED BY <1>1, <2>1, <2>2, SetStateAddsUp DEF ProgressAddsUp
<1> QED BY <1>5, <1>6, <1>7, <1>8, <1>9, <1>10

LEMMA StepAddsUp == IInv /\ FInv /\ ProgressAddsUp /\ [Next]_vars => ProgressAddsUp'
<1> SUFFICES ASSUME IInv, FInv, ProgressAddsUp, [Next]_vars PROVE ProgressAddsUp'
  OBVIOUS
<1>1. transfer \in Transfer /\ AddsUp(transfer)
  BY DEF IInv, Own, TypeOK, ProgressAddsUp
<1>2. ASSUME \E s : transfer' = setState(transfer, s) PROVE ProgressAddsUp'
  BY <1>1, <1>2, SetStateAddsUp DEF ProgressAddsUp
<1>3. ASSUME transfer' = transfer PROVE ProgressAddsUp'
  BY <1>1, <1>3 DEF ProgressAddsUp
<1>4. ASSUME NEW k, NEW how, finishSession(k, uploads, transfer, disk, how)
      PROVE  ProgressAddsUp'
  BY <1>1, <1>4, FinishAddsUp DEF ProgressAddsUp
<1>5. ASSUME stopListening PROVE ProgressAddsUp'
  BY <1>3, <1>4, <1>5 DEF stopListening, Continue
<1>6. ASSUME PutAway PROVE ProgressAddsUp'
  BY <1>2, <1>6 DEF PutAway
<1>7. ASSUME NEW c \in Conn, Network(c) PROVE ProgressAddsUp'
  <2>1. CASE (\E a \in Address : Connect(c, a)) \/ AnsweredAtOnce(c) \/ RefusedAtHead(c)
             \/ TailBytes(c)
    BY <1>3, <2>1 DEF Connect, AnsweredAtOnce, RefusedAtHead, TailBytes, otherVars
  <2>2. CASE \/ \E s \in 1..Len(sessions), id \in FileId :
                   \/ UploadAgain(c, s, id) \/ UploadUnwritable(c, s, id)
                   \/ \E n \in Lengths : handleUploadHeaders(c, s, id, n)
             \/ UploadBlock(c) \/ UploadEnd(c) \/ Disconnected(c)
    BY <2>2, UploadAddsUp
  <2>3. CASE \E s \in 0..Len(sessions) : handleCancel(c, s)
    BY <1>2, <1>3, <1>4, <2>3 DEF handleCancel, Continue
  <2>4. ASSUME NEW p \in Peer, NEW offer \in Offers, handlePrepareUpload(c, p, offer)
        PROVE  ProgressAddsUp'
    <3> DEFINE t == setState(begin(transfer, offer), "pending")
    <3>1. AddsUp(t)
      BY <1>1, BeginAddsUp, SetStateAddsUp, ReceiveAssumption
    <3>2. transfer' = t \/ \E s : transfer' = setState(t, s)
      BY <2>4 DEF handlePrepareUpload, accept, OpenSession
    <3> HIDE DEF t
    <3> QED BY <3>1, <3>2, SetStateAddsUp DEF ProgressAddsUp
  <2> QED BY <1>7, <2>1, <2>2, <2>3, <2>4 DEF Network, Traffic
<1>8. CASE User
  <2>1. CASE Accept
    BY <1>2, <2>1 DEF Accept, accept, OpenSession
  <2>2. CASE Cancel
    BY <1>4, <2>2 DEF Cancel
  <2>3. CASE ReceiveEnabledChanged \/ PortChanged
    BY <1>3, <1>5, <2>3 DEF ReceiveEnabledChanged, PortChanged, Continue
  <2> QED BY <1>6, <1>8, <2>1, <2>2, <2>3 DEF User, Decline
<1>9. CASE Timers
  <2>1. CASE onAcceptTimeout \/ SessionQuiet \/ onSessionIdle
    BY <1>3, <1>4, <1>6, <2>1 DEF onAcceptTimeout, SessionQuiet, onSessionIdle
  <2>2. ASSUME NEW c \in Conn, DrainQuiet(c) \/ IdleTimeout(c) PROVE ProgressAddsUp'
    BY <1>3, <2>2, UploadAddsUp DEF DrainQuiet, IdleTimeout, otherVars
  <2> QED BY <1>9, <2>1, <2>2 DEF Timers
<1>10. CASE Environment
  BY <1>3, <1>10, NoTransferAddsUp
     DEF Environment, Restart, ProcessEnds, ForeignFile, ProgressAddsUp
<1>11. CASE UNCHANGED vars
  BY <1>3, <1>11 DEF vars
<1> QED BY <1>7, <1>8, <1>9, <1>10, <1>11 DEF Next

(* The progress bar is true: whatever retries, rival uploads and early     *)
(* ends there are, the running total setFileTransferred() and              *)
(* setFileStatus() keep is the sum over the rows, each within its size.    *)
THEOREM ProgressTrue == Spec => []ProgressAddsUp
<1>1. Init => ProgressAddsUp
  BY NoTransferAddsUp DEF Init, ProgressAddsUp
<1>2. QED
  BY <1>1, StepAddsUp, FolderInvariance, PTL DEF Spec

-----------------------------------------------------------------------------
(* The transfer shared.  main() gives ReceiveService and SendService one   *)
(* TransferModel and one KnownDevices, so between the steps of the one the *)
(* other may begin a transfer in the same rows, settle them and remember a *)
(* device.  Its lists have any number of files: more than the session, or  *)
(* fewer, so that uploads under way lose their row.                        *)

(* The sender's steps, as SendService's SenderKeepsRows has them, with the *)
(* lists of files ours that it may begin.                                  *)
SenderStep(ours) ==
    /\ transfer' \in Transfer /\ known' \subseteq Peer
    /\ \/ Declares(transfer'.files, transfer.files)
       \/ \E f \in ours : Declares(transfer'.files, f)
    /\ UNCHANGED <<netVars, sessionVars, timerVars, serverVars, disk, history, obsVars>>

SharedSpec(ours) == Init /\ [][SharedNext \/ SenderStep(ours)]_vars

(* An id of ours is nobody else's: sendFiles() makes a new random one for  *)
(* each file, so if two lists have it they mean the same file.             *)
Apart(ours) ==
    \A f \in ours, o \in Offers \cup ours :
        \A i \in DOMAIN o : \A j \in DOMAIN f :
            o[i].id = f[j].id => i = j /\ o[i].size = f[j].size /\ o[i].digest = f[j].digest

(* What lasts whatever becomes of the rows: an upload's ceiling is the size *)
(* agreed on for its row of the session, and the folder holds no more than *)
(* was agreed on.  It is stated, as before, of what a handler has reached. *)
Fits(t) ==
    session # 0 =>
        LET agreed == sessions[session].agreed
        IN  \A r \in DOMAIN t.files : t.files[r].id \in tokens =>
                r \in DOMAIN agreed /\ Agreed(t)[r] = agreed[r]
HeldTo(u) == /\ u.limit = sessions[session].agreed[u.row].size
             /\ u.received <= u.limit
Within(d) == \A p \in Path : d[p].kind = "received" => Accounted(d[p])
Lasting(ups, t, d) == Fits(t) /\ Within(d) /\ \A c \in DOMAIN ups : HeldTo(ups[c])
Lasts == Lasting(uploads, transfer, disk)

SameRows(u, t) == Declares(u.files, t.files)

LEMMA FitsKept ==
    ASSUME NEW t \in Transfer, NEW u \in Transfer, Fits(t), SameRows(u, t)
    PROVE  Fits(u)
<1>1. Agreed(u) = Agreed(t)
  BY DEF Agreed, SameRows, Declares
<1>2. QED
  BY <1>1 DEF Fits, SameRows, Declares

(* The rows the handlers make of rows.                                     *)
LEMMA RowsStay ==
    ASSUME NEW t \in Transfer, NEW row
    PROVE  /\ \A s \in FileStatus : SameRows(setFileStatus(t, row, s), t)
           /\ \A n \in 0..MaxSize : SameRows(setFileTransferred(t, row, n), t)
           /\ \A p \in Path : SameRows(setFileLocalPath(t, row, p), t)
  BY RowsDeclare DEF SameRows

(* Continue() and finishSession() keep what lasts.                         *)
LEMMA HandOverLasts ==
    ASSUME NEW k, NEW ups, NEW t, NEW d \in [Path -> Content], NEW timer, Lasting(ups, t, d),
           \/ Continue(k, ups, t, d, timer)
           \/ \E cancelled \in BOOLEAN : finishSession(k, ups, t, d, cancelled)
           \/ FinishIfSettled(k, ups, t, d, timer)
    PROVE  Lasts'
<1>1. CASE Continue(k, ups, t, d, timer)
  BY <1>1 DEF Continue, sessionVars, Lasts, Lasting, Fits, Agreed, HeldTo, Within, Accounted,
              AgreedOf
<1>2. ASSUME NEW cancelled \in BOOLEAN, finishSession(k, ups, t, d, cancelled)
      PROVE  Lasts'
  <2>1. session' = 0 /\ sessions' = sessions /\ DOMAIN uploads' = {}
        /\ disk' = RemoveAll(d, {PartPath(ups[c]) : c \in DOMAIN ups})
    BY <1>2 DEF finishSession, NoUploads
  <2>2. \A p \in Path : disk'[p].kind = "received" => disk'[p] = d[p]
    BY <2>1, RemoveAllType DEF Absent
  <2>3. QED
    BY <2>1, <2>2 DEF Lasts, Lasting, Fits, Within, Accounted, AgreedOf
<1>3. QED
  BY <1>1, <1>2 DEF FinishIfSettled

(* The session and its files are left alone, and so are the rows.          *)
LEMMA LastsUntouched ==
    ASSUME Lasts, UNCHANGED <<session, sessions, tokens, uploads, disk>>,
           transfer'.files = transfer.files
    PROVE  Lasts'
  BY DEF Lasts, Lasting, Fits, Agreed, HeldTo, Within, Accounted, AgreedOf

(* What is written for a row of the open session, up to its ceiling.       *)
LEMMA WrittenIsAccounted ==
    ASSUME TypeOK, session # 0, NEW u \in Upload,
           u.row \in DOMAIN sessions[session].agreed, HeldTo(u), NEW i
    PROVE  Accounted(Received(session, u.row, u.received, i))
<1> DEFINE x == Received(session, u.row, u.received, i)
<1>1. x.session = session /\ x.row = u.row /\ x.bytes = u.received
  BY DEF Received
<1>2. session \in 1..Len(sessions)
  BY DEF TypeOK
<1> HIDE DEF x
<1>3. Accounted(x)
  BY <1>1, <1>2 DEF Accounted, AgreedOf, HeldTo
<1>4. QED
  BY <1>3 DEF x

LEMMA UploadFinishedLasts ==
    ASSUME TypeOK, session # 0, NEW c, NEW u \in Upload, NEW ups, NEW t \in Transfer,
           NEW d \in [Path -> Content], NEW intact \in BOOLEAN,
           Lasting(ups, t, d), u.row \in DOMAIN sessions[session].agreed, HeldTo(u),
           handleUploadFinished(c, u, ups, t, d, intact)
    PROVE  Lasts'
<1> DEFINE k == [conns EXCEPT ![c] = respond(finishBody(@))]
           place == Place(d, u)
           tl == setFileLocalPath(t, u.row, place)
           td == setFileStatus(tl, u.row, "done")
           tf == setFileStatus(t, u.row, "failed")
           dr == RemoveAll(d, {PartPath(u)})
           x == Received(session, u.row, u.received, intact)
           dk == [dr EXCEPT ![place] = x]
<1>1. place \in Path
  BY PathsExist DEF Place, PartPath, Upload
<1>2. dr \in [Path -> Content] /\ \A p \in Path : dr[p].kind = "received" => dr[p] = d[p]
  BY RemoveAllType DEF Absent
<1>3. x \in Content /\ Accounted(x)
  <2>1. u.row \in Nat /\ u.received \in Nat /\ session \in Nat
    BY DEF Upload, TypeOK
  <2>2. x \in Content
    BY <2>1 DEF Received, Content
  <2>3. Accounted(x)
    BY WrittenIsAccounted
  <2>4. QED
    BY <2>2, <2>3
<1> HIDE DEF x
<1>4. Within(dr)
  BY <1>2 DEF Lasting, Within
<1>5. dk \in [Path -> Content] /\ Within(dk)
  <2> HIDE DEF dr, place
  <2>1. dk \in [Path -> Content] /\ \A p \in Path : dk[p] = IF p = place THEN x ELSE dr[p]
    BY <1>1, <1>2, <1>3
  <2> HIDE DEF dk
  <2>2. QED
    BY <2>1, <1>3, <1>4 DEF Within
<1>6. tf \in Transfer /\ SameRows(tf, t)
  BY StatusType, RowsStay DEF FileStatus
<1>7. td \in Transfer /\ SameRows(td, t)
  <2>1. tl \in Transfer /\ SameRows(tl, t) /\ DOMAIN tl.files = DOMAIN t.files
    BY <1>1, LocalPathType, RowsStay
  <2> HIDE DEF tl
  <2>2. td \in Transfer /\ SameRows(td, tl)
    BY <2>1, StatusType, RowsStay DEF FileStatus
  <2> HIDE DEF td
  <2>3. QED
    BY <2>1, <2>2 DEF SameRows, Declares
<1>8. \/ FinishIfSettled(k, ups, td, dk, "running")
      \/ FinishIfSettled(k, ups, tf, dr, "running")
  BY DEF handleUploadFinished, x
<1> HIDE DEF k, place, tl, td, tf, dr, dk
<1>9. Lasting(ups, td, dk) /\ Lasting(ups, tf, dr)
  BY <1>4, <1>5, <1>6, <1>7, FitsKept DEF Lasting
<1>10. QED
  BY <1>2, <1>5, <1>8, <1>9, HandOverLasts

SharedInv == Own(FALSE) /\ Lasts

(* What a handler starts from.                                             *)
LEMMA LastsAtFirst ==
    ASSUME SharedInv
    PROVE  /\ TypeOK /\ transfer \in Transfer /\ disk \in [Path -> Content]
           /\ Lasting(uploads, transfer, disk)
           /\ \A c \in DOMAIN uploads :
                 /\ uploads[c] \in Upload /\ HeldTo(uploads[c]) /\ session # 0
                 /\ uploads[c].row \in DOMAIN sessions[session].agreed
                 /\ disk[PartPath(uploads[c])] =
                        Received(session, uploads[c].row, uploads[c].received, TRUE)
           /\ \A c : Lasting(Without(uploads, c), transfer, disk)
<1>1. TypeOK /\ transfer \in Transfer /\ disk \in [Path -> Content]
  BY DEF SharedInv, Own, TypeOK
<1>2. Lasting(uploads, transfer, disk)
  BY DEF SharedInv, Lasts
<1>3. \A c \in DOMAIN uploads :
         /\ uploads[c] \in Upload /\ HeldTo(uploads[c]) /\ session # 0
         /\ uploads[c].row \in DOMAIN sessions[session].agreed
         /\ disk[PartPath(uploads[c])] =
                Received(session, uploads[c].row, uploads[c].received, TRUE)
  BY <1>2 DEF SharedInv, Own, TypeOK, UploadsBelong, Lasting
<1>4. \A c : Lasting(Without(uploads, c), transfer, disk)
  BY <1>2 DEF Lasting, Without
<1>5. QED
  BY <1>1, <1>2, <1>3, <1>4

LEMMA DisconnectedLasts ==
    ASSUME SharedInv, NEW c \in Conn, Disconnected(c)
    PROVE  Lasts'
<1> DEFINE k == [conns EXCEPT ![c] = NoConnection]
           ups == Without(uploads, c)
           t == setFileStatus(transfer, uploads[c].row, "failed")
           d == RemoveAll(disk, {PartPath(uploads[c])})
<1>1. CASE /\ c \in DOMAIN uploads
           /\ FinishIfSettled(k, ups, t, d, idleTimer)
  <2>1. /\ transfer \in Transfer /\ disk \in [Path -> Content] /\ Lasting(ups, transfer, disk)
    BY LastsAtFirst
  <2>2. t \in Transfer /\ SameRows(t, transfer)
    BY <2>1, StatusType, RowsStay DEF FileStatus
  <2>3. d \in [Path -> Content] /\ \A p \in Path : d[p].kind = "received" => d[p] = disk[p]
    BY <2>1, RemoveAllType DEF Absent
  <2> HIDE DEF k, ups, t, d
  <2>4. Lasting(ups, t, d)
    BY <2>1, <2>2, <2>3, FitsKept DEF Lasting, Within
  <2>5. QED
    BY <1>1, <2>3, <2>4, HandOverLasts
<1>2. CASE /\ transfer' = IF session = 0 THEN setState(transfer, "idle") ELSE transfer
           /\ UNCHANGED <<uploads, sessionVars, idleTimer, disk, recordVars>>
  <2>1. transfer'.files = transfer.files
    BY <1>2 DEF setState
  <2>2. QED
    BY <1>2, <2>1, LastsUntouched DEF SharedInv, sessionVars
<1>3. CASE Continue(k, uploads, transfer, disk, idleTimer)
  BY <1>3, LastsUntouched DEF Continue, SharedInv, sessionVars
<1>4. QED
  BY <1>1, <1>2, <1>3 DEF Disconnected

LEMMA AnsweredLasts ==
    ASSUME SharedInv, NEW c \in Conn, NEW s, NEW id,
           UploadAgain(c, s, id) \/ UploadUnwritable(c, s, id)
    PROVE  Lasts'
<1> DEFINE row == indexOfFile(transfer, id)
           k == [conns EXCEPT ![c] = respond(headersReady(@))]
           t == setFileStatus(transfer, row, "failed")
<1>1. CASE UploadAgain(c, s, id)
  BY <1>1, LastsUntouched DEF UploadAgain, SharedInv, sessionVars
<1>2. CASE UploadUnwritable(c, s, id)
  <2>1. RowsOf(transfer, id) # {} /\ Continue(k, uploads, t, disk, idleTimer)
    BY <1>2 DEF UploadUnwritable, Admitted
  <2>2. /\ transfer \in Transfer /\ disk \in [Path -> Content]
        /\ Lasting(uploads, transfer, disk)
    BY LastsAtFirst
  <2>3. row \in DOMAIN transfer.files
    BY <2>1, <2>2, FirstRow
  <2>4. t \in Transfer /\ SameRows(t, transfer)
    BY <2>2, <2>3, StatusType, RowsStay DEF FileStatus
  <2> HIDE DEF k, t
  <2>5. Lasting(uploads, t, disk)
    BY <2>2, <2>4, FitsKept DEF Lasting
  <2>6. QED
    BY <2>1, <2>2, <2>5, HandOverLasts
<1>3. QED
  BY <1>1, <1>2

(* A head lets an upload in: the token led to a row that was agreed to, so *)
(* the size the row shows is the size agreed on.                           *)
LEMMA HeadersLasts ==
    ASSUME SharedInv, NEW c \in Conn, NEW s, NEW id, NEW n \in Lengths,
           handleUploadHeaders(c, s, id, n)
    PROVE  Lasts'
<1> DEFINE row == indexOfFile(transfer, id)
           file == transfer.files[row]
           u == [row |-> row, final |-> reserveFilePath(file.name), length |-> n,
                 limit |-> file.size, received |-> 0]
           t == setFileStatus(transfer, row, "transferring")
           x == Received(session, row, 0, TRUE)
           d == [disk EXCEPT ![PartPath(u)] = x]
           ups == With(uploads, c, u)
<1>1. RowsOf(transfer, id) # {} /\ HasFreeName(file.name) /\ session # 0 /\ id \in tokens
  BY DEF handleUploadHeaders, Admitted
<1>2. /\ TypeOK /\ transfer \in Transfer /\ disk \in [Path -> Content]
      /\ Lasting(uploads, transfer, disk)
  BY LastsAtFirst
<1>3. row \in DOMAIN transfer.files /\ file.id = id
  BY <1>1, <1>2, FirstRow
<1> HIDE DEF row
<1>4. row \in Nat /\ file \in FileEntry /\ file.name \in FileName /\ file.size \in 0..MaxSize
  <2>1. transfer.files \in Seq(FileEntry)
    BY <1>2 DEF Transfer
  <2>2. row \in Nat /\ file \in FileEntry
    BY <1>3, <2>1, RowsAreSeq
  <2>3. QED
    BY <2>2 DEF FileEntry
<1>5. row \in DOMAIN sessions[session].agreed
      /\ file.size = sessions[session].agreed[row].size
  <2>1. /\ row \in DOMAIN sessions[session].agreed
        /\ Agreed(transfer)[row] = sessions[session].agreed[row]
    BY <1>1, <1>2, <1>3 DEF Lasting, Fits
  <2>2. Agreed(transfer)[row].size = file.size
    BY <1>3 DEF Agreed
  <2>3. QED
    BY <2>1, <2>2
<1>6. reserveFilePath(file.name) \in FinalPath
  BY <1>1, <1>4, ReservedIsFree
<1> HIDE DEF file
<1>7. /\ u \in Upload /\ u.row = row /\ u.final = reserveFilePath(file.name)
      /\ u.limit = file.size /\ u.received = 0
  BY <1>4, <1>6, ReceiveAssumption DEF Upload
<1>8. PartPath(u) \in Path
  BY <1>6, <1>7, PathsExist DEF PartPath
<1>9. \/ \E k : Continue(k, ups, t, d, "running")
      \/ \E intact \in BOOLEAN : handleUploadFinished(c, u, uploads, t, d, intact)
  BY DEF handleUploadHeaders, row, file
<1>10. HeldTo(u)
  BY <1>4, <1>5, <1>7 DEF HeldTo
<1> HIDE DEF u
<1>11. x \in Content /\ Accounted(x)
  <2>1. session \in Nat
    BY <1>2 DEF TypeOK
  <2>2. x \in Content
    BY <1>4, <2>1 DEF Received, Content
  <2>3. Accounted(x)
    BY <1>1, <1>2, <1>5, <1>7, <1>10, WrittenIsAccounted
  <2>4. QED
    BY <2>2, <2>3
<1> HIDE DEF x
<1>12. d \in [Path -> Content] /\ Within(d)
  <2>1. d \in [Path -> Content] /\ \A p \in Path : d[p] = IF p = PartPath(u) THEN x ELSE disk[p]
    BY <1>2, <1>8, <1>11
  <2> HIDE DEF d
  <2>2. QED
    BY <1>2, <1>11, <2>1 DEF Lasting, Within
<1>13. t \in Transfer /\ DOMAIN t.files = DOMAIN transfer.files /\ SameRows(t, transfer)
  BY <1>2, <1>3, StatusType, RowsStay DEF FileStatus
<1>14. \A e \in DOMAIN ups : HeldTo(ups[e])
  BY <1>2, <1>10 DEF With, Lasting
<1> HIDE DEF t, d, ups
<1>15. Lasting(ups, t, d) /\ Lasting(uploads, t, d)
  BY <1>2, <1>12, <1>13, <1>14, FitsKept DEF Lasting
<1>16. QED
  BY <1>1, <1>2, <1>5, <1>7, <1>9, <1>10, <1>12, <1>13, <1>15, HandOverLasts, UploadFinishedLasts

(* A block is held against the upload's own ceiling, not against the row.  *)
LEMMA StreamLasts ==
    ASSUME SharedInv, NEW c \in Conn, UploadBlock(c) \/ UploadEnd(c)
    PROVE  Lasts'
<1> DEFINE rest == Without(uploads, c)
           v == uploads[c]
<1>1. c \in DOMAIN uploads
  BY DEF UploadBlock, UploadEnd, Streaming
<1>2. /\ TypeOK /\ transfer \in Transfer /\ disk \in [Path -> Content] /\ session # 0
      /\ Lasting(uploads, transfer, disk) /\ Lasting(rest, transfer, disk)
      /\ v \in Upload /\ HeldTo(v) /\ v.row \in DOMAIN sessions[session].agreed
      /\ disk[PartPath(v)] = Received(session, v.row, v.received, TRUE)
  BY <1>1, LastsAtFirst
<1>3. CASE UploadEnd(c)
  <2>1. PICK intact \in BOOLEAN : handleUploadFinished(c, v, rest, transfer, disk, intact)
    BY <1>3 DEF UploadEnd
  <2> HIDE DEF rest, v
  <2>2. QED
    BY <1>2, <2>1, UploadFinishedLasts
<1>4. CASE UploadBlock(c)
  <2> DEFINE u == [v EXCEPT !.received = @ + 1]
             t == setFileTransferred(transfer, u.row, u.received)
             x == Grown(disk[PartPath(u)], u.received)
             d == [disk EXCEPT ![PartPath(u)] = x]
             ups == [uploads EXCEPT ![c] = u]
  <2>1. \/ WithinCeiling(u) /\ Continue(conns, ups, t, d, "running")
        \/ /\ WithinCeiling(u)
           /\ \E intact \in BOOLEAN : handleUploadFinished(c, u, rest, t, d, intact)
        \/ \E k : Continue(k, uploads, transfer, disk, idleTimer)
    BY <1>4 DEF UploadBlock
  <2>2. CASE \E k : Continue(k, uploads, transfer, disk, idleTimer)
    BY <1>2, <2>2, HandOverLasts
  <2> HIDE DEF v
  <2>3. /\ u \in Upload /\ u.row = v.row /\ u.final = v.final /\ u.limit = v.limit
        /\ u.received = v.received + 1 /\ u.received \in Nat /\ u.limit \in 0..MaxSize
        /\ u.row \in Nat
    BY <1>2 DEF Upload
  <2> HIDE DEF u
  <2>4. PartPath(u) = PartPath(v) /\ PartPath(u) \in Path
    BY <2>3, PathsExist DEF PartPath, Upload
  <2>5. x = Received(session, u.row, u.received, TRUE)
    <3> DEFINE y == disk[PartPath(u)]
    <3>1. y = Received(session, v.row, v.received, TRUE)
      BY <1>2, <2>4
    <3> HIDE DEF y
    <3>2. y.session = session /\ y.row = v.row /\ y.intact = TRUE
      BY ONLY <3>1 DEF Received
    <3>3. x = Received(y.session, y.row, u.received, y.intact)
      BY DEF Grown, y
    <3>4. QED
      BY <2>3, <3>2, <3>3, Zenon
  <2> HIDE DEF x
  <2>6. SUFFICES ASSUME WithinCeiling(u),
                        \/ Continue(conns, ups, t, d, "running")
                        \/ \E intact \in BOOLEAN : handleUploadFinished(c, u, rest, t, d, intact)
                 PROVE  Lasts'
    BY <2>1, <2>2
  <2>7. HeldTo(u) /\ u.received \in 0..MaxSize
    BY <1>2, <2>3, <2>6, TransferAssumption DEF HeldTo, WithinCeiling
  <2>8. x \in Content /\ Accounted(x)
    <3>1. session \in Nat
      BY <1>2 DEF TypeOK
    <3>2. x \in Content
      BY <2>3, <2>5, <3>1 DEF Received, Content
    <3>3. Accounted(x)
      BY <1>2, <2>3, <2>5, <2>7, WrittenIsAccounted
    <3>4. QED
      BY <3>2, <3>3
  <2>9. d \in [Path -> Content] /\ Within(d)
    <3>1. d \in [Path -> Content]
          /\ \A p \in Path : d[p] = IF p = PartPath(u) THEN x ELSE disk[p]
      BY <1>2, <2>4, <2>8
    <3> HIDE DEF d
    <3>2. QED
      BY <1>2, <2>8, <3>1 DEF Lasting, Within
  <2>10. t \in Transfer /\ DOMAIN t.files = DOMAIN transfer.files /\ SameRows(t, transfer)
    BY <1>2, <2>3, <2>7, TransferredType, RowsStay
  <2>11. \A e \in DOMAIN ups : HeldTo(ups[e])
    BY <1>2, <2>7 DEF Lasting
  <2> HIDE DEF t, d, ups, rest
  <2>12. Lasting(ups, t, d) /\ Lasting(rest, t, d)
    BY <1>2, <2>9, <2>10, <2>11, FitsKept DEF Lasting
  <2>13. QED
    BY <1>2, <2>3, <2>6, <2>7, <2>9, <2>10, <2>12, HandOverLasts, UploadFinishedLasts
<1>5. QED
  BY <1>3, <1>4

(* accept(): what is agreed on is what the rows are at that moment,        *)
(* whoever put them there.                                                 *)
LEMMA AcceptLasts ==
    ASSUME SharedInv, session = 0, NEW c, NEW k, NEW t \in Transfer, accept(c, k, t),
           UNCHANGED uploads
    PROVE  Lasts'
<1>1. DOMAIN uploads' = {} /\ TypeOK /\ Within(disk)
  BY LastsAtFirst DEF Lasting
<1>2. CASE /\ transfer' = setState(t, "failed")
           /\ UNCHANGED <<session, sessions, tokens, idleTimer, disk>>
  BY <1>1, <1>2 DEF Lasts, Lasting, Fits, Within, Accounted, AgreedOf
<1>3. CASE OpenSession(k[c].address, t)
  <2> DEFINE new == [peer |-> peer', address |-> k[c].address, agreed |-> Agreed(t)]
             D == DOMAIN sessions
  <2>1. /\ sessions' = Append(sessions, new) /\ session' = Len(sessions) + 1
        /\ transfer' = setState(t, "active")
        /\ disk' = [disk EXCEPT ![ProbePath] = Absent]
    BY <1>3 DEF OpenSession
  <2>2. sessions \in Seq(Session) /\ disk \in [Path -> Content]
    BY <1>1 DEF TypeOK
  <2>3. new.agreed = Agreed(t)
    OBVIOUS
  <2> HIDE DEF new
  <2>4. /\ Len(sessions') = Len(sessions) + 1 /\ Len(sessions) \in Nat
        /\ sessions'[Len(sessions) + 1] = new
        /\ \A s \in 1..Len(sessions) : sessions'[s] = sessions[s]
    BY <2>1, <2>2
  <2>5. transfer'.files = t.files
    BY <2>1 DEF setState
  <2>6. sessions'[session'].agreed = Agreed(t) /\ Agreed(transfer') = Agreed(t)
    BY <2>1, <2>3, <2>4, <2>5 DEF Agreed
  <2>7. DOMAIN Agreed(t) = DOMAIN t.files
    BY DEF Agreed
  <2>8. Fits(transfer)'
    BY <2>5, <2>6, <2>7 DEF Fits, Agreed
  <2>9. \A p \in Path : disk'[p].kind = "received" => disk'[p] = disk[p]
    BY <2>1, <2>2 DEF Absent
  <2>10. Within(disk)'
    BY <1>1, <2>4, <2>9 DEF Within, Accounted, AgreedOf
  <2>11. QED
    BY <1>1, <2>8, <2>10 DEF Lasts, Lasting
<1>4. QED
  BY <1>2, <1>3 DEF accept

LEMMA PromptLasts ==
    ASSUME SharedInv,
           \/ Accept
           \/ \E c \in Conn, p \in Peer, offer \in Offers : handlePrepareUpload(c, p, offer)
    PROVE  Lasts'
<1>1. transfer \in Transfer /\ TypeOK
  BY LastsAtFirst
<1>2. CASE Accept
  <2>1. session = 0
    BY <1>2 DEF Accept, SharedInv, Own, Backed
  <2>2. QED
    BY <1>1, <1>2, <2>1, AcceptLasts DEF Accept
<1>3. ASSUME NEW c \in Conn, NEW p \in Peer, NEW offer \in Offers,
             handlePrepareUpload(c, p, offer)
      PROVE  Lasts'
  <2> DEFINE k == [conns EXCEPT ![c] = finishBody(@)]
             b == begin(transfer, offer)
             t == setState(b, "pending")
  <2>1. session = 0 /\ UNCHANGED uploads
    BY <1>3 DEF handlePrepareUpload, Available
  <2>2. \/ accept(c, k, t)
        \/ UNCHANGED <<session, sessions, tokens, idleTimer, disk>>
    BY <1>3 DEF handlePrepareUpload
  <2>3. b \in Transfer
    BY <1>1, BeginType, ReceiveAssumption
  <2> HIDE DEF b
  <2>4. t \in Transfer
    BY <2>3, SetStateType DEF TransferState
  <2> HIDE DEF k, t
  <2>5. CASE UNCHANGED <<session, sessions, tokens, idleTimer, disk>>
    <3>1. Within(disk) /\ DOMAIN uploads' = {}
      BY <2>1, LastsAtFirst DEF Lasting
    <3>2. QED
      BY <2>1, <2>5, <3>1 DEF Lasts, Lasting, Fits, Within, Accounted, AgreedOf
  <2>6. QED
    BY <2>1, <2>2, <2>4, <2>5, AcceptLasts
<1>4. QED
  BY <1>2, <1>3

LEMMA TeardownLasts ==
    ASSUME SharedInv,
           \/ Cancel \/ onSessionIdle \/ ReceiveEnabledChanged \/ PortChanged
           \/ \E c \in Conn : \E s \in 0..Len(sessions) : handleCancel(c, s)
    PROVE  Lasts'
<1>1. disk \in [Path -> Content] /\ Lasting(uploads, transfer, disk)
  BY LastsAtFirst
<1>2. ASSUME NEW k, \/ \E cancelled \in BOOLEAN :
                           finishSession(k, uploads, transfer, disk, cancelled)
                    \/ Continue(k, uploads, transfer, disk, idleTimer)
      PROVE  Lasts'
  BY <1>1, <1>2, HandOverLasts
<1>3. CASE Cancel \/ onSessionIdle \/ ReceiveEnabledChanged \/ PortChanged
  BY <1>2, <1>3 DEF Cancel, onSessionIdle, ReceiveEnabledChanged, PortChanged, stopListening
<1>4. ASSUME NEW c \in Conn, NEW s \in 0..Len(sessions), handleCancel(c, s)
      PROVE  Lasts'
  <2>1. CASE /\ transfer' = setState(transfer, "cancelled")
             /\ UNCHANGED <<uploads, sessionVars, idleTimer, disk, recordVars>>
    <3>1. transfer'.files = transfer.files
      BY <2>1 DEF setState
    <3>2. QED
      BY <2>1, <3>1, LastsUntouched DEF SharedInv, sessionVars
  <2>2. QED
    BY <1>2, <1>4, <2>1 DEF handleCancel
<1>5. QED
  BY <1>3, <1>4

LEMMA EnvironmentLasts ==
    ASSUME SharedInv, Environment \/ \E c \in Conn : StrayRead(c)
    PROVE  Lasts'
<1>1. disk \in [Path -> Content] /\ Lasting(uploads, transfer, disk)
  BY LastsAtFirst
<1>2. ASSUME NEW p \in Path, ForeignFile(p) PROVE Lasts'
  <2>1. \A q \in Path : disk'[q].kind = "received" => disk'[q] = disk[q]
    BY <1>1, <1>2 DEF ForeignFile, Foreign, Absent
  <2>2. UNCHANGED <<session, sessions, tokens, uploads, transfer>>
    BY <1>2 DEF ForeignFile, netVars, sessionVars
  <2>3. QED
    BY <1>1, <2>1, <2>2
    DEF Lasts, Lasting, Fits, Agreed, HeldTo, Within, Accounted, AgreedOf
<1>3. ASSUME NEW d, Within(d), ProcessEnds(d) PROVE Lasts'
  <2>1. session' = 0 /\ DOMAIN uploads' = {} /\ sessions' = sessions /\ disk' = d
    BY <1>3 DEF ProcessEnds, NoUploads
  <2>2. QED
    BY <1>3, <2>1 DEF Lasts, Lasting, Fits, Within, Accounted, AgreedOf
<1>4. CASE Restart
  BY <1>1, <1>3, <1>4 DEF Restart, Lasting
<1>5. ASSUME NEW c \in Conn, StrayRead(c) PROVE Lasts'
  <2> DEFINE v == uploads[c]
             all == v.received + 1
             x == Grown(disk[PartPath(v)], all)
             d == [disk EXCEPT ![PartPath(v)] = x]
  <2>1. TypeOK /\ c \in DOMAIN uploads
        /\ (ProcessEnds(disk) \/ (all <= v.limit /\ ProcessEnds(d)))
    BY <1>5, LastsAtFirst, StrayReadEnds
  <2>2. /\ v \in Upload /\ HeldTo(v) /\ session # 0
        /\ v.row \in DOMAIN sessions[session].agreed
        /\ disk[PartPath(v)] = Received(session, v.row, v.received, TRUE)
    BY <2>1, LastsAtFirst
  <2>3. CASE ProcessEnds(disk)
    BY <1>1, <1>3, <2>3 DEF Lasting
  <2>4. CASE all <= v.limit /\ ProcessEnds(d)
    <3> DEFINE u == [v EXCEPT !.received = all]
    <3> HIDE DEF v
    <3>1. /\ u \in Upload /\ u.row = v.row /\ u.limit = v.limit /\ u.received = all
          /\ v.final \in FinalPath
      BY <2>2 DEF Upload
    <3> HIDE DEF u
    <3>2. HeldTo(u)
      BY <2>2, <2>4, <3>1 DEF HeldTo
    <3>3. x = Received(session, u.row, u.received, TRUE)
      BY <2>2, <3>1 DEF Grown, Received
    <3>4. Accounted(x)
      BY <2>1, <2>2, <3>1, <3>2, <3>3, WrittenIsAccounted
    <3> HIDE DEF x
    <3>5. PartPath(v) \in Path
      BY <3>1, PathsExist DEF PartPath
    <3>6. Within(d)
      BY <1>1, <3>4, <3>5 DEF Within, Lasting
    <3> HIDE DEF d
    <3>7. QED
      BY <1>3, <2>4, <3>6
  <2>5. QED
    BY <2>1, <2>3, <2>4
<1>6. QED
  BY <1>2, <1>4, <1>5 DEF Environment

-----------------------------------------------------------------------------
(* A step of the service keeps what lasts.                                 *)
LEMMA StepLasts ==
    ASSUME SharedInv, [SharedNext]_vars
    PROVE  Lasts'
<1>1. ASSUME UNCHANGED <<uploads, sessionVars, transfer, disk>>
      PROVE  Lasts'
  BY <1>1, LastsUntouched DEF SharedInv, sessionVars
<1>2. CASE UNCHANGED vars
  BY <1>1, <1>2 DEF vars, netVars
<1>3. ASSUME NEW c \in Conn, Network(c) PROVE Lasts'
  <2>1. CASE (\E a \in Address : Connect(c, a)) \/ AnsweredAtOnce(c) \/ RefusedAtHead(c)
             \/ TailBytes(c)
    BY <1>1, <2>1 DEF Connect, AnsweredAtOnce, RefusedAtHead, TailBytes, otherVars
  <2>2. CASE Disconnected(c)
    BY <2>2, DisconnectedLasts
  <2>3. CASE \E s \in 1..Len(sessions), id \in FileId :
                UploadAgain(c, s, id) \/ UploadUnwritable(c, s, id)
    BY <2>3, AnsweredLasts
  <2>4. CASE \E s \in 1..Len(sessions), id \in FileId : \E n \in Lengths :
                handleUploadHeaders(c, s, id, n)
    BY <2>4, HeadersLasts
  <2>5. CASE UploadBlock(c) \/ UploadEnd(c)
    BY <2>5, StreamLasts
  <2>6. CASE \E p \in Peer, offer \in Offers : handlePrepareUpload(c, p, offer)
    BY <2>6, PromptLasts
  <2>7. CASE \E s \in 0..Len(sessions) : handleCancel(c, s)
    BY <2>7, TeardownLasts
  <2>8. QED
    BY <1>3, <2>1, <2>2, <2>3, <2>4, <2>5, <2>6, <2>7 DEF Network, Traffic
<1>4. ASSUME PutAway PROVE Lasts'
  <2>1. transfer'.files = transfer.files
    BY <1>4 DEF PutAway, setState
  <2>2. QED
    BY <1>4, <2>1, LastsUntouched DEF PutAway, SharedInv, sessionVars
<1>5. CASE User
  BY <1>4, <1>5, PromptLasts, TeardownLasts DEF User, Decline
<1>6. CASE Timers
  <2>1. CASE onAcceptTimeout
    BY <1>4, <2>1 DEF onAcceptTimeout
  <2>2. CASE SessionQuiet
    BY <1>1, <2>2 DEF SessionQuiet, netVars
  <2>3. CASE onSessionIdle
    BY <2>3, TeardownLasts
  <2>4. ASSUME NEW c \in Conn, DrainQuiet(c) \/ IdleTimeout(c) PROVE Lasts'
    BY <1>1, <2>4, DisconnectedLasts DEF DrainQuiet, IdleTimeout, otherVars
  <2>5. QED
    BY <1>6, <2>1, <2>2, <2>3, <2>4 DEF Timers
<1>7. CASE Environment \/ \E c \in Conn : StrayRead(c)
  BY <1>7, EnvironmentLasts
<1>8. QED
  BY <1>2, <1>3, <1>5, <1>6, <1>7 DEF SharedNext, Next

(* Rows replaced between two steps, by any number of them that no token    *)
(* mistakes: an upload's row is one of the session's, whether or not there *)
(* is still such a row, and its ceiling was fixed when its head came in.   *)
LEMMA RowsReplaced ==
    ASSUME SharedInv, transfer' \in Transfer, known' \subseteq Peer, RowsAsAgreed',
           UNCHANGED <<netVars, sessionVars, timerVars, serverVars, disk, history, obsVars>>
    PROVE  SharedInv'
<1> USE DEF netVars, sessionVars, timerVars, serverVars, obsVars
<1>1. TypeOK /\ Lasts /\ Backed /\ UploadsBelong /\ SingleWriter /\ Current
  BY DEF SharedInv, Own
<1>2. TypeOK'
  BY <1>1 DEF TypeOK
<1>3. Backed' /\ SingleWriter'
  BY <1>1 DEF Backed, SingleWriter, PartPath
<1>4. Current'
  BY <1>1 DEF Current
<1>5. UploadsBelong'
  BY <1>1 DEF UploadsBelong, PartPath
<1>6. Fits(transfer)'
  BY DEF RowsAsAgreed, Fits
<1>7. Within(disk)' /\ \A c \in DOMAIN uploads' : HeldTo(uploads[c])'
  BY <1>1 DEF Lasts, Lasting, Within, Accounted, AgreedOf, HeldTo
<1>8. QED
  BY <1>2, <1>3, <1>4, <1>5, <1>6, <1>7 DEF SharedInv, Own, Lasts, Lasting

LEMMA SharedStarts ==
    ASSUME Init
    PROVE  SharedInv
<1>1. Own(FALSE)
  BY OwnStarts
<1>2. session = 0 /\ DOMAIN uploads = {} /\ \A p \in Path : disk[p].kind = "absent"
  BY DEF Init, NoUploads, Absent
<1>3. QED
  BY <1>1, <1>2 DEF SharedInv, Lasts, Lasting, Fits, Within

LEMMA SharedStep ==
    ASSUME SharedInv, [SharedNext]_vars
    PROVE  SharedInv'
<1>1. TokensLead
  BY DEF SharedInv, Lasts, Lasting, Fits, TokensLead
<1>2. Own(FALSE)'
  BY <1>1, OwnStep DEF SharedInv
<1>3. QED
  BY <1>2, StepLasts DEF SharedInv

LEMMA SharedAgreement == SharedInv => RowsAsAgreed /\ NeverMoreThanAgreed
  BY DEF SharedInv, Lasts, Lasting, Fits, Within, Accounted, RowsAsAgreed, NeverMoreThanAgreed,
         AgreedFor, AgreedOf

(* What the service does to the rows, told to whoever shares them.         *)

(* A step that leaves the session and the prompt, or ends both, with rows  *)
(* that declare what the rows of t do.                                     *)
Carried(t) ==
    /\ Declares(transfer'.files, t.files)
    /\ \/ session' = 0 /\ pending' = NoConn
       \/ UNCHANGED <<pending, session, sessions, tokens>>

(* A session is opened on the rows as they are then.                       *)
Opened ==
    /\ session' # 0
    /\ sessions'[session'].agreed = Agreed(transfer')
    /\ tokens' = {transfer'.files[r].id : r \in DOMAIN transfer'.files}

RowsKeptOrBegun ==
    \/ Carried(transfer)
    \/ Opened /\ pending # NoConn /\ Declares(transfer'.files, transfer.files)
    \/ /\ Available
       /\ \E offer \in Offers : Declares(transfer'.files, offer)
       /\ session' = 0 \/ Opened
    \/ \E d : ProcessEnds(d)

LEMMA ClosedDeclares ==
    ASSUME NEW t \in Transfer, NEW ups
    PROVE  Declares(CloseRows(t, ups).files, t.files)
<1> DEFINE fs == CloseRows(t, ups).files
           streaming == {ups[c].row : c \in DOMAIN ups}
           closed(r) == IF r \in streaming THEN "failed"
                        ELSE IF t.files[r].status \in {"waiting", "transferring"} THEN "skipped"
                        ELSE t.files[r].status
<1>1. fs = [r \in DOMAIN t.files |-> [t.files[r] EXCEPT !.status = closed(r)]]
  BY DEF CloseRows, Updated
<1> HIDE DEF fs, closed
<1>2. ASSUME NEW r \in DOMAIN t.files
      PROVE  fs[r].id = t.files[r].id /\ fs[r].size = t.files[r].size
             /\ fs[r].digest = t.files[r].digest
  <2>1. t.files[r] \in FileEntry
    BY RowsAreSeq DEF Transfer
  <2>2. fs[r] = [t.files[r] EXCEPT !.status = closed(r)]
    BY <1>1
  <2>3. \A e \in FileEntry : \A s :
           LET w == [e EXCEPT !.status = s]
           IN  w.id = e.id /\ w.size = e.size /\ w.digest = e.digest
    BY DEF FileEntry
  <2>4. QED
    BY <2>1, <2>2, <2>3
<1>3. QED
  BY <1>1, <1>2 DEF Declares, fs

LEMMA HandOverCarries ==
    ASSUME NEW k, NEW ups, NEW t \in Transfer, NEW d, NEW timer,
           \/ Continue(k, ups, t, d, timer)
           \/ \E cancelled \in BOOLEAN : finishSession(k, ups, t, d, cancelled)
           \/ FinishIfSettled(k, ups, t, d, timer)
    PROVE  Carried(t)
<1>1. CASE Continue(k, ups, t, d, timer)
  BY <1>1, DeclaresSame DEF Continue, Carried, sessionVars
<1>2. ASSUME NEW cancelled \in BOOLEAN, finishSession(k, ups, t, d, cancelled)
      PROVE  Carried(t)
  <2> DEFINE closed == CloseRows(t, ups)
  <2>1. closed \in Transfer /\ Declares(closed.files, t.files)
    BY CloseRowsType, ClosedDeclares
  <2>2. /\ session' = 0 /\ pending' = NoConn
        /\ \/ transfer' = setState(t, "cancelled")
           \/ transfer' = setState(closed, Outcome(closed, cancelled))
    BY <1>2 DEF finishSession
  <2> HIDE DEF closed
  <2>3. transfer'.files = t.files \/ transfer'.files = closed.files
    BY <2>2 DEF setState
  <2>4. QED
    BY <2>1, <2>2, <2>3, DeclaresSame DEF Carried
<1>3. QED
  BY <1>1, <1>2 DEF FinishIfSettled

LEMMA CarriedOn ==
    ASSUME NEW t, Declares(t.files, transfer.files), Carried(t)
    PROVE  RowsKeptOrBegun
  BY DeclaresSame DEF Carried, RowsKeptOrBegun

LEMMA UploadFinishedCarries ==
    ASSUME NEW c, NEW u \in Upload, NEW ups, NEW t \in Transfer, NEW d,
           NEW intact \in BOOLEAN,
           Declares(t.files, transfer.files), handleUploadFinished(c, u, ups, t, d, intact)
    PROVE  RowsKeptOrBegun
<1> DEFINE place == Place(d, u)
           tl == setFileLocalPath(t, u.row, place)
           td == setFileStatus(tl, u.row, "done")
           tf == setFileStatus(t, u.row, "failed")
<1>1. place \in Path
  BY PathsExist DEF Place, PartPath, Upload
<1>2. tf \in Transfer /\ Declares(tf.files, t.files)
  BY StatusType, RowsDeclare DEF FileStatus
<1>3. tl \in Transfer /\ Declares(tl.files, t.files) /\ DOMAIN tl.files = DOMAIN t.files
  BY <1>1, LocalPathType, RowsDeclare
<1>4. td \in Transfer /\ Declares(td.files, tl.files)
  <2> HIDE DEF tl
  <2>1. QED
    BY <1>3, StatusType, RowsDeclare DEF FileStatus
<1>5. \/ \E k, e : FinishIfSettled(k, ups, td, e, "running")
      \/ \E k, e : FinishIfSettled(k, ups, tf, e, "running")
  BY DEF handleUploadFinished
<1> HIDE DEF place, tl, td, tf
<1>6. Declares(td.files, transfer.files) /\ Declares(tf.files, transfer.files)
  BY <1>2, <1>3, <1>4, DeclaresSame
<1>7. QED
  BY <1>2, <1>4, <1>5, <1>6, HandOverCarries, CarriedOn

LEMMA UploadCarries ==
    ASSUME SharedInv, NEW c \in Conn,
           \/ UploadBlock(c) \/ UploadEnd(c) \/ Disconnected(c)
           \/ \E s, id : UploadAgain(c, s, id) \/ UploadUnwritable(c, s, id)
           \/ \E s, id : \E n \in Lengths : handleUploadHeaders(c, s, id, n)
    PROVE  RowsKeptOrBegun
<1>1. /\ transfer \in Transfer /\ Declares(transfer.files, transfer.files)
      /\ \A e \in DOMAIN uploads : uploads[e] \in Upload
  BY LastsAtFirst, DeclaresSame
<1>2. ASSUME NEW k, NEW ups, NEW d, NEW timer, Continue(k, ups, transfer, d, timer)
      PROVE  RowsKeptOrBegun
  BY <1>1, <1>2, HandOverCarries, CarriedOn
<1>3. ASSUME NEW row, NEW s \in FileStatus, NEW k, NEW ups, NEW d,
             NEW timer, NEW t, t = setFileStatus(transfer, row, s),
             Continue(k, ups, t, d, timer) \/ FinishIfSettled(k, ups, t, d, timer)
      PROVE  RowsKeptOrBegun
  <2>1. t \in Transfer /\ Declares(t.files, transfer.files)
    BY <1>1, <1>3, StatusType, RowsDeclare
  <2>2. QED
    BY <1>3, <2>1, HandOverCarries, CarriedOn
<1>4. CASE Disconnected(c)
  <2>1. CASE /\ pending' = NoConn
             /\ transfer' = IF session = 0 THEN setState(transfer, "idle") ELSE transfer
             /\ UNCHANGED <<uploads, sessionVars, idleTimer, disk, recordVars>>
    <3>1. transfer'.files = transfer.files
      BY <2>1 DEF setState
    <3>2. QED
      BY <1>1, <2>1, <3>1 DEF RowsKeptOrBegun, Carried, sessionVars, SharedInv, Own, Backed
  <2>2. CASE c \in DOMAIN uploads /\ \E k, ups, d :
                FinishIfSettled(k, ups, setFileStatus(transfer, uploads[c].row, "failed"), d,
                                idleTimer)
    BY <1>1, <1>3, <2>2 DEF FileStatus
  <2>3. QED
    BY <1>2, <1>4, <2>1, <2>2 DEF Disconnected
<1>5. ASSUME NEW s, NEW id, UploadAgain(c, s, id) PROVE RowsKeptOrBegun
  BY <1>1, <1>5 DEF UploadAgain, RowsKeptOrBegun, Carried, sessionVars
<1>6. ASSUME NEW s, NEW id, UploadUnwritable(c, s, id) PROVE RowsKeptOrBegun
  BY <1>3, <1>6 DEF UploadUnwritable, FileStatus
<1>7. ASSUME NEW s, NEW id, NEW n \in Lengths, handleUploadHeaders(c, s, id, n)
      PROVE  RowsKeptOrBegun
  <2> DEFINE row == indexOfFile(transfer, id)
             file == transfer.files[row]
             u == [row |-> row, final |-> reserveFilePath(file.name), length |-> n,
                   limit |-> file.size, received |-> 0]
             t == setFileStatus(transfer, row, "transferring")
  <2>1. row \in DOMAIN transfer.files /\ HasFreeName(file.name)
    BY <1>1, <1>7, FirstRow DEF handleUploadHeaders, Admitted
  <2>2. \/ \E k, ups, d : Continue(k, ups, t, d, "running")
        \/ \E d : \E intact \in BOOLEAN : handleUploadFinished(c, u, uploads, t, d, intact)
    BY <1>7 DEF handleUploadHeaders
  <2> HIDE DEF row
  <2>3. row \in Nat /\ file.name \in FileName /\ file.size \in 0..MaxSize
    <3>1. row \in Nat /\ file \in FileEntry
      BY <1>1, <2>1, RowsAreSeq DEF Transfer
    <3>2. QED
      BY <3>1 DEF FileEntry
  <2>4. reserveFilePath(file.name) \in FinalPath
    BY <2>1, <2>3, ReservedIsFree
  <2> HIDE DEF file
  <2>5. u \in Upload /\ u.row = row
    BY <2>3, <2>4, ReceiveAssumption DEF Upload
  <2>6. t \in Transfer /\ Declares(t.files, transfer.files) /\ DOMAIN t.files = DOMAIN transfer.files
    BY <1>1, <2>1, StatusType, RowsDeclare DEF FileStatus
  <2> HIDE DEF u, t
  <2>7. QED
    BY <2>1, <2>2, <2>5, <2>6, HandOverCarries, CarriedOn, UploadFinishedCarries
<1>8. CASE UploadEnd(c)
  <2>1. c \in DOMAIN uploads
    BY <1>8 DEF UploadEnd, Streaming
  <2>2. \E intact \in BOOLEAN : \E ups :
           handleUploadFinished(c, uploads[c], ups, transfer, disk, intact)
    BY <1>8 DEF UploadEnd
  <2>3. QED
    BY <1>1, <2>1, <2>2, UploadFinishedCarries
<1>9. CASE UploadBlock(c)
  <2> DEFINE v == uploads[c]
             u == [v EXCEPT !.received = @ + 1]
             t == setFileTransferred(transfer, u.row, u.received)
  <2>1. c \in DOMAIN uploads
    BY <1>9 DEF UploadBlock, Streaming
  <2>2. \/ \E k, ups, d : WithinCeiling(u) /\ Continue(k, ups, t, d, "running")
        \/ \E ups, d : \E intact \in BOOLEAN :
              WithinCeiling(u) /\ handleUploadFinished(c, u, ups, t, d, intact)
        \/ \E k : Continue(k, uploads, transfer, disk, idleTimer)
    BY <1>9 DEF UploadBlock
  <2>3. v \in Upload
    BY <1>1, <2>1
  <2> HIDE DEF v
  <2>4. u \in Upload /\ u.received \in Nat /\ u.limit \in 0..MaxSize
    BY <2>3 DEF Upload
  <2> HIDE DEF u
  <2>5. SUFFICES ASSUME WithinCeiling(u) PROVE RowsKeptOrBegun
    BY <1>2, <2>2
  <2>6. u.received \in 0..MaxSize
    BY <2>4, <2>5, TransferAssumption DEF WithinCeiling
  <2>7. t \in Transfer /\ Declares(t.files, transfer.files) /\ DOMAIN t.files = DOMAIN transfer.files
    <3>1. t \in Transfer /\ DOMAIN t.files = DOMAIN transfer.files
      BY <1>1, <2>6, TransferredType
    <3>2. Declares(t.files, transfer.files)
      BY <1>1, <2>6, RowsDeclare
    <3>3. QED
      BY <3>1, <3>2
  <2> HIDE DEF t
  <2>8. QED
    BY <1>2, <2>2, <2>3, <2>4, <2>7, HandOverCarries, CarriedOn, UploadFinishedCarries
<1>10. QED
  BY <1>4, <1>5, <1>6, <1>7, <1>8, <1>9

LEMMA PromptCarries ==
    ASSUME SharedInv,
           \/ Accept
           \/ \E c \in Conn, p \in Peer, offer \in Offers : handlePrepareUpload(c, p, offer)
    PROVE  RowsKeptOrBegun
<1>1. transfer \in Transfer /\ TypeOK
  BY LastsAtFirst
<1>2. ASSUME NEW c, NEW k, NEW t \in Transfer, accept(c, k, t)
      PROVE  /\ transfer'.files = t.files /\ pending' = NoConn
             /\ UNCHANGED <<session, sessions, tokens>> \/ Opened
  <2>1. transfer'.files = t.files /\ pending' = NoConn
    BY <1>2 DEF accept, OpenSession, setState
  <2>2. CASE OpenSession(k[c].address, t)
    <3> DEFINE new == [peer |-> peer', address |-> k[c].address, agreed |-> Agreed(t)]
    <3>1. /\ sessions' = Append(sessions, new) /\ session' = Len(sessions) + 1
          /\ tokens' = {t.files[r].id : r \in DOMAIN t.files}
      BY <2>2 DEF OpenSession
    <3>2. new.agreed = Agreed(t) /\ sessions \in Seq(Session)
      BY <1>1 DEF TypeOK
    <3> HIDE DEF new
    <3>3. sessions'[session'] = new /\ session' # 0
      BY <3>1, <3>2
    <3>4. Agreed(transfer') = Agreed(t)
      BY <2>1 DEF Agreed
    <3>5. QED
      BY <2>1, <3>1, <3>2, <3>3, <3>4 DEF Opened
  <2>3. QED
    BY <1>2, <2>1, <2>2 DEF accept
<1>3. CASE Accept
  <2>1. pending # NoConn /\ accept(pending, conns, transfer)
    BY <1>3 DEF Accept
  <2>2. session = 0
    BY <2>1 DEF SharedInv, Own, Backed
  <2>3. transfer'.files = transfer.files /\ pending' = NoConn
        /\ (UNCHANGED <<session, sessions, tokens>> \/ Opened)
    BY <1>1, <1>2, <2>1
  <2>4. Declares(transfer'.files, transfer.files)
    BY <2>3, DeclaresSame
  <2>5. QED
    BY <2>1, <2>2, <2>3, <2>4 DEF RowsKeptOrBegun, Carried
<1>4. ASSUME NEW c \in Conn, NEW p \in Peer, NEW offer \in Offers,
             handlePrepareUpload(c, p, offer)
      PROVE  RowsKeptOrBegun
  <2> DEFINE b == begin(transfer, offer)
             t == setState(b, "pending")
  <2>1. /\ Available
        /\ \/ \E k : accept(c, k, t)
           \/ transfer' = t /\ UNCHANGED <<session, sessions, tokens>>
    BY <1>4 DEF handlePrepareUpload
  <2>2. offer \in Seq(Descriptor)
    BY ReceiveAssumption
  <2>3. b \in Transfer /\ Declares(b.files, offer)
    BY <1>1, <2>2, BeginType, BeginDeclares
  <2> HIDE DEF b
  <2>4. t \in Transfer /\ t.files = b.files
    BY <2>3, SetStateType DEF TransferState
  <2> HIDE DEF t
  <2>5. transfer'.files = t.files /\ (UNCHANGED <<session, sessions, tokens>> \/ Opened)
    BY <1>2, <2>1, <2>4
  <2>6. QED
    BY <2>1, <2>3, <2>4, <2>5 DEF RowsKeptOrBegun, Available
<1>5. QED
  BY <1>3, <1>4

LEMMA TeardownCarries ==
    ASSUME SharedInv,
           \/ Cancel \/ onSessionIdle \/ ReceiveEnabledChanged \/ PortChanged
           \/ \E c \in Conn : \E s \in 0..Len(sessions) : handleCancel(c, s)
           \/ PutAway
    PROVE  RowsKeptOrBegun
<1>1. transfer \in Transfer /\ Declares(transfer.files, transfer.files)
  BY LastsAtFirst, DeclaresSame
<1>2. ASSUME NEW k, \/ \E cancelled \in BOOLEAN :
                           finishSession(k, uploads, transfer, disk, cancelled)
                    \/ Continue(k, uploads, transfer, disk, idleTimer)
      PROVE  RowsKeptOrBegun
  BY <1>1, <1>2, HandOverCarries, CarriedOn
<1>3. CASE Cancel \/ onSessionIdle \/ ReceiveEnabledChanged \/ PortChanged
  BY <1>2, <1>3 DEF Cancel, onSessionIdle, ReceiveEnabledChanged, PortChanged, stopListening
<1>4. ASSUME pending # NoConn, pending' = NoConn, NEW s, transfer' = setState(transfer, s),
             UNCHANGED sessionVars
      PROVE  RowsKeptOrBegun
  <2>1. transfer'.files = transfer.files /\ session' = 0
    BY <1>4 DEF setState, sessionVars, SharedInv, Own, Backed
  <2>2. QED
    BY <1>1, <1>4, <2>1 DEF RowsKeptOrBegun, Carried
<1>5. ASSUME NEW c \in Conn, NEW s \in 0..Len(sessions), handleCancel(c, s)
      PROVE  RowsKeptOrBegun
  BY <1>2, <1>4, <1>5 DEF handleCancel
<1>6. CASE PutAway
  <2>1. transfer'.files = transfer.files
    BY <1>6 DEF PutAway, setState
  <2>2. CASE pending # NoConn
    BY <1>4, <1>6, <2>2 DEF PutAway
  <2>3. CASE pending = NoConn
    BY <1>1, <1>6, <2>1, <2>3 DEF PutAway, RowsKeptOrBegun, Carried, sessionVars
  <2>4. QED
    BY <2>2, <2>3
<1>7. QED
  BY <1>3, <1>5, <1>6

LEMMA StepCarries ==
    ASSUME SharedInv, SharedNext
    PROVE  RowsKeptOrBegun
<1>1. ASSUME UNCHANGED <<pending, sessionVars, transfer>>
      PROVE  RowsKeptOrBegun
  BY <1>1, DeclaresSame DEF RowsKeptOrBegun, Carried, sessionVars
<1>2. ASSUME NEW c \in Conn, Network(c) PROVE RowsKeptOrBegun
  <2>1. CASE (\E a \in Address : Connect(c, a)) \/ AnsweredAtOnce(c) \/ RefusedAtHead(c)
             \/ TailBytes(c)
    BY <1>1, <2>1 DEF Connect, AnsweredAtOnce, RefusedAtHead, TailBytes, otherVars
  <2>2. CASE \/ UploadBlock(c) \/ UploadEnd(c) \/ Disconnected(c)
             \/ \E s, id : UploadAgain(c, s, id) \/ UploadUnwritable(c, s, id)
             \/ \E s, id : \E n \in Lengths : handleUploadHeaders(c, s, id, n)
    BY <2>2, UploadCarries
  <2>3. CASE \E p \in Peer, offer \in Offers : handlePrepareUpload(c, p, offer)
    BY <2>3, PromptCarries
  <2>4. CASE \E s \in 0..Len(sessions) : handleCancel(c, s)
    BY <2>4, TeardownCarries
  <2>5. QED
    BY <1>2, <2>1, <2>2, <2>3, <2>4 DEF Network, Traffic
<1>3. CASE User
  BY <1>3, PromptCarries, TeardownCarries DEF User, Decline
<1>4. CASE Timers
  <2>1. CASE SessionQuiet
    BY <1>1, <2>1 DEF SessionQuiet, netVars
  <2>2. ASSUME NEW c \in Conn, DrainQuiet(c) \/ IdleTimeout(c) PROVE RowsKeptOrBegun
    BY <1>1, <2>2, UploadCarries DEF DrainQuiet, IdleTimeout, otherVars
  <2>3. QED
    BY <1>4, <2>1, <2>2, TeardownCarries DEF Timers, onAcceptTimeout
<1>5. CASE Environment \/ \E c \in Conn : StrayRead(c)
  <2>1. CASE \E p \in Path : ForeignFile(p)
    BY <1>1, <2>1 DEF ForeignFile, netVars
  <2>2. CASE Restart \/ \E c \in Conn : StrayRead(c)
    BY <2>2 DEF Restart, StrayRead, RowsKeptOrBegun
  <2>3. QED
    BY <1>5, <2>1, <2>2 DEF Environment
<1>6. QED
  BY <1>2, <1>3, <1>4, <1>5 DEF SharedNext, Next

(* The rows of a prompt or session come from one of the lists, and so do   *)
(* the tokens and what was agreed on.                                      *)
FromLists(lists) ==
    /\ session # 0 \/ pending # NoConn => \E o \in lists : Declares(transfer.files, o)
    /\ session # 0 => \E o \in lists :
          LET agreed == sessions[session].agreed
          IN  /\ DOMAIN agreed = DOMAIN o
              /\ \A r \in DOMAIN o : agreed[r].size = o[r].size /\ agreed[r].digest = o[r].digest
              /\ \A x \in tokens : \E r \in DOMAIN o : o[r].id = x

LEMMA StepListed ==
    ASSUME NEW lists, Offers \subseteq lists, FromLists(lists), RowsKeptOrBegun
    PROVE  FromLists(lists)'
<1>1. CASE Carried(transfer)
  BY <1>1, DeclaresSame DEF Carried, FromLists
<1>2. ASSUME NEW o \in lists, Declares(transfer'.files, o), session' = 0 \/ Opened
      PROVE  FromLists(lists)'
  <2>1. CASE session' = 0
    BY <1>2, <2>1 DEF FromLists
  <2>2. CASE Opened
    <3> DEFINE a == sessions'[session'].agreed
    <3>1. a = [r \in DOMAIN transfer'.files |->
                  [size |-> transfer'.files[r].size, digest |-> transfer'.files[r].digest]]
      BY <2>2 DEF Opened, Agreed
    <3> HIDE DEF a
    <3>2. /\ DOMAIN a = DOMAIN o
          /\ \A r \in DOMAIN o : a[r].size = o[r].size /\ a[r].digest = o[r].digest
      BY <1>2, <3>1 DEF Declares
    <3>3. \A x \in tokens' : \E r \in DOMAIN o : o[r].id = x
      BY <1>2, <2>2 DEF Opened, Declares
    <3>4. QED
      BY <1>2, <3>2, <3>3 DEF FromLists, a
  <2>3. QED
    BY <1>2, <2>1, <2>2
<1>3. CASE Opened /\ pending # NoConn /\ Declares(transfer'.files, transfer.files)
  BY <1>2, <1>3, DeclaresSame DEF FromLists
<1>4. CASE \E d : ProcessEnds(d)
  BY <1>4 DEF ProcessEnds, FromLists
<1>5. QED
  BY <1>1, <1>2, <1>3, <1>4 DEF RowsKeptOrBegun

(* A step of the sender replaces no row by one that a token mistakes.      *)
LEMMA SenderKeeps ==
    ASSUME SharedInv, NEW ours, Apart(ours), FromLists(Offers \cup ours), SenderStep(ours)
    PROVE  SharedInv' /\ FromLists(Offers \cup ours)'
<1> DEFINE lists == Offers \cup ours
<1>1. /\ UNCHANGED <<pending, session, sessions, tokens>> /\ transfer' \in Transfer
      /\ \/ Declares(transfer'.files, transfer.files)
         \/ \E f \in ours : Declares(transfer'.files, f)
  BY DEF SenderStep, netVars, sessionVars
<1>2. FromLists(lists)'
  <2>1. session # 0 \/ pending # NoConn => \E o \in lists : Declares(transfer'.files, o)
    BY <1>1, DeclaresSame DEF FromLists
  <2>2. QED
    BY <1>1, <2>1 DEF FromLists
<1>3. RowsAsAgreed'
  <2> DEFINE agreed == sessions[session].agreed
  <2> SUFFICES ASSUME session # 0, NEW r \in DOMAIN transfer'.files,
                      transfer'.files[r].id \in tokens
               PROVE  r \in DOMAIN agreed /\ Agreed(transfer')[r] = agreed[r]
    BY <1>1 DEF RowsAsAgreed
  <2>1. agreed \in Seq([size : 0..MaxSize, digest : BOOLEAN])
    <3>1. session \in 1..Len(sessions) /\ sessions \in Seq(Session)
      BY DEF SharedInv, Own, TypeOK
    <3>2. sessions[session] \in Session
      BY <3>1
    <3>3. QED
      BY <3>2 DEF Session
  <2>2. CASE Declares(transfer'.files, transfer.files)
    <3>1. DOMAIN transfer'.files = DOMAIN transfer.files /\ Agreed(transfer') = Agreed(transfer)
      BY <2>2 DEF Declares, Agreed
    <3>2. QED
      BY <2>2, <3>1 DEF Declares, SharedInv, Lasts, Lasting, Fits
  <2>3. ASSUME NEW f \in ours, Declares(transfer'.files, f)
        PROVE  r \in DOMAIN agreed /\ Agreed(transfer')[r] = agreed[r]
    <3>1. PICK o \in lists :
             /\ DOMAIN agreed = DOMAIN o
             /\ \A i \in DOMAIN o : agreed[i].size = o[i].size /\ agreed[i].digest = o[i].digest
             /\ \A x \in tokens : \E i \in DOMAIN o : o[i].id = x
      BY DEF FromLists
    <3> HIDE DEF agreed
    <3>2. PICK i \in DOMAIN o : o[i].id = transfer'.files[r].id
      BY <3>1
    <3>3. r \in DOMAIN f /\ f[r].id = o[i].id
      BY <2>3, <3>2 DEF Declares
    <3>4. i = r /\ o[r].size = f[r].size /\ o[r].digest = f[r].digest
      BY <3>3 DEF Apart
    <3>5. /\ r \in DOMAIN agreed /\ agreed[r].size = transfer'.files[r].size
          /\ agreed[r].digest = transfer'.files[r].digest
      BY <2>3, <3>1, <3>3, <3>4 DEF Declares
    <3>6. agreed[r] \in [size : 0..MaxSize, digest : BOOLEAN]
      BY <2>1, <3>5, RowsAreSeq
    <3>7. Agreed(transfer')[r] =
              [size |-> transfer'.files[r].size, digest |-> transfer'.files[r].digest]
      BY DEF Agreed
    <3>8. QED
      BY <3>5, <3>6, <3>7
  <2>4. QED
    BY <1>1, <2>2, <2>3
<1>4. SharedInv'
  BY <1>3, RowsReplaced DEF SenderStep
<1>5. QED
  BY <1>2, <1>4

(* What the service keeps with SendService at work in the same rows and    *)
(* the same table of known devices, whatever the length of its lists: the  *)
(* invariant behind the next three theorems.                               *)
THEOREM SharedInvariance ==
    ASSUME NEW CONSTANT ours, Apart(ours)
    PROVE  SharedSpec(ours) => [](SharedInv /\ FromLists(Offers \cup ours))
<1> DEFINE Inv == SharedInv /\ FromLists(Offers \cup ours)
<1>1. Init => Inv
  <2> SUFFICES ASSUME Init PROVE Inv
    OBVIOUS
  <2>1. SharedInv
    BY SharedStarts
  <2>2. FromLists(Offers \cup ours)
    BY DEF Init, FromLists
  <2>3. QED
    BY <2>1, <2>2
<1>2. Inv /\ [SharedNext \/ SenderStep(ours)]_vars => Inv'
  <2> SUFFICES ASSUME Inv, [SharedNext \/ SenderStep(ours)]_vars PROVE Inv'
    OBVIOUS
  <2>1. CASE SharedNext
    BY <2>1, SharedStep, StepCarries, StepListed
  <2>2. CASE SenderStep(ours)
    BY <2>2, SenderKeeps
  <2>3. CASE UNCHANGED vars
    <3>1. SharedInv'
      BY <2>3, SharedStep
    <3>2. FromLists(Offers \cup ours)'
      BY <2>3 DEF vars, netVars, sessionVars, FromLists
    <3>3. QED
      BY <3>1, <3>2
  <2>4. QED
    BY <2>1, <2>2, <2>3
<1>3. QED
  BY <1>1, <1>2, PTL DEF SharedSpec

(* No path ever holds more than the person agreed to, and a row a token    *)
(* leads to is the row agreed to, although SendService may begin, mark or  *)
(* end a transfer of its own in the same rows between the steps of a       *)
(* session, with more files or fewer, and although an upload whose row is  *)
(* gone may end the process.                                               *)
THEOREM SharedWithinAgreement ==
    ASSUME NEW CONSTANT ours, Apart(ours)
    PROVE  SharedSpec(ours) => [](RowsAsAgreed /\ NeverMoreThanAgreed)
<1>1. SharedInv => RowsAsAgreed /\ NeverMoreThanAgreed
  BY SharedAgreement
<1>2. QED
  BY <1>1, SharedInvariance, PTL

(* The upload table points at live connections of the accepted sender, at  *)
(* rows of what was agreed on and at part files with what was received,    *)
(* and no two uploads write one file, also when SendService has put other  *)
(* rows, or none, where theirs were.                                       *)
THEOREM SharedUploadsSound ==
    ASSUME NEW CONSTANT ours, Apart(ours)
    PROVE  SharedSpec(ours) => [](UploadsBelong /\ SingleWriter)
<1>1. SharedInv => UploadsBelong /\ SingleWriter
  BY DEF SharedInv, Own
<1>2. QED
  BY <1>1, SharedInvariance, PTL

(* Only part files of open uploads and the probe's name are ever written   *)
(* or removed, also when SendService works in the same transfer.           *)
THEOREM SharedFilesStay ==
    ASSUME NEW CONSTANT ours, Apart(ours)
    PROVE  SharedSpec(ours) => SettledFilesStay
<1> DEFINE A == \A p \in Path \ {ProbePath} :
                   disk[p].kind # "absent" /\ p \notin OpenParts => disk'[p] = disk[p]
<1>1. SharedInv /\ [SharedNext \/ SenderStep(ours)]_vars => [A]_vars
  <2> SUFFICES ASSUME SharedInv, SharedNext \/ SenderStep(ours) PROVE A
    OBVIOUS
  <2>1. CASE SharedNext
    <3>1. Stays(disk')
      BY <2>1, StepStays DEF SharedInv, Own
    <3>2. QED
      BY <3>1 DEF Stays, Safe, OpenParts
  <2>2. CASE SenderStep(ours)
    BY <2>2 DEF SenderStep
  <2>3. QED
    BY <2>1, <2>2
<1>2. QED
  BY <1>1, SharedInvariance, PTL DEF SharedSpec, SettledFilesStay

(* What SendService may count on while a send of its own shares the rows:  *)
(* a step of the receiver changes no id, size or digest of them, unless it *)
(* lists the files of a request, which it does only without a prompt or a  *)
(* session, or the process starts anew.                                    *)
THEOREM ReceiverKeepsRows ==
    ASSUME NEW CONSTANT ours, Apart(ours)
    PROVE  SharedSpec(ours) => [][SharedNext => RowsKeptOrBegun]_vars
<1>1. SharedInv /\ [SharedNext \/ SenderStep(ours)]_vars => [SharedNext => RowsKeptOrBegun]_vars
  BY StepCarries
<1>2. QED
  BY <1>1, SharedInvariance, PTL DEF SharedSpec

=============================================================================
