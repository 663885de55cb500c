-------------------------------- MODULE App --------------------------------
(***************************************************************************)
(* The two halves of the application together, as main() wires them        *)
(* (harbour-localsend.cpp): ReceiveService and SendService share one       *)
(* TransferModel and one KnownDevices.  Each looks only at its own busy    *)
(* state, so either may replace the rows the other is working on; what     *)
(* stands between the user and the services is the pages' own checks.      *)
(***************************************************************************)
EXTENDS Integers, Sequences

CONSTANTS FileId, FileName, MaxSize, Path, NoPath,
          Address, Conn, NoConn, Peer, NoPeer, Offers, MaxFilesPerSession,
          Lengths, Chunked, Candidates, PartOf, ProbePath, QuickSaveModes,
          MaxSessions, MaxForeign, Selections, SourceOf, MaxSends

VARIABLES
    transfer, known,              \* shared
    direction,                    \* m_direction of the transfer
    confirming,                   \* the name-conflict dialog is up, for a device
    conns, pending, peer, session, sessions, tokens, uploads, acceptTimer,
    idleTimer, listening, receiveEnabled, disk, history, acked, boots,
    sBusy, sPeer, sSession, sTokens, sReply, sPinDialog,
    sCurrentRow, sCurrentFile, sHistory, sends, posted, answered

receiveVars == <<conns, pending, peer, session, sessions, tokens, uploads, acceptTimer,
                 idleTimer, listening, receiveEnabled, disk, history, acked, boots>>
sendVars == <<sBusy, sPeer, sSession, sReply, sPinDialog,
              sCurrentRow, sCurrentFile, sHistory, sends, posted, answered>>
vars == <<transfer, known, direction, confirming, receiveVars, sendVars, sTokens>>

(* The process ends here only when it reads past the rows: ReceiveService  *)
(* by itself is run with ends of any kind.                                 *)
R == INSTANCE ReceiveService WITH MaxRestarts <- 0
S == INSTANCE SendService WITH
        Receiver <- Peer, NoReceiver <- NoPeer, Blocked <- {},
        busy <- sBusy, peer <- sPeer, session <- sSession, tokens <- sTokens,
        reply <- sReply, pinDialog <- sPinDialog,
        currentRow <- sCurrentRow, currentFile <- sCurrentFile, history <- sHistory

(* The ids in a list of ours are random, and nobody else's.                *)
ASSUME AppAssumption ==
    \A o \in Offers, f \in Selections :
        \A i \in DOMAIN o, j \in DOMAIN f : o[i].id # f[j].id

Init == R!Init /\ S!Init /\ direction = "receive" /\ confirming = NoPeer

-----------------------------------------------------------------------------
Active == transfer.state \in {"active", "pending", "requesting"}

ToReceiver == UNCHANGED <<sendVars, sTokens, direction, confirming>>
ToSender == UNCHANGED receiveVars

(* From the network and the clock.  A request's begin() turns direction,   *)
(* and replaces the rows that our own tokens are fields of.                *)
Request(c) ==
    /\ \E p \in Peer, offer \in Offers : R!handlePrepareUpload(c, p, offer)
    /\ direction' = "receive" /\ sTokens' = {}
    /\ UNCHANGED <<sendVars, confirming>>

Incoming ==
    \/ \E c \in Conn : Request(c)
    \/ /\ (\E c \in Conn : R!Traffic(c)) \/ R!Timers \/ (\E p \in Path : R!ForeignFile(p))
       /\ ToReceiver

(* An upload ends whose row a shorter list of ours has taken away, and     *)
(* reading it ends the process, a send under way with it.                  *)
Crash ==
    /\ \E c \in Conn : R!StrayRead(c)
    /\ sBusy' = FALSE /\ sPeer' = NoPeer /\ sSession' = FALSE /\ sTokens' = {}
    /\ sReply' = "none" /\ sPinDialog' = FALSE
    /\ sCurrentRow' = 0 /\ sCurrentFile' = FALSE /\ posted' = <<>>
    /\ direction' = "receive" /\ confirming' = NoPeer
    /\ UNCHANGED <<sHistory, sends, answered>>

Outgoing ==
    /\ S!Network
    /\ ToSender /\ UNCHANGED <<direction, confirming>>

(* The prompt, and the settings page.                                      *)
Decide ==
    /\ R!Accept \/ R!Decline \/ R!ReceiveEnabledChanged \/ R!PortChanged
    /\ ToReceiver

EnterPin ==
    /\ S!submitPin
    /\ ToSender /\ UNCHANGED <<direction, confirming>>

(* dispatchSend(): the sender begins its transfer, unless it is busy.      *)
dispatchSend(p) ==
    /\ \/ /\ \E files \in Selections : S!sendFiles(p, files)
          /\ direction' = "send"
       \/ sBusy /\ UNCHANGED <<transfer, known, direction, sendVars, sTokens>>
    /\ ToSender

(* startSend() on the main page: nothing while a transfer is shown; with a *)
(* name that conflicts, a dialog asks first, and looks at nothing again.   *)
startSend(p) ==
    /\ ~Active /\ confirming = NoPeer
    /\ \/ dispatchSend(p) /\ UNCHANGED confirming
       \/ /\ confirming' = p
          /\ UNCHANGED <<transfer, known, direction, receiveVars, sendVars, sTokens>>

AnswerConflict ==
    /\ confirming # NoPeer /\ confirming' = NoPeer
    /\ \/ dispatchSend(confirming)
       \/ UNCHANGED <<transfer, known, direction, receiveVars, sendVars, sTokens>>

(* The transfer page's button and the cover's: to whoever began last.      *)
Stop ==
    \/ /\ direction = "send" /\ S!cancel
       /\ ToSender /\ UNCHANGED <<direction, confirming>>
    \/ /\ direction = "receive" /\ R!Cancel
       /\ ToReceiver

Next == \/ Incoming \/ Outgoing \/ Decide \/ EnterPin \/ AnswerConflict \/ Stop
        \/ Crash
        \/ \E p \in Peer : startSend(p)

Spec == Init /\ [][Next]_vars

(* Time passes for the timers, as in ReceiveService: those that a peer can *)
(* put off for ever are not relied on.  A request of ours finishes.        *)
ByReceiver(A) == A /\ ToReceiver
BySender(A) == A /\ ToSender /\ UNCHANGED <<direction, confirming>>
FairSpec ==
    /\ Spec
    /\ WF_vars(ByReceiver(R!onAcceptTimeout))
    /\ WF_vars(ByReceiver(R!SessionQuiet))
    /\ WF_vars(ByReceiver(R!onSessionIdle))
    /\ \A c \in Conn : /\ WF_vars(ByReceiver(conns[c].sock = "closing" /\ R!Disconnected(c)))
                       /\ WF_vars(ByReceiver(R!DrainQuiet(c)))
                       /\ WF_vars(ByReceiver(conns[c].state # "body" /\ R!IdleTimeout(c)))
    /\ WF_vars(BySender(S!onPrepareFinished))
    /\ WF_vars(BySender(S!UploadAnswered \/ S!UploadRefused))

-----------------------------------------------------------------------------
(* Correctness, with the two services in each other's way.                 *)

(* No path ever holds more bytes than the person agreed to, even when a    *)
(* send replaces the row of an upload that is coming in: the ceiling is    *)
(* the one that was set when the upload began, and no token of the session *)
(* leads to a row the person did not agree to.                             *)
NeverMoreThanAgreed == R!RowsAsAgreed /\ R!NeverMoreThanAgreed

(* A prompt goes away, whatever the sender does to the transfer it shows.  *)
PromptEnds == R!PromptEnds

(* A receive session ends unless its sender starts uploads for ever, even  *)
(* when its rows are no longer there to be settled.                        *)
SessionEnds == R!SessionEnds

(* A send ends or waits for a PIN, even when its rows have been replaced.  *)
SendEnds == S!SendEnds

(* Whatever the two do to each other, a connection whose head is not in,   *)
(* or that has been answered, is held for ever only by a peer that sends   *)
(* for ever.                                                               *)
OnlySendingHolds == R!OnlySendingHolds

(* sendservice.cpp: "the pairing is recorded once files have actually      *)
(* moved".  Every device remembered answered one of our uploads, or had    *)
(* one of its own answered.                                                *)
PairingStaysEarned ==
    \A p \in known : \/ \E a \in answered : a[2] = p
                    \/ \E a \in acked : sessions[a[1]].peer = p

=============================================================================
