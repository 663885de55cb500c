------------------------------- MODULE Inbox -------------------------------
(***************************************************************************)
(* What the receiving side promises, without connections, timers, tokens   *)
(* or files on disk: one request at a time is put to the user; files are   *)
(* taken only in a session that was granted, only while it lasts, and      *)
(* a file once taken stays taken.                                          *)
(***************************************************************************)
EXTENDS Naturals

CONSTANTS Row,             \* positions in a sender's file list
          MayGrantUnasked  \* the user lets requests through without asking

VARIABLES phase,      \* what the user sees: "idle", "asking" or "receiving"
          granted,    \* number of sessions granted so far
          delivered   \* <<session, row>> of every file taken

vars == <<phase, granted, delivered>>

Init == phase = "idle" /\ granted = 0 /\ delivered = {}

Ask == /\ phase = "idle" /\ phase' = "asking"
       /\ UNCHANGED <<granted, delivered>>

(* Declined, timed out, withdrawn by the sender, or it could not be served. *)
Withdraw == /\ phase = "asking" /\ phase' = "idle"
            /\ UNCHANGED <<granted, delivered>>

Grant == /\ phase = "asking" \/ (phase = "idle" /\ MayGrantUnasked)
         /\ phase' = "receiving" /\ granted' = granted + 1
         /\ UNCHANGED delivered

(* A file is taken; the last one may end the session.                      *)
Deliver(r) == /\ phase = "receiving" /\ phase' \in {"receiving", "idle"}
              /\ delivered' = delivered \cup {<<granted, r>>}
              /\ UNCHANGED granted

End == /\ phase = "receiving" /\ phase' = "idle"
       /\ UNCHANGED <<granted, delivered>>

Next == Ask \/ Withdraw \/ Grant \/ (\E r \in Row : Deliver(r)) \/ End

Spec == Init /\ [][Next]_vars

=============================================================================
