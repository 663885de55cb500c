--------------------------- MODULE HttpConnection ---------------------------
(***************************************************************************)
(* One HttpConnection object (httpserver.cpp): socket, request state and   *)
(* idle timer.  A connection answers one request and closes.  Operators    *)
(* take the old record to the new one; the modules that own connections    *)
(* use them in their actions.                                              *)
(***************************************************************************)
EXTENDS Integers

CONSTANT Address   \* peer addresses

ASSUME AddressAssumption == Address # {}

(* sock: "free" is a slot without a connection, "closing" a socket after   *)
(* disconnectFromHost() whose output still drains.                         *)
(* complete: m_bodyComplete.  timer: m_idleTimer, by the interval it runs; *)
(* "spent" is a drain interval that has passed since the last read.        *)
Connection == [sock : {"free", "open", "closing"},
               state : {"headers", "body", "responded"},
               complete : BOOLEAN,
               timer : {"off", "idle", "drain", "spent"},
               address : Address]

NoConnection == [sock |-> "free", state |-> "headers", complete |-> FALSE,
                 timer |-> "off", address |-> CHOOSE a \in Address : TRUE]

NewConnection(a) == [sock |-> "open", state |-> "headers", complete |-> FALSE,
                     timer |-> "idle", address |-> a]

(* respond(): once; a complete request is hung up on, an incomplete one is *)
(* drained on the short deadline.                                          *)
RespondUndrained(k) ==   \* a slip: nothing times the rest of a refused request
    IF k.state = "responded" THEN k
    ELSE [k EXCEPT !.state = "responded",
                   !.sock = IF k.complete THEN "closing" ELSE @,
                   !.timer = "off"]
respond(k) ==
    IF k.state = "responded" THEN k
    ELSE [k EXCEPT !.state = "responded",
                   !.sock = IF k.complete THEN "closing" ELSE @,
                   !.timer = IF k.complete THEN "off" ELSE "drain"]

(* The head was parsed and a handler let the body in.                      *)
headersReady(k) == [k EXCEPT !.state = "body"]

(* finishBody(): the request is complete and no longer timed.              *)
finishBody(k) == [k EXCEPT !.state = "body", !.complete = TRUE, !.timer = "off"]

(* onReadyRead() on an answered or a complete request: the bytes go, the   *)
(* idle timer restarts with the interval it last had.                      *)
discardTail(k) == [k EXCEPT !.timer = IF @ \in {"drain", "spent"} THEN "drain" ELSE "idle"]

(* DrainTimeoutMs go by without a read.                                    *)
Spend(k) == [k EXCEPT !.timer = "spent"]

(* The request is in and has no answer yet.                                *)
Parked(k) == k.sock = "open" /\ k.complete /\ k.state = "body"

=============================================================================
