------------------------------ MODULE HttpBody ------------------------------
(***************************************************************************)
(* How HttpConnection (httpserver.cpp) reads a request off its socket:     *)
(* head, then a body of a declared length or in chunks, from reads that    *)
(* may end at any byte.  Bytes are symbols.  The stream a peer sends comes *)
(* with what it means, so that what is decoded can be compared to it.      *)
(***************************************************************************)
EXTENDS Integers, Sequences, SequencesExt

CONSTANTS Symbol,            \* bytes
          Stream,            \* what peers send, and what it means
          MaxHeadSize,       \* bytes a head, a size line or all trailers may take
          MaxBufferedBody    \* bytes of a body kept in memory

(* A stream: its bytes, how its head frames the body, and the ceiling the  *)
(* handler sets on a body it takes as it comes.                            *)
ASSUME HttpAssumption ==
    /\ MaxHeadSize \in Nat \ {0} /\ MaxBufferedBody \in Nat
    /\ \A s \in Stream : /\ s.bytes \in Seq(Symbol) /\ s.length \in Nat
                         /\ s.framing \in {"length", "chunked", "invalid", "preflight"}
                         /\ s.sink \in BOOLEAN
                         /\ s.sink => s.limit \in Nat

CR == "CR"
LF == "LF"
CRLF == <<CR, LF>>
Digit == [s \in {"0", "1", "2", "3"} |->
             CASE s = "0" -> 0 [] s = "1" -> 1 [] s = "2" -> 2 [] s = "3" -> 3]

VARIABLES
    sent,   \* the stream of this connection
    pos,    \* bytes of it read so far
    conn    \* the HttpConnection

vars == <<sent, pos, conn>>

(* m_state, m_buffer, m_bodyComplete; m_chunkState, m_chunkRemaining,      *)
(* m_trailerBytes, m_contentLength; what went to m_body or the sink; the   *)
(* status of a refusal (0: none), how often requestReady() was emitted.    *)
NewConnection == [state |-> "headers", buffer |-> <<>>, complete |-> FALSE,
                  chunk |-> "size", remaining |-> 0, trailer |-> 0, length |-> 0,
                  body |-> <<>>, status |-> 0, asks |-> 0]

Init == sent \in Stream /\ pos = 0 /\ conn = NewConnection

-----------------------------------------------------------------------------
(* The parts of onReadyRead(), each from one connection record to another. *)

(* indexOf(): how many bytes come before the pattern; -1 without one.      *)
Starts(b, pattern) == {i \in 0..(Len(b) - Len(pattern)) :
                          SubSeq(b, i + 1, i + Len(pattern)) = pattern}
indexOf(b, pattern) == IF Starts(b, pattern) = {} THEN -1
                       ELSE CHOOSE i \in Starts(b, pattern) :
                                \A j \in Starts(b, pattern) : i <= j
Left(b, n) == SubSeq(b, 1, n)
Without(b, n) == SubSeq(b, n + 1, Len(b))
Least(m, n) == IF m < n THEN m ELSE n

fail(k, status) == [k EXCEPT !.state = "responded", !.status = status]

(* The ceiling: the size agreed on for a sink, else what memory is given.  *)
Ceiling == IF sent.sink THEN sent.limit ELSE MaxBufferedBody
PerBlock(k, data) == Len(data) <= Ceiling   \* a slip: the total is not checked
WithinCeiling(k, data) == Len(k.body) + Len(data) <= Ceiling
deliver(k, data) == IF WithinCeiling(k, data) THEN [k EXCEPT !.body = @ \o data]
                    ELSE fail(k, 413)

finishBody(k) == IF k.complete THEN k
                 ELSE [k EXCEPT !.complete = TRUE, !.buffer = <<>>, !.asks = @ + 1]

(* A size line: hex digits up to an extension; anything else is no size.   *)
SizeDigits(line) == IF indexOf(line, <<";">>) >= 0 THEN Left(line, indexOf(line, <<";">>))
                    ELSE line
IsSize(digits) == digits # <<>> /\ \A i \in DOMAIN digits : digits[i] \in DOMAIN Digit
SizeOf(digits) ==
    LET value[n \in 0..Len(digits)] ==
            IF n = 0 THEN 0 ELSE 16 * value[n - 1] + Digit[digits[n]]
    IN  value[Len(digits)]

ChunkSize(k) ==
    LET eol == indexOf(k.buffer, CRLF)
        digits == SizeDigits(Left(k.buffer, eol))
    IN  IF eol < 0
        THEN IF Len(k.buffer) > MaxHeadSize THEN fail(k, 400) ELSE k
        ELSE IF ~IsSize(digits) THEN fail([k EXCEPT !.buffer = Without(@, eol + 2)], 400)
        ELSE [k EXCEPT !.buffer = Without(@, eol + 2),
                       !.remaining = SizeOf(digits),
                       !.chunk = IF SizeOf(digits) = 0 THEN "trailer" ELSE "data"]

(* The slip: a block that does not end the chunk is taken to end it.       *)
TakenWhole(k, take) == "crlf"
ChunkAfter(k, take) == IF k.remaining = take THEN "crlf" ELSE "data"
ChunkData(k) ==
    LET take == Least(k.remaining, Len(k.buffer))
    IN  IF k.buffer = <<>> THEN k
        ELSE deliver([k EXCEPT !.buffer = Without(@, take),
                               !.remaining = @ - take,
                               !.chunk = ChunkAfter(k, take)],
                     Left(k.buffer, take))

(* Any two bytes end a chunk.                                              *)
CrlfAtOnce(k) == [k EXCEPT !.buffer = Without(@, 2), !.chunk = "size"]   \* a slip
ChunkCrlf(k) == IF Len(k.buffer) < 2 THEN k
                ELSE [k EXCEPT !.buffer = Without(@, 2), !.chunk = "size"]

ChunkTrailer(k) ==
    LET eol == indexOf(k.buffer, CRLF)
        counted == [k EXCEPT !.trailer = @ + eol + 2]
        taken == [counted EXCEPT !.buffer = Without(@, eol + 2)]
    IN  IF eol < 0 THEN k
        ELSE IF counted.trailer > MaxHeadSize THEN fail(counted, 431)
        ELSE IF eol = 0 THEN finishBody([taken EXCEPT !.chunk = "done", !.length = Len(k.body)])
        ELSE taken

ChunkStep(k) ==
    IF k.state # "body" \/ k.complete THEN k
    ELSE CASE k.chunk = "size" -> ChunkSize(k)
           [] k.chunk = "data" -> ChunkData(k)
           [] k.chunk = "crlf" -> ChunkCrlf(k)
           [] k.chunk = "trailer" -> ChunkTrailer(k)

(* The loop ends at the first step that cannot go on; every step before    *)
(* that takes at least a byte, so a step for each byte is enough.          *)
consumeChunkedBody(k) ==
    LET after[n \in 0..Len(k.buffer)] == IF n = 0 THEN k ELSE ChunkStep(after[n - 1])
    IN  after[Len(k.buffer)]

consumePlainBody(k) ==
    LET take == Least(k.length - Len(k.body), Len(k.buffer))
        fed == IF take = 0 THEN k
               ELSE deliver([k EXCEPT !.buffer = Without(@, take)], Left(k.buffer, take))
    IN  IF fed.state = "body" /\ Len(fed.body) >= k.length THEN finishBody(fed) ELSE fed

consumeBody(k) == IF k.state # "body" \/ k.complete THEN k
                  ELSE IF sent.framing = "chunked" THEN consumeChunkedBody(k)
                  ELSE consumePlainBody(k)

(* parseHead() and headersReady(): what the head says, and streamBodyTo(), *)
(* which refuses a declared length above the ceiling at once.              *)
parseHead(k) ==
    LET parsed == [k EXCEPT !.state = "body",
                            !.length = IF sent.framing = "length" THEN sent.length ELSE -1]
    IN  CASE sent.framing = "invalid" -> fail(k, 400)
          [] sent.framing = "preflight" -> fail(parsed, 204)
          [] sent.sink /\ sent.framing = "length" /\ sent.length > sent.limit -> fail(parsed, 413)
          [] OTHER -> parsed

ReadHead(k) ==
    LET end == indexOf(k.buffer, CRLF \o CRLF)
    IN  IF end < 0 THEN IF Len(k.buffer) > MaxHeadSize THEN fail(k, 431) ELSE k
        ELSE consumeBody(parseHead([k EXCEPT !.buffer = Without(@, end + 4)]))

(* onReadyRead() with the bytes read; a tail is read and dropped.          *)
ServeTail(k, bytes) == k.state = "responded"   \* a slip: only an answered request drops it
DropsTail(k, bytes) == k.state = "responded" \/ k.complete
onReadyRead(k, bytes) ==
    LET fed == [k EXCEPT !.buffer = @ \o bytes]
    IN  IF DropsTail(k, bytes) THEN k
        ELSE IF k.state = "headers" THEN ReadHead(fed)
        ELSE consumeBody(fed)

-----------------------------------------------------------------------------
(* A read takes any number of the bytes still to come.                     *)
Read ==
    /\ \E n \in 1..(Len(sent.bytes) - pos) :
        /\ pos' = pos + n
        /\ conn' = onReadyRead(conn, SubSeq(sent.bytes, pos + 1, pos + n))
    /\ UNCHANGED sent

(* The idle timer or the header deadline, on a request still coming in.    *)
TimedOut ==
    /\ conn.state # "responded" /\ ~conn.complete
    /\ conn' = fail(conn, 408)
    /\ UNCHANGED <<sent, pos>>

Next == Read \/ TimedOut

Spec == Init /\ [][Next]_vars

-----------------------------------------------------------------------------
(* Correctness.                                                            *)

(* A connection k that has read n bytes is right about them: the body it   *)
(* handed on is the beginning of the one that was sent; the request is     *)
(* reported once, with all of it; it is refused only for its own fault,    *)
(* with that fault's status, and when all bytes are in, the outcome is the *)
(* one it deserves.                                                        *)
Decoded(k, n) ==
    /\ IsPrefix(k.body, sent.body)
    /\ k.complete => k.body = sent.body /\ sent.outcome = "complete"
    /\ k.asks = IF k.complete THEN 1 ELSE 0
    /\ k.status \notin {0, 408} => sent.outcome = "refused" /\ k.status = sent.status
    /\ n = Len(sent.bytes) /\ k.status # 408 =>
          /\ k.complete <=> sent.outcome = "complete"
          /\ k.status # 0 <=> sent.outcome = "refused"

(* However the bytes are cut into reads, what onReadyRead() and all it     *)
(* calls make of them is right.                                            *)
DecodesTheBody == Decoded(conn, pos)

(* Refused for a line, or a head, that had not ended when more than        *)
(* MaxHeadSize bytes of it had come: the limits on them are applied to     *)
(* what is in the buffer, and a read may end anywhere.                     *)
CutOff(k) ==
    /\ k.state = "responded" /\ k.chunk = "size" /\ Len(k.buffer) > MaxHeadSize
    /\ \/ k.status = 431 /\ indexOf(k.buffer, CRLF \o CRLF) < 0
       \/ k.status = 400 /\ indexOf(k.buffer, CRLF) < 0 /\ sent.framing = "chunked"

Alike(j, k) ==
    \/ j = k
    \/ j.state = "responded" /\ k.state = "responded" /\ j.status = k.status

(* What a connection has understood depends on the bytes it has read and   *)
(* not on where the reads ended: it is what onReadyRead() makes of all of  *)
(* them at once, unless it timed out or was cut off within a line.         *)
SplitDoesNotMatter ==
    LET whole == onReadyRead(NewConnection, SubSeq(sent.bytes, 1, pos))
    IN  \/ conn.status = 408 \/ CutOff(conn)
        \/ Alike(conn, whole)

(* What waits in memory for more bytes stays within the limit on a line,   *)
(* except a trailer line that has not ended yet: that one is only counted  *)
(* once it has.  What was delivered stays within its ceiling.              *)
MemoryIsBounded ==
    /\ conn.state # "responded" /\ conn.chunk # "trailer" =>
          Len(conn.buffer) <= MaxHeadSize
    /\ conn.complete => conn.buffer = <<>>
    /\ Len(conn.body) <= Ceiling

=============================================================================
