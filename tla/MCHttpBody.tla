----------------------------- MODULE MCHttpBody -----------------------------
(***************************************************************************)
(* The streams for HttpBody: requests put together from their parts, with  *)
(* data that looks like framing, and ways to get them wrong.               *)
(***************************************************************************)
EXTENDS HttpBody, FiniteSets

MCSymbol == {CR, LF, "0", "1", "2", "3", ";", "d", "g", "h", "l", "t", "x", "z"}

MCHead == <<"h">> \o CRLF \o <<"h">> \o CRLF \o CRLF
Data == {<<"d">>, CRLF, <<"0", CR>>, <<LF, "1", CR>>}
Count(d) == CASE Len(d) = 1 -> "1" [] Len(d) = 2 -> "2" [] Len(d) = 3 -> "3"
Extension == {<<>>, <<";", "x">>}
Trailer == {<<>>, <<"t">> \o CRLF}
Surplus == {<<>>, <<"z", CR>>}

Chunk(ext, d) == <<Count(d)>> \o ext \o CRLF \o d \o CRLF
Chunks(ext, ds) == FlattenSeq([i \in DOMAIN ds |-> Chunk(ext, ds[i])])
Ending(ext, trailer) == <<"0">> \o ext \o CRLF \o trailer \o CRLF
Bodies == {<<>>} \cup {<<d>> : d \in Data} \cup {<<d, e>> : d \in Data, e \in Data}

Request(framing, bytes, body, limit, outcome, status) ==
    [bytes |-> MCHead \o bytes, framing |-> framing, body |-> body, length |-> Len(body),
     sink |-> limit >= 0, limit |-> limit, outcome |-> outcome, status |-> status]

Chunked == {Request("chunked", Chunks(ext, ds) \o Ending(ext, trailer) \o tail,
                    FlattenSeq(ds), -1, "complete", 0) :
            ds \in Bodies, ext \in Extension, trailer \in Trailer, tail \in Surplus}
Plain == {Request("length", FlattenSeq(ds) \o tail, FlattenSeq(ds), limit, "complete", 0) :
          ds \in Bodies, tail \in Surplus, limit \in {-1, MaxBufferedBody}}
Cut == {[r EXCEPT !.bytes = SubSeq(@, 1, Len(@) - 1), !.outcome = "cut"] :
        r \in {c \in Chunked \cup Plain : c.body # <<>> /\ Last(c.bytes) # CR}}
(* Past the ceiling: one block more than agreed, in a chunk or declared.   *)
TooLong == {Request(framing, IF framing = "length" THEN d \o d ELSE Chunks(<<>>, <<d, d>>),
                    d \o d, Len(d), "refused", 413) :
            d \in Data, framing \in {"length", "chunked"}}
BadSize == {Request("chunked", Chunks(<<>>, <<d>>) \o bad \o CRLF, d, -1, "refused", 400) :
            d \in Data, bad \in {<<>>, <<"g">>, <<"1", "g">>, <<";", "1">>}}
BadHead == {Request(framing, <<"d">>, <<>>, -1, "refused",
                    IF framing = "invalid" THEN 400 ELSE 204) :
            framing \in {"invalid", "preflight"}}
(* Lines longer than MaxHeadSize.                                          *)
Long == [i \in 1..(MaxHeadSize + 1) |-> "l"]
LongHead == [Request("chunked", <<>>, <<>>, -1, "refused", 431) EXCEPT !.bytes = Long]
LongSize == Request("chunked", Long, <<>>, -1, "refused", 400)
LongTrailer == Request("chunked", <<"0">> \o CRLF \o Long \o CRLF \o CRLF, <<>>, -1,
                       "refused", 431)

MCStream == Chunked \cup Plain \cup Cut \cup TooLong \cup BadSize \cup BadHead
            \cup {LongHead, LongSize, LongTrailer}

=============================================================================
