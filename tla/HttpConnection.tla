--------------------------- MODULE HttpConnection ---------------------------
(***************************************************************************)
(* One HTTP/1.1 connection of the two hand-written servers: the parser and *)
(* connection loop of custom_http.rs (over a TokioTcpStream) and those of  *)
(* kimojio_server.rs (over io_uring), which differ only in reset().        *)
(*                                                                         *)
(* The byte stream is a sequence of tokens, the smallest pieces the parser *)
(* tells apart: the start of a head, a header, the blank line ending the   *)
(* head, a chunk size, a line end, a body byte.  A read returns any        *)
(* non-empty prefix of what has arrived, so every fragmentation occurs.    *)
(***************************************************************************)
EXTENDS Integers, Sequences, SequencesExt, FiniteSetsExt

CONSTANTS
    Shapes,        \* the requests a client may send
    MaxRequests,   \* how many of them on one connection
    Modes,         \* the pairs <<server, pipelining>> explored
    InitialBufSize, MaxBufSize    \* in tokens

\* A request: the tokens of its head, what is wrong with it, the headers the
\* servers look at, and its body, of a given length (-1: no Content-Length) or in
\* chunks, of which ends says where in the body each one ends.
Shape ==
    [hlen : Nat, flaw : {"none", "head", "uri", "size"}, version : {10, 11},
     connection : {"none", "keep-alive", "close"}, chunked : BOOLEAN,
     length : Nat \cup {-1}, ends : Seq(Nat), trailer : BOOLEAN]

\* How much of the body comes before chunk j.
Before(r, j) == IF j = 1 THEN 0 ELSE r.ends[j - 1]

ASSUME BufAssumption ==
    /\ InitialBufSize \in Nat \ {0} /\ MaxBufSize \in Nat /\ MaxRequests \in Nat
    /\ Modes \subseteq {"simple", "kimojio"} \X BOOLEAN

\* A head has a first and a last line, and a chunk is not empty: an empty one
\* ends the body.
ASSUME ShapesAssumption ==
    /\ Shapes \subseteq Shape
    /\ \A r \in Shapes : r.hlen >= 2 /\ \A j \in 1..Len(r.ends) : Before(r, j) < r.ends[j]

VARIABLES
    reqs,      \* the requests of the client, a sequence of shapes
    mode,      \* <<server, does the client pipeline>>
    stream,    \* the tokens the client sends before it closes
    pos,       \* how many of them the server has read
    peer,      \* "open", "fin" (no more data) or "reset"
    pc,        \* what the connection task is doing
    buf,       \* parser.buf[..len]
    cap,       \* parser.buf.len()
    line,      \* the line read_line is collecting
    need,      \* bytes the body or the chunk still lacks
    body,      \* the body read so far
    cur,       \* number of the request whose head was parsed
    handled,   \* the requests passed to the handler
    answers    \* the responses written: request numbers, 0 for a 400

vars == <<reqs, mode, stream, pos, peer, pc, buf, cap, line, need, body, cur,
          handled, answers>>

clientVars == <<reqs, mode, stream, peer>>
parserVars == <<buf, cap, line, need, body, cur>>

-----------------------------------------------------------------------------
(* The wire format *)

Tok(k, i, n) == [k |-> k, req |-> i, n |-> n]

Data(i, from, n) == [j \in 1..Max({0, n}) |-> Tok("data", i, from + j)]

\* What httparse accepts is a start, headers and the blank line.
HeadOf(i, r) ==
    <<Tok("start", i, 0)>>
    \o [j \in 1..(r.hlen - 2) |-> Tok(IF r.flaw = "head" THEN "junk" ELSE "hdr", i, j)]
    \o <<Tok("end", i, 0)>>

Chunk(i, r, j) ==
    LET size == r.ends[j] - Before(r, j)
    IN  <<Tok("size", i, size), Tok("nl", i, 0)>>
        \o Data(i, Before(r, j), size)
        \o <<Tok("nl", i, 0)>>

LastChunk(i, r) ==
    <<Tok("size", i, IF r.flaw = "size" THEN -1 ELSE 0), Tok("nl", i, 0)>>
    \o (IF r.trailer THEN <<Tok("hdr", i, 0), Tok("nl", i, 0)>> ELSE <<>>)
    \o <<Tok("nl", i, 0)>>

Payload(i, r) ==
    IF r.chunked
    THEN FlattenSeq([j \in 1..Len(r.ends) |-> Chunk(i, r, j)]) \o LastChunk(i, r)
    ELSE Data(i, 0, r.length)

\* The requests rs, one after the other.
Wire(rs) == FlattenSeq([i \in 1..Len(rs) |-> HeadOf(i, rs[i]) \o Payload(i, rs[i])])

(* Plausible mistakes in the helpers and the parser below *)

LengthFirst(r) == r.chunked /\ r.length = -1

NoFromBuf(len, n) == 0

GrowTooLate(b) == Len(b) = cap /\ 2 * cap >= MaxBufSize

ResetAlways(b) == <<>>

(* The helpers of the parser *)

\* get_content_length, with -1 for None.
get_content_length(r) == r.length

is_chunked(r) == r.chunked

should_keep_alive(r) ==
    CASE r.connection = "keep-alive" -> TRUE
      [] r.connection = "none" -> r.version = 11
      [] OTHER -> FALSE

\* How much read_body reads before it is done; chunks are read one by one.
read_body(r) == IF is_chunked(r) THEN 0 ELSE Max({0, get_content_length(r)})

\* httparse::Request::parse on the valid bytes: empty lines first, then the
\* head.  Zero is Partial, -1 an error, otherwise the length of the head.
parse(b) ==
    LET first == Min({j \in 1..(Len(b) + 1) : j > Len(b) \/ b[j].k # "nl"})
        stop  == Min({j \in first..(Len(b) + 1) :
                        j > Len(b) \/ b[j].k # (IF j = first THEN "start" ELSE "hdr")})
    IN  CASE stop > Len(b) -> 0
          [] stop \in (first + 1)..Len(b) /\ b[stop].k = "end" -> stop
          [] OTHER -> -1

\* What the client has sent: a client that does not pipeline waits for the
\* answer to each request before it sends the next one.
Arrived ==
    IF mode[2] THEN Len(stream)
    ELSE Max({0} \cup {j \in 1..Len(stream) : stream[j].req <= Len(answers) + 1})

Drop(s, n) == SubSeq(s, n + 1, Len(s))

\* How many of n wanted bytes the buffer supplies.
from_buf(len, n) == Min({len, n})

\* read_more refuses to grow the buffer: HeadersTooLarge.
TooLarge(b) == Len(b) = cap /\ cap >= MaxBufSize
-----------------------------------------------------------------------------
Init ==
    /\ reqs \in SeqOf(Shapes, MaxRequests) \ {<<>>}
    /\ mode \in Modes
    /\ stream = Wire(reqs)
    /\ pos = 0 /\ peer = "open" /\ pc = "head"
    /\ buf = <<>> /\ cap = InitialBufSize /\ line = <<>>
    /\ need = 0 /\ body = <<>> /\ cur = 0
    /\ handled = <<>> /\ answers = <<>>

\* The client stops sending at any point, in the middle of a request too.
ClientClose ==
    /\ peer = "open" /\ peer' = "fin"
    /\ \E k \in pos..Arrived : stream' = SubSeq(stream, 1, k)
    /\ UNCHANGED <<reqs, mode, pos, pc, parserVars, handled, answers>>

ClientReset ==
    /\ peer # "reset" /\ peer' = "reset"
    /\ UNCHANGED <<reqs, mode, stream, pos, pc, parserVars, handled, answers>>

(* Reads: at most room tokens, or the end of the stream, or an error. *)

Reads(room, n) ==
    /\ peer # "reset"
    /\ n \in 1..Min({room, Arrived - pos})
    /\ pos' = pos + n

AtEof == peer = "fin" /\ pos = Len(stream)

\* write_response: the client gets the whole response, a 400 when n is 0.
write_response(n) == answers' = Append(answers, n)

\* Ok(None) and ConnectionClosed end the task; any other error is answered
\* with a 400, whose write is not checked, before the task ends.
Closed == pc' = "closed" /\ UNCHANGED <<pos, answers, parserVars>>

Fail ==
    /\ pc' = "failed"
    /\ IF peer = "reset" THEN UNCHANGED answers ELSE write_response(0)
    /\ UNCHANGED <<pos, parserVars>>

\* read_more, called with the buffer b; the buffer doubles when it is full.
read_more(b) ==
    LET size == IF Len(b) = cap THEN 2 * cap ELSE cap
    IN  \/ TooLarge(b) /\ Fail
        \/ /\ ~TooLarge(b)
           /\ \/ \E n \in 1..(size - Len(b)) :
                   /\ Reads(size - Len(b), n)
                   /\ buf' = b \o SubSeq(stream, pos + 1, pos + n)
                   /\ cap' = size
                   /\ line' = IF pc = "head" THEN line ELSE line \o buf
                   /\ UNCHANGED <<pc, need, body, cur, answers>>
              \/ AtEof /\ Closed
              \/ peer = "reset" /\ Fail

(* parse_headers *)

ReadHead ==
    /\ pc = "head" /\ parse(buf) = 0
    /\ read_more(buf)
    /\ UNCHANGED <<clientVars, handled>>

BadHead ==
    /\ pc = "head" /\ parse(buf) = -1
    /\ Fail
    /\ UNCHANGED <<clientVars, handled>>

\* parse_request after parse_headers: drop the head from the buffer and
\* choose how the body is read.
Parsed ==
    /\ pc = "head" /\ parse(buf) > 0
    /\ cur' = buf[parse(buf)].req
    /\ LET r == reqs[cur']
           n == read_body(r)
           rest == Drop(buf, parse(buf))
           k == from_buf(Len(rest), n)
       IN  /\ body' = SubSeq(rest, 1, k)
           /\ buf' = Drop(rest, k)
           /\ need' = n - k
           /\ pc' = IF is_chunked(r) THEN "size" ELSE "body"
    /\ line' = <<>>
    /\ UNCHANGED <<clientVars, pos, cap, handled, answers>>

(* read_fixed_body and read_exact: what the buffer lacks is read past it *)

ReadRest ==
    /\ need > 0
    /\ \/ \E n \in 1..need :
            /\ Reads(need, n)
            /\ body' = body \o SubSeq(stream, pos + 1, pos + n)
            /\ need' = need - n
            /\ UNCHANGED <<pc, buf, cap, line, cur, answers>>
       \/ AtEof /\ Closed
       \/ peer = "reset" /\ Fail
    /\ UNCHANGED <<clientVars, handled>>

read_fixed_body == pc = "body" /\ ReadRest

read_exact == pc = "chunk" /\ ReadRest

\* The body is complete: the request is built, and handed to the handler
\* unless its URI does not parse.
Handle ==
    /\ pc = "body" /\ need = 0
    /\ \/ reqs[cur].flaw = "uri" /\ Fail /\ UNCHANGED handled
       \/ /\ reqs[cur].flaw # "uri"
          /\ handled' = Append(handled, [req |-> cur, body |-> body])
          /\ pc' = "respond"
          /\ UNCHANGED <<pos, answers, parserVars>>
    /\ UNCHANGED clientVars

(* read_chunked_body: size line, data, line end, until a chunk of size 0 *)

NlAt == {j \in DOMAIN buf : buf[j].k = "nl"}

ReadLine ==
    /\ pc \in {"size", "crlf", "last"} /\ NlAt = {}
    /\ read_more(<<>>)
    /\ UNCHANGED <<clientVars, handled>>

\* The line is in the buffer; its first token is the size.
Line ==
    /\ pc \in {"size", "crlf", "last"} /\ NlAt # {}
    /\ LET text == line \o SubSeq(buf, 1, Min(NlAt) - 1)
           rest == Drop(buf, Min(NlAt))
           size == IF text # <<>> /\ text[1].k = "size" THEN text[1].n ELSE -1
           k    == from_buf(Len(rest), size)
       IN  \/ pc = "size" /\ size = -1 /\ Fail
           \/ /\ ~(pc = "size" /\ size = -1)
              /\ line' = <<>>
              /\ buf' = IF pc = "size" THEN Drop(rest, k) ELSE rest
              /\ body' = IF pc = "size" THEN body \o SubSeq(rest, 1, k) ELSE body
              /\ need' = IF pc = "size" THEN size - k ELSE need
              /\ pc' = CASE pc = "size" /\ size = 0 -> "last"
                         [] pc = "size" /\ size # 0 -> "chunk"
                         [] pc = "crlf" -> "size"
                         [] OTHER -> "body"
              /\ UNCHANGED <<pos, cap, cur, answers>>
    /\ UNCHANGED <<clientVars, handled>>

ChunkRead ==
    /\ pc = "chunk" /\ need = 0
    /\ pc' = "crlf"
    /\ UNCHANGED <<clientVars, pos, parserVars, handled, answers>>

\* KimojioHttpParser::reset, which custom_http.rs does not have.
reset(b) == IF mode[1] = "kimojio" THEN <<>> ELSE b

\* write_response, then keep the connection or end the task.
Respond ==
    /\ pc = "respond"
    /\ \/ peer = "reset" /\ pc' = "failed" /\ UNCHANGED <<buf, answers>>
       \/ /\ peer # "reset"
          /\ write_response(cur)
          /\ IF should_keep_alive(reqs[cur])
             THEN pc' = "head" /\ buf' = reset(buf)
             ELSE pc' = "finished" /\ UNCHANGED buf
    /\ UNCHANGED <<clientVars, pos, cap, line, need, body, cur, handled>>

Server ==
    \/ ReadHead \/ BadHead \/ Parsed \/ read_fixed_body \/ Handle
    \/ ReadLine \/ Line \/ read_exact \/ ChunkRead \/ Respond

Next == Server \/ ClientClose \/ ClientReset

\* The executor polls a task whose read or write is ready.
Spec == Init /\ [][Next]_vars /\ WF_vars(Server)
-----------------------------------------------------------------------------
(* What a request says, read off the request and not off the parser *)

BodyOf(i) ==
    LET r == reqs[i]
    IN  Data(i, 0, IF r.chunked THEN Before(r, Len(r.ends) + 1) ELSE r.length)

EndOf(i) == Len(Wire(SubSeq(reqs, 1, i)))

\* The empty line a trailer leaves behind counts as part of the next head.
HeadSpan(i) ==
    reqs[i].hlen + (IF i > 1 /\ reqs[i - 1].chunked /\ reqs[i - 1].trailer THEN 1 ELSE 0)

Served(i) == reqs[i].flaw = "none" /\ HeadSpan(i) <= MaxBufSize

\* Request i is due: it and all before it are well formed and keep-alive.
Due(i) ==
    /\ \A j \in 1..i : Served(j)
    /\ \A j \in 1..(i - 1) : should_keep_alive(reqs[j])

\* However the stream is cut into reads, the handler is given the requests the
\* client sent, in order, none twice, each with exactly its own body: no byte
\* of one request ends up in another (the leftover bytes that parse_request,
\* read_fixed_body, read_exact and read_line keep in the buffer).
RequestsExact ==
    \A i \in DOMAIN handled : handled[i] = [req |-> i, body |-> BodyOf(i)]

\* When the task ends because the client stopped sending, every due request
\* that was sent completely has been handled and answered, however many of them
\* were read together.
NothingLost ==
    pc = "closed" =>
        \A i \in DOMAIN reqs : Due(i) /\ EndOf(i) <= Len(stream) => i \in Range(answers)

\* A 400 is sent only for a request that is malformed or whose head does not fit
\* in MAX_BUF_SIZE: no fragmentation and no amount of pipelined data behind a
\* request fills the buffer, and no body line does.
BadRequestJustified ==
    0 \in Range(answers) => ~Due(Len(handled) + 1)

\* A client that keeps the connection open gets the answer to every due request
\* it has sent: the parser never waits for a byte beyond the request (its client
\* would wait for the answer in turn).
EveryRequestAnswered ==
    <>(peer # "open" \/ \A i \in DOMAIN reqs : Due(i) => i \in Range(answers))

=============================================================================
