-------------------------- MODULE MCHttpConnection --------------------------
(* The requests and the servers of the HttpConnection runs. *)
EXTENDS HttpConnection

Get == [hlen |-> 2, flaw |-> "none", version |-> 11, connection |-> "none",
        chunked |-> FALSE, length |-> -1, ends |-> <<>>, trailer |-> FALSE]

Post == [Get EXCEPT !.length = 2]

\* Content-Length and chunked together: chunked wins.
Chunked == [Post EXCEPT !.chunked = TRUE, !.ends = <<2, 3>>]

Trailing == [Get EXCEPT !.chunked = TRUE, !.ends = <<1>>,
                        !.trailer = TRUE, !.version = 10, !.connection = "keep-alive"]

LongHead == [Get EXCEPT !.hlen = 8]

LongerHead == [Get EXCEPT !.hlen = 9]

Old == [Get EXCEPT !.version = 10]

Close == [Post EXCEPT !.connection = "close"]

Malformed == {[Get EXCEPT !.hlen = 3, !.flaw = "head"], [Post EXCEPT !.flaw = "uri"],
              [Chunked EXCEPT !.flaw = "size"]}

MCShapes ==
    {Get, Post, Chunked, Trailing, LongHead, LongerHead, Old, Close} \cup Malformed

\* A client that pipelines, and a kimojio client that waits for each answer.
\* (For a client that waits the two servers are the same.)
MCModes == {<<"simple", TRUE>>, <<"kimojio", FALSE>>}
=============================================================================
