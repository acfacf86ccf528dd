----------------------------- MODULE MCHttpRelay ----------------------------
(* A small instance of HttpRelay.                                           *)
EXTENDS HttpRelay

\* With Host; without Host and with content; malformed; empty; not complete, with a
\* Connection header.
MCRequests == {
    <<GetLine, LF, HostLine, LF, LF>>,
    <<StarLine, LF, LF, 1>>,
    <<BadLine, LF, LF>>,
    <<LF>>,
    <<GetLine, LF, ConnectionLine>>}

\* 200 with headers and content, 407 with a challenge redsocks knows, with one it
\* does not and without, 403 after another line, and a line longer than the watermark.
MCAnswers == {
    <<200, LF, HeaderLine, LF, LF, 1>>,
    <<AuthRequired, LF, DigestLine, LF, LF>>,
    <<AuthRequired, LF, UnknownLine, LF, LF>>,
    <<AuthRequired, LF, LF>>,
    <<HeaderLine, LF, 403, LF, LF>>,
    <<1, 2, 3, 4, 5>>}
=============================================================================
