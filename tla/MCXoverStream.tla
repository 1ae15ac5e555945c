--------------------------- MODULE MCXoverStream ---------------------------
(***************************************************************************)
(* XoverStream with two or three sessions that can share a connection.     *)
(***************************************************************************)
EXTENDS XoverStream

\* Errors after which no reply is outstanding, and all.
FirstOrLast == {0, Ranges}
AnyRange    == 0 .. Ranges

\* Replies that are followed by one that is not an error: the 4xx status of a
\* range would not be noticed behind a reply without an end.
FirstTwo == {1, 2}
None     == {}
=============================================================================
