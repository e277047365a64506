------------------------------ MODULE MCForward ------------------------------
(* Small instances of Forward for TLC. *)
EXTENDS Forward

Response(n, h, f, zeros) ==
  [bytes |-> n, headers |-> h, framing |-> f, keep |-> TRUE,
   zeros |-> zeros, status |-> "other"]

\* With BUFSIZE = 2 and RESPONSE_HEADER_SIZE = 6 the first reading loop stops at
\* 4 or 5 bytes, and bufferedForward() has to double its buffer for the longer
\* responses.  Headers of 4 fill the first loop.
Texts == {Response(n, h, f, {}) : n \in {6, 12}, h \in {2, 4}, f \in {"length", "chunked", "close"}}
Binaries == {Response(7, 2, f, z) : f \in {"length", "chunked"}, z \in {{3}, {4}, {4, 6}}}
NotKept == {[Response(7, 2, f, {}) EXCEPT !.keep = FALSE] : f \in {"length", "chunked"}}
Revalidated == {[Response(2, 2, "length", {}) EXCEPT !.status = "304"]}
AllResponses == Texts \cup Binaries \cup NotKept \cup Revalidated
=============================================================================
