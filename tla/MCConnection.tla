---------------------------- MODULE MCConnection ----------------------------
(* Small instances of Connection for TLC. *)
EXTENDS Connection

Message(connect, host, headers, bytes, zeros, newlines) ==
  [connect |-> connect, bytes |-> bytes, headers |-> headers, host |-> host,
   zeros |-> zeros, newlines |-> newlines]

\* With BUFSIZE = 3 and RESPONSE_HEADER_SIZE = 4 the buffer is doubled once or
\* twice while a request of 9 bytes is read.
Plain == {Message(FALSE, 2, 3, n, {}, {}) : n \in {3, 4, 9}}
NoHost == {Message(FALSE, 0, 2, 3, {}, {})}
Bodies == {Message(FALSE, 2, 3, 7, z, n) : z \in {{}, {5}}, n \in {{}, {4}, {6}}}
Tunnels == {Message(TRUE, 1, 2, n, {}, {}) : n \in {2, 5}}
AllRequests == Plain \cup NoHost \cup Bodies \cup Tunnels
=============================================================================
