-------------------------------- MODULE Tunnel --------------------------------
(***************************************************************************)
(* The CONNECT branch of forwardRequest(): one thread relays bytes between *)
(* the client and the origin, in both directions by turns, on the client's *)
(* connection and in the buffer that Request has used before.  After a     *)
(* first read that waits for the client it polls, without ever sleeping,   *)
(* until it sees that one side has closed, or gets an error.               *)
(*                                                                         *)
(* The origin's bytes are numbered from 1, too.  write() is called once    *)
(* for what was read and may write less; the rest is then dropped.         *)
(***************************************************************************)
EXTENDS Request

CONSTANT MaxReply   \* bound: bytes the origin sends

ASSUME TunnelAssumption == MaxReply \in Nat

VARIABLES
  replied, originClosed,   \* what the origin has sent, and whether it has closed
  fetched,            \* bytes read from the origin's socket
  first,              \* bytes of the client that were read before the tunnel
  canWriteToServer,   \* the flag of the loop
  response,           \* responseHeaderBuf
  toServer, toClient, \* what was written
  short,              \* a write was short, or failed
  ended               \* why the tunnel ended: "client", "server" or "error"

remote  == <<replied, originClosed>>
written == <<toServer, toClient, short>>
tunnel  == <<fetched, first, canWriteToServer, response, written, ended>>

Ack == Foreign    \* "200 Connection established"

FromClient == Available
FromServer == replied - fetched
Amount(n) == IF n < BUFSIZE THEN n ELSE BUFSIZE
Stream(m, n) == [i \in 1 .. n - m |-> m + i]    \* the bytes m + 1 .. n

TunnelInit ==
  /\ replied = 0 /\ originClosed = FALSE /\ fetched = 0
  /\ first = 0 /\ canWriteToServer = TRUE /\ response = <<>>
  /\ toServer = <<>> /\ toClient = <<>> /\ short = FALSE
  /\ ended = "no"

\* write(): all of the bytes or only some of them.
Written(stream, bytes) ==
  \E k \in 0 .. Len(bytes) :
    /\ stream' = stream \o SubSeq(bytes, 1, k)
    /\ short' = (short \/ k < Len(bytes))

\* The error comes only when the other side is gone.
End(why) == pc' = "exit" /\ ended' = why

\* Whether the acknowledgement was written is not looked at.
Acknowledge ==
  /\ pc = "ack"
  /\ Written(toClient, <<Ack>>)
  /\ first' = taken
  /\ pc' = "first"
  /\ UNCHANGED <<client, reading, remote, fetched, canWriteToServer, response,
                 toServer, ended>>

\* read() of the client's socket into the buffer.
ReadClient(l) ==
  /\ request' = Stream(taken, taken + Amount(FromClient))
  /\ taken' = taken + Amount(FromClient)
  /\ canWriteToServer' = TRUE
  /\ pc' = l
  /\ UNCHANGED ended

\* Mutant: the end of the stream does not end the first read.
FirstReadNoEnd ==
  /\ pc = "first"
  /\ FromClient > 0
  /\ ReadClient("toServer")
  /\ UNCHANGED <<client, cap, grace, remote, fetched, first, response, written>>

\* The first read waits until there is something or the client has closed.
FirstRead ==
  /\ pc = "first"
  /\ FromClient > 0 \/ hungUp
  /\ ReadClient("toServer")
  /\ UNCHANGED <<client, cap, grace, remote, fetched, first, response, written>>

WriteServer ==
  /\ pc = "toServer"
  /\ \/ ~canWriteToServer /\ pc' = "peekServer" /\ UNCHANGED <<toServer, short, ended>>
     \/ canWriteToServer /\ Written(toServer, request) /\ pc' = "peekServer" /\ UNCHANGED ended
     \/ canWriteToServer /\ originClosed /\ End("error") /\ short' = TRUE /\ UNCHANGED toServer
  /\ UNCHANGED <<client, reading, remote, fetched, first, canWriteToServer, response, toClient>>

\* recv() with MSG_PEEK finds data, the end of the stream, or nothing.
PeekServer ==
  /\ pc = "peekServer"
  /\ \/ /\ FromServer > 0
        /\ response' = Stream(fetched, fetched + Amount(FromServer))
        /\ fetched' = fetched + Amount(FromServer)
        /\ pc' = "toClient"
        /\ UNCHANGED ended
     \/ FromServer = 0 /\ originClosed /\ End("server") /\ UNCHANGED <<response, fetched>>
     \/ /\ FromServer = 0 /\ ~originClosed
        /\ pc' = "peekClient"
        /\ UNCHANGED <<response, fetched, ended>>
  /\ UNCHANGED <<client, reading, remote, first, canWriteToServer, written>>

WriteClient ==
  /\ pc = "toClient"
  /\ \/ Written(toClient, response) /\ pc' = "peekClient" /\ UNCHANGED ended
     \/ hungUp /\ End("error") /\ short' = TRUE /\ UNCHANGED toClient
  /\ UNCHANGED <<client, reading, remote, fetched, first, canWriteToServer, response, toServer>>

\* Mutant: that the client has closed is seen before what it has sent.
GoneAtOnce == hungUp

ClientGone == FromClient = 0 /\ hungUp

\* Mutant: the flag stays set when there is nothing to read.
NothingReadKeepsFlag == pc' = "toServer" /\ UNCHANGED <<request, taken, canWriteToServer, ended>>

NothingRead ==
  /\ canWriteToServer' = FALSE
  /\ pc' = "toServer"
  /\ UNCHANGED <<taken, request, ended>>

PeekClient ==
  /\ pc = "peekClient"
  /\ \/ FromClient > 0 /\ ~ClientGone /\ ReadClient("toServer")
     \/ ClientGone /\ End("client") /\ UNCHANGED <<request, taken, canWriteToServer>>
     \/ FromClient = 0 /\ ~hungUp /\ NothingRead
  /\ UNCHANGED <<client, cap, grace, remote, fetched, first, response, written>>

TunnelStep ==
  Acknowledge \/ FirstRead \/ WriteServer \/ PeekServer \/ WriteClient \/ PeekClient

-----------------------------------------------------------------------------
(* The origin, once there is a connection to it *)

Tunnelling == pc \in {"ack", "first", "toServer", "peekServer", "toClient", "peekClient"}

Reply ==
  /\ Tunnelling /\ ~originClosed /\ replied < MaxReply
  /\ replied' = replied + 1
  /\ UNCHANGED <<client, reading, pc, originClosed, tunnel>>

OriginCloses ==
  /\ Tunnelling /\ ~originClosed
  /\ originClosed' = TRUE
  /\ UNCHANGED <<client, reading, pc, replied, tunnel>>

-----------------------------------------------------------------------------
(* What holds *)

\* What was read and is still to be written.
Upstream   == IF pc = "toServer" /\ canWriteToServer THEN request ELSE <<>>
Downstream == IF pc = "toClient" THEN response ELSE <<>>

\* The tunnel neither reorders nor repeats bytes, whatever write() does; and when
\* no write was short, what one side got and what is still in the buffer is
\* exactly what was read from the other, after the first bytes of the request.
Increasing(s) == \A i, j \in DOMAIN s : i < j => s[i] < s[j]
TunnelExact ==
  /\ req.connect => Increasing(toServer) /\ Increasing(toClient)
  /\ ~short /\ Tunnelling /\ pc # "ack" =>
       /\ toServer \o Upstream = Stream(first, taken)
       /\ toClient \o Downstream = <<Ack>> \o Stream(0, fetched)

\* A tunnel ends only when everything from the side that closed has been passed
\* on: neither the order of the tests nor the pieces in which it is read lose
\* the last bytes.  (What the other side still had to send is lost.)
TunnelDrained ==
  ~short =>
    /\ ended = "client" => toServer = Stream(first, arrived)
    /\ ended = "server" => toClient = <<Ack>> \o Stream(0, replied)
===============================================================================
