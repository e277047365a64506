----------------------------- MODULE Connection -----------------------------
(***************************************************************************)
(* A client's connection from pop() to close(): the request is read and    *)
(* parsed (Request), answered from the cache or by the origin, or becomes  *)
(* a tunnel (Tunnel).  What the modules Cache and Forward are about is an  *)
(* outcome here.  The descriptors are those of the client's connection,    *)
(* which exitRequest() closes, and of the connection to the origin, which  *)
(* connectToServer() opens.                                                *)
(***************************************************************************)
EXTENDS Tunnel

VARIABLES
  closes,     \* how often the client's descriptor was closed
  sockets     \* descriptors that connectToServer() has opened and nobody closed

descriptors == <<closes, sockets>>
vars == <<client, reading, pc, remote, tunnel, descriptors>>

Init == ReadInit /\ TunnelInit /\ closes = 0 /\ sockets = 0

\* A failed read: close() and back to the loop.
Failed ==
  /\ pc = "failed"
  /\ closes' = closes + 1
  /\ pc' = "done"
  /\ UNCHANGED <<client, reading, remote, tunnel, sockets>>

\* exitRequest()
Exit ==
  /\ pc \in {"bad", "exit"}
  /\ closes' = closes + 1
  /\ pc' = "done"
  /\ UNCHANGED <<client, reading, remote, tunnel, sockets>>

\* cacheable(): HIT is answered here; EXPIRED and MISS are forwarded, and so is
\* REVALIDATE when there is no ETag.  The URI of a CONNECT is never cached.
LookUp ==
  /\ pc = "handle"
  /\ pc' \in {"connect"} \cup (IF req.connect THEN {} ELSE {"exit", "revalidate"})
  /\ UNCHANGED <<client, reading, remote, tunnel, descriptors>>

\* connectToServer(): socket(), then getaddrinfo() and connect(), which may fail
\* and leave the socket open.
ConnectToServer ==
  /\ pc \in {"connect", "revalidate"}
  /\ \/ pc' = "exit" /\ sockets' \in {sockets, sockets + 1}
     \/ /\ pc' = CASE pc = "revalidate" -> "respond"
                 [] pc = "connect" /\ req.connect -> "ack"
                 [] OTHER -> "send"
        /\ sockets' = sockets + 1
  /\ UNCHANGED <<client, reading, remote, tunnel, closes>>

\* writeall() of the request, as a string, to the origin; an error after a part.
SendRequest ==
  /\ pc = "send"
  /\ \E k \in 0 .. Len(request) :
       /\ toServer' = SubSeq(request, 1, k)
       /\ short' = (k < Len(request))
       /\ pc' = IF k < Len(request) THEN "exit" ELSE "respond"
  /\ UNCHANGED <<client, reading, remote, fetched, first, canWriteToServer, response,
                 toClient, ended, descriptors>>

\* What Forward is about: the response reaches the client, or fails.
Respond ==
  /\ pc = "respond"
  /\ pc' = "exit"
  /\ UNCHANGED <<client, reading, remote, tunnel, descriptors>>

Thread ==
  \/ ReadStep /\ UNCHANGED <<remote, tunnel, descriptors>>
  \/ TunnelStep /\ UNCHANGED descriptors
  \/ Failed \/ Exit \/ LookUp \/ ConnectToServer \/ SendRequest \/ Respond

Outside ==
  \/ (ReadFails \/ Arrive \/ HangUp) /\ UNCHANGED <<remote, tunnel, descriptors>>
  \/ (Reply \/ OriginCloses) /\ UNCHANGED descriptors

Next == Thread \/ Outside

Spec == Init /\ [][Next]_vars

\* The thread runs.  Neither the client nor the origin need send or close.
FairSpec == Spec /\ WF_vars(Thread)

-----------------------------------------------------------------------------
(* What holds *)

PCs == {"read", "parse", "handle", "bad", "failed", "undefined", "connect",
        "revalidate", "send", "respond", "ack", "first", "toServer", "peekServer",
        "toClient", "peekClient", "exit", "done"}

\* Every variable has its type.
TypeOK ==
  /\ req \in Requests /\ arrived \in 0 .. req.bytes /\ taken \in 0 .. arrived
  /\ hungUp \in BOOLEAN /\ pc \in PCs
  /\ cap \in Nat /\ grace \in 0 .. Grace
  /\ replied \in 0 .. MaxReply /\ fetched \in 0 .. replied /\ originClosed \in BOOLEAN
  /\ first \in 0 .. taken
  /\ canWriteToServer \in BOOLEAN /\ short \in BOOLEAN
  /\ request \in Seq(Nat) /\ response \in Seq(Nat)
  /\ toServer \in Seq(Nat) /\ toClient \in Seq(Nat)
  /\ ended \in {"no", "client", "server", "error"}
  /\ closes \in Nat /\ sockets \in Nat

\* On every path the client's descriptor is closed exactly once: closed a second
\* time, it could be the connection of another thread by then.
ClosedOnce == closes = IF pc = "done" THEN 1 ELSE 0

\* A client that closes its side gets its connection closed, whatever the thread
\* was doing with it, and the thread is free again; and so does one that has
\* spoken in a tunnel whose origin closes.  (Until the client speaks the tunnel
\* does not look at the origin.)
Relaying == Tunnelling /\ pc \notin {"ack", "first"}
ThreadFreed ==
  /\ hungUp ~> pc \in {"done", "undefined"}
  /\ (originClosed /\ Relaying) ~> pc \in {"done", "undefined"}

-----------------------------------------------------------------------------
(* What a comment says and the code does not do *)

\* exitRequest() leaves nothing of a request behind.
AllResourcesFreed == pc = "done" => sockets = 0
=============================================================================
