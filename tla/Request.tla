------------------------------- MODULE Request -------------------------------
(***************************************************************************)
(* How serviceRequest() reads a request from the client's socket into a    *)
(* buffer that it doubles, and what parseRequest() leaves in that buffer.  *)
(*                                                                         *)
(* What the client sends is its bytes, numbered from 1.  Nothing tells the *)
(* loop where a request ends: it stops when so many polls found nothing,   *)
(* or when the client has closed its side.  parseRequest() works on the    *)
(* buffer as a string: it puts NUL bytes over the ends of lines and puts   *)
(* newlines back, which are Foreign where the client sent none.  Header    *)
(* lines end in CRLF and have a colon.                                     *)
(***************************************************************************)
EXTENDS Integers, Sequences, SequencesExt

CONSTANTS
  BUFSIZE, RESPONSE_HEADER_SIZE,
  Grace,       \* empty polls until the loop gives up
  Shortest,    \* a string of this length or less is no request
  Requests     \* what the client may send

\* connect: the method is CONNECT; headers: the bytes up to the blank line; host:
\* those up to the end of the Host line, 0 if there is none; bytes: all of them,
\* for CONNECT with those for the tunnel; zeros, newlines: the bytes of the body
\* that are NUL, or a newline.
RequestType ==
  [connect: BOOLEAN, bytes: Nat, headers: Nat, host: Nat,
   zeros: SUBSET Nat, newlines: SUBSET Nat]

\* BUFSIZE leaves room for the three characters that parseRequest() may add.
ASSUME RequestAssumption ==
  /\ BUFSIZE \in Nat /\ BUFSIZE >= 3
  /\ RESPONSE_HEADER_SIZE \in Nat /\ RESPONSE_HEADER_SIZE >= BUFSIZE
  /\ Grace \in Nat \ {0} /\ Shortest \in Nat
  /\ Requests \subseteq RequestType
  /\ \A r \in Requests : /\ r.host <= r.headers /\ r.headers <= r.bytes
                         /\ \A i \in r.zeros \cup r.newlines : i > r.headers

Foreign == 0

VARIABLES
  req,        \* what the client sends
  arrived,    \* bytes that have reached the proxy's socket
  hungUp,     \* the client has closed its side
  pc,
  taken,      \* bytes read from the socket: totalRead
  cap,        \* reqBuffSize: one less than the size of the buffer
  grace,
  request     \* the string that parseRequest() leaves in the buffer

client  == <<req, arrived, hungUp>>
reading == <<taken, cap, grace, request>>

Available == arrived - taken
Bytes(n) == [i \in 1 .. n |-> i]

\* A buffer as the string functions see it: up to its first NUL.
Text(s) ==
  LET i == SelectInSeq(s, LAMBDA b : b \in req.zeros)
  IN  IF i = 0 THEN s ELSE SubSeq(s, 1, i - 1)

ReadInit ==
  /\ req \in Requests
  /\ arrived = 0 /\ hungUp = FALSE
  /\ pc = "read"
  /\ taken = 0 /\ cap = RESPONSE_HEADER_SIZE /\ grace = Grace
  /\ request = <<>>

-----------------------------------------------------------------------------
(* The reading loop *)

\* Mutant: the buffer grows when it is full.
GrownWhenFull(n) == IF n >= cap THEN 2 * cap ELSE cap

\* reqBuffSize after n bytes: doubled if the next read might not fit.
Grown(n) == IF n + BUFSIZE > cap THEN 2 * cap ELSE cap

Read ==
  /\ pc = "read" /\ grace > 0 /\ Available > 0
  /\ LET n == IF Available < BUFSIZE THEN Available ELSE BUFSIZE IN
       /\ taken' = taken + n
       /\ cap' = Grown(taken + n)
  /\ UNCHANGED <<client, pc, grace, request>>

\* Mutant: polling does not stop by itself.
PollOn ==
  /\ pc = "read" /\ Available = 0 /\ ~hungUp
  /\ grace' = grace - 1
  /\ UNCHANGED <<client, pc, taken, cap, request>>

\* A poll that finds nothing.
Poll ==
  /\ pc = "read" /\ grace > 0 /\ Available = 0 /\ ~hungUp
  /\ grace' = grace - 1
  /\ UNCHANGED <<client, pc, taken, cap, request>>

\* The client resets the connection after the peek, or realloc() fails.
ReadFails ==
  /\ pc = "read" /\ grace > 0 /\ Available > 0
  /\ pc' = "failed"
  /\ UNCHANGED <<client, taken, cap, grace, request>>

ReadDone ==
  /\ pc = "read"
  /\ grace = 0 \/ (Available = 0 /\ hungUp)
  /\ pc' = "parse"
  /\ UNCHANGED <<client, taken, cap, grace, request>>

-----------------------------------------------------------------------------
(* parseRequest() *)

TooShort ==
  /\ pc = "parse" /\ taken <= Shortest
  /\ pc' = "bad"
  /\ UNCHANGED <<client, taken, cap, grace, request>>

\* Mutant: what strsep() cut off at the first newline of the body stays cut off.
EndedNotPutBack(s, body) ==
  LET i == SelectInSeq(body, LAMBDA b : b \in req.newlines)
  IN  {IF i = 0 THEN s ELSE SubSeq(s, 1, req.headers + i - 1)}

\* A newline ends the string, over its NUL, or is put back over the first newline
\* of the body.
Ended(s, body) ==
  IF \E i \in DOMAIN body : body[i] \in req.newlines
  THEN {s}
  ELSE {Text(IF Len(s) = taken THEN Append(s, Foreign)
             ELSE [Bytes(taken) EXCEPT ![Len(s) + 1] = Foreign])}

\* When the headers were cut the last line gets a colon and newlines.
Completed(s) == {s \o [i \in 1 .. k |-> Foreign] : k \in 1 .. 3}

\* The string after parsing.  A body that begins with a newline is dropped.
Reassembled(s) ==
  LET body == SubSeq(s, req.headers + 1, Len(s)) IN
  CASE Len(s) < req.headers -> Completed(s)
    [] Len(s) = req.headers -> {s}
    [] Len(s) > req.headers /\ Head(body) \in req.newlines -> {SubSeq(s, 1, req.headers)}
    [] OTHER -> Ended(s, body)

\* The Host line was read.  Without it the name is a part of it or a pointer
\* that was never set.
HostKnown == req.host # 0 /\ taken >= req.host

Parse ==
  /\ pc = "parse" /\ taken > Shortest
  /\ request' \in Reassembled(Text(Bytes(taken)))
  /\ pc' \in {"handle"} \cup (IF HostKnown THEN {} ELSE {"undefined"})
  /\ UNCHANGED <<client, taken, cap, grace>>

-----------------------------------------------------------------------------
(* The client *)

Arrive ==
  /\ ~hungUp /\ arrived < req.bytes
  /\ arrived' = arrived + 1
  /\ UNCHANGED <<req, hungUp, pc, taken, cap, grace, request>>

HangUp ==
  /\ ~hungUp
  /\ hungUp' = TRUE
  /\ UNCHANGED <<req, arrived, pc, taken, cap, grace, request>>

ClientStep == Arrive \/ HangUp
ReadStep == Read \/ Poll \/ ReadDone \/ TooShort \/ Parse

-----------------------------------------------------------------------------
(* What holds *)

\* There is always room for one more read, and for what parseRequest() adds to
\* the string: doubling once is enough, whatever the client sends.
RequestFits ==
  /\ pc = "read" => taken + BUFSIZE <= cap
  /\ Len(request) <= cap

\* What is passed on is what the client sent, byte for byte from its beginning;
\* a Foreign newline only follows it or takes the place of a NUL.  If the request
\* was read to its end it is all there, unless it has a NUL or its body begins
\* with a newline.
Sent == IF req.connect THEN req.headers ELSE req.bytes
RequestPassedOn ==
  pc = "handle" =>
    /\ \A i \in DOMAIN request :
         request[i] = i \/ (request[i] = Foreign /\ (i > taken \/ i \in req.zeros))
    /\ taken >= Sent /\ req.zeros = {} /\ req.headers + 1 \notin req.newlines
         => Len(request) >= Sent
=============================================================================
