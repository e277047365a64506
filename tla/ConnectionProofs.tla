-------------------------- MODULE ConnectionProofs --------------------------
(***************************************************************************)
(* Theorems about one connection, for every request, size of the buffer,   *)
(* number of polls and amount of data, and every way in which bytes arrive *)
(* and are written.                                                        *)
(*                                                                         *)
(* The first part is about the string that parseRequest() leaves: it is    *)
(* Faithful to what was read.  For the tunnel every step is shown to be of *)
(* one of a few kinds for each direction (UpKinds, DownKinds), and each    *)
(* kind to keep the invariant of the direction (UpFlow, DownFlow).  The    *)
(* last part is about the descriptor of the origin's connection, and about *)
(* what ThreadFreed says of single states and steps: the thread can always *)
(* go on, and each of its steps brings the end nearer.                     *)
(***************************************************************************)
EXTENDS Connection, SequenceLemmas

\* The bytes m + 1 .. n, as a sequence.
LEMMA StreamSeq ==
  ASSUME NEW m \in Nat, NEW n \in Nat, m <= n
  PROVE  /\ Stream(m, n) \in Seq(Nat)
         /\ Len(Stream(m, n)) = n - m
         /\ \A i \in 1 .. n - m : Stream(m, n)[i] = m + i
  BY DEF Stream

\* A string is a beginning of the buffer, and what follows it there is a NUL.
LEMMA TextPrefix ==
  ASSUME NEW s \in Seq(Nat)
  PROVE  \E n \in 0 .. Len(s) : /\ Text(s) = SubSeq(s, 1, n)
                                /\ n < Len(s) => s[n + 1] \in req.zeros
<1> DEFINE I == {i \in 1 .. Len(s) : s[i] \in req.zeros}
<1>1. Text(s) = IF (IF I # {} THEN Min(I) ELSE 0) = 0 THEN s
                ELSE SubSeq(s, 1, (IF I # {} THEN Min(I) ELSE 0) - 1)
  BY DEF Text, SelectInSeq
<1>2. CASE I = {}
  <2>1. Text(s) = SubSeq(s, 1, Len(s))
    BY <1>1, <1>2, SubSeqFull
  <2> QED
    BY <2>1
<1>3. CASE I # {}
  <2>1. PICK k \in I : k = Min(I)
    <3>1. I \subseteq Nat
      OBVIOUS
    <3> QED
      BY <1>3, <3>1, MinIsMember
  <2>2. k \in 1 .. Len(s) /\ s[k] \in req.zeros
    OBVIOUS
  <2>3. Text(s) = SubSeq(s, 1, k - 1)
    <3> HIDE DEF I
    <3> QED
      BY <1>1, <1>3, <2>1, <2>2
  <2> QED
    BY <2>2, <2>3
<1> QED
  BY <1>2, <1>3

\* The first n bytes of the client, as a sequence.
LEMMA BytesSeq ==
  ASSUME NEW n \in Nat
  PROVE  Bytes(n) \in Seq(Nat) /\ Len(Bytes(n)) = n /\ \A i \in 1 .. n : Bytes(n)[i] = i
  BY DEF Bytes

\* The type of a request.
LEMMA RequestFields ==
  ASSUME req \in Requests
  PROVE  /\ req.connect \in BOOLEAN /\ req.bytes \in Nat /\ req.headers \in Nat /\ req.host \in Nat
         /\ req.zeros \subseteq Nat /\ req.newlines \subseteq Nat
         /\ req.host <= req.headers /\ req.headers <= req.bytes
         /\ \A i \in req.zeros : i > req.headers
  BY RequestAssumption DEF RequestType

\* The string s is a part of the request's beginning, with newlines after it or
\* over its NULs, and if the request was read to its end it is whole.
Faithful(s) ==
  /\ s \in Seq(Nat) /\ Len(s) <= taken + 3
  /\ \A i \in 1 .. Len(s) : s[i] = i \/ (s[i] = Foreign /\ (i > taken \/ i \in req.zeros))
  /\ taken >= Sent /\ req.zeros = {} /\ req.headers + 1 \notin req.newlines => Len(s) >= Sent

\* A beginning of a faithful string is faithful if it is cut at a NUL.
LEMMA TextFaithful ==
  ASSUME taken \in Nat, NEW s, Faithful(s)
  PROVE  Faithful(Text(s))
<1>1. s \in Seq(Nat)
  BY DEF Faithful
<1>2. PICK n \in 0 .. Len(s) : Text(s) = SubSeq(s, 1, n) /\ (n < Len(s) => s[n + 1] \in req.zeros)
  BY <1>1, TextPrefix
<1>3. /\ SubSeq(s, 1, n) \in Seq(Nat) /\ Len(SubSeq(s, 1, n)) = n
      /\ \A i \in 1 .. n : SubSeq(s, 1, n)[i] = s[i]
  BY <1>1
<1> QED
  BY <1>1, <1>2, <1>3 DEF Faithful

\* Whatever parseRequest() makes of the buffer is faithful to what was read.
LEMMA ReassembledFaithful ==
  ASSUME req \in Requests, taken \in Nat, NEW r \in Reassembled(Text(Bytes(taken)))
  PROVE  Faithful(r)
<1> DEFINE s == Text(Bytes(taken))
<1> DEFINE body == SubSeq(s, req.headers + 1, Len(s))
<1>1. Bytes(taken) \in Seq(Nat) /\ Len(Bytes(taken)) = taken
      /\ \A i \in 1 .. taken : Bytes(taken)[i] = i
  BY BytesSeq
<1>2. PICK n \in 0 .. taken :
        s = SubSeq(Bytes(taken), 1, n) /\ (n < taken => n + 1 \in req.zeros)
  BY <1>1, TextPrefix
<1>3. s \in Seq(Nat) /\ Len(s) = n /\ \A i \in 1 .. n : s[i] = i
  BY <1>1, <1>2
<1> HIDE DEF s
<1>4. /\ req.headers \in Nat /\ req.bytes \in Nat /\ req.headers <= req.bytes
      /\ req.connect \in BOOLEAN /\ \A i \in req.zeros : i > req.headers
  BY RequestFields
<1>5. r \in Reassembled(s)
  BY DEF s
<1>6. CASE n < req.headers
  <2>1. Reassembled(s) = Completed(s)
    BY <1>3, <1>4, <1>6 DEF Reassembled
  <2>2. PICK k \in 1 .. 3 : r = s \o [i \in 1 .. k |-> Foreign]
    BY <1>5, <2>1 DEF Completed
  <2>3. n = taken
    BY <1>2, <1>4, <1>6
  <2>4. r \in Seq(Nat) /\ Len(r) = n + k
        /\ \A i \in 1 .. Len(r) : r[i] = IF i <= n THEN i ELSE Foreign
    <3> DEFINE e == [i \in 1 .. k |-> Foreign]
    <3>1. e \in Seq(Nat) /\ Len(e) = k /\ \A i \in 1 .. k : e[i] = Foreign
      BY DEF Foreign
    <3> HIDE DEF e
    <3>2. s \o e \in Seq(Nat) /\ Len(s \o e) = n + k
      BY <1>3, <3>1
    <3>3. \A i \in 1 .. n + k : (s \o e)[i] = IF i <= n THEN s[i] ELSE e[i - n]
      BY <1>3, <3>1
    <3>4. \A i \in 1 .. n + k : (s \o e)[i] = IF i <= n THEN i ELSE Foreign
      BY <1>3, <3>1, <3>3
    <3> QED
      BY <2>2, <3>2, <3>4 DEF e
  <2> QED
    BY <1>4, <1>6, <2>3, <2>4 DEF Faithful, Sent
<1>7. CASE n >= req.headers /\ r = s
  <2>1. req.zeros = {} => n = taken
    BY <1>2
  <2> QED
    BY <1>3, <1>4, <1>7, <2>1 DEF Faithful, Sent
<1>8. CASE n > req.headers /\ r = SubSeq(s, 1, req.headers) /\ req.headers + 1 \in req.newlines
  <2>1. r \in Seq(Nat) /\ Len(r) = req.headers /\ \A i \in 1 .. Len(r) : r[i] = i
    BY <1>3, <1>4, <1>8
  <2> QED
    BY <1>4, <1>8, <2>1 DEF Faithful
<1>9. CASE n >= req.headers /\ n = taken /\ r = Text(Append(s, Foreign))
  <2>1. Append(s, Foreign) \in Seq(Nat) /\ Len(Append(s, Foreign)) = n + 1
        /\ \A i \in 1 .. n + 1 : Append(s, Foreign)[i] = IF i <= n THEN i ELSE Foreign
    BY <1>3 DEF Foreign
  <2>2. Faithful(Append(s, Foreign))
    BY <1>4, <1>9, <2>1 DEF Faithful, Sent
  <2> QED
    BY <1>9, <2>2, TextFaithful
<1>10. CASE n < taken /\ r = Text([Bytes(taken) EXCEPT ![n + 1] = Foreign])
  <2> DEFINE t == [Bytes(taken) EXCEPT ![n + 1] = Foreign]
  <2>1. t \in Seq(Nat) /\ Len(t) = taken
        /\ \A i \in 1 .. taken : t[i] = IF i = n + 1 THEN Foreign ELSE i
    BY <1>1, <1>10, ExceptSeq DEF Foreign
  <2> HIDE DEF t
  <2>2. Faithful(t)
    BY <1>2, <1>4, <1>10, <2>1 DEF Faithful
  <2> QED
    BY <1>10, <2>2, TextFaithful DEF t
<1>11. CASE n = req.headers
  <2>1. Reassembled(s) = {s}
    BY <1>3, <1>4, <1>11 DEF Reassembled
  <2> QED
    BY <1>5, <1>7, <1>11, <2>1
<1>12. CASE n > req.headers
  <2>1. Head(body) = req.headers + 1
    BY <1>3, <1>4, <1>12
  <2>2. Reassembled(s) = IF req.headers + 1 \in req.newlines THEN {SubSeq(s, 1, req.headers)}
                         ELSE Ended(s, body)
    <3> HIDE DEF body
    <3> QED
      BY <1>3, <1>4, <1>12, <2>1 DEF Reassembled, body
  <2>3. \/ r = s
        \/ n = taken /\ r = Text(Append(s, Foreign))
        \/ n # taken /\ r = Text([Bytes(taken) EXCEPT ![n + 1] = Foreign])
        \/ r = SubSeq(s, 1, req.headers) /\ req.headers + 1 \in req.newlines
    <3> HIDE DEF body
    <3> QED
      BY <1>3, <1>5, <2>2 DEF Ended
  <2>4. n # taken => n < taken
    OBVIOUS
  <2> HIDE DEF body
  <2> QED
    BY <1>4, <1>7, <1>8, <1>9, <1>10, <1>12, <2>3, <2>4
<1> QED
  BY <1>4, <1>6, <1>11, <1>12

-----------------------------------------------------------------------------
(* Types *)

\* The initial state is well typed.
LEMMA TypeOKInit == Init => TypeOK
<1> SUFFICES ASSUME Init PROVE TypeOK
  OBVIOUS
<1>1. req \in Requests /\ req.bytes \in Nat
  BY RequestFields DEF Init, ReadInit
<1>2. /\ hungUp \in BOOLEAN /\ originClosed \in BOOLEAN /\ canWriteToServer \in BOOLEAN
      /\ short \in BOOLEAN
  BY DEF Init, ReadInit, TunnelInit
<1>3. /\ request \in Seq(Nat) /\ response \in Seq(Nat)
      /\ toServer \in Seq(Nat) /\ toClient \in Seq(Nat)
  BY DEF Init, ReadInit, TunnelInit
<1> QED
  BY <1>1, <1>2, <1>3, RequestAssumption, TunnelAssumption
     DEF Init, ReadInit, TunnelInit, TypeOK, PCs

\* What was written is a sequence of bytes again.
LEMMA WrittenSeq ==
  ASSUME NEW s \in Seq(Nat), NEW b \in Seq(Nat), NEW k \in 0 .. Len(b)
  PROVE  s \o SubSeq(b, 1, k) \in Seq(Nat)
  OBVIOUS

\* A read takes bytes that are there, as many as fit into the buffer.
LEMMA AmountBounds ==
  ASSUME NEW n \in Nat
  PROVE  Amount(n) \in Nat /\ Amount(n) <= n /\ Amount(n) <= BUFSIZE
  BY RequestAssumption DEF Amount

\* Reading from the client keeps the types, and advances in what has arrived.
LEMMA ReadClientType ==
  ASSUME TypeOK, NEW l, ReadClient(l)
  PROVE  /\ request' \in Seq(Nat) /\ Len(request') <= BUFSIZE
         /\ request' = Stream(taken, taken')
         /\ taken' \in taken .. arrived /\ canWriteToServer' = TRUE /\ pc' = l
         /\ ended' = ended
<1>1. arrived \in Nat /\ taken \in Nat /\ taken <= arrived
  BY RequestFields DEF TypeOK
<1>2. Amount(FromClient) \in Nat /\ Amount(FromClient) <= arrived - taken
      /\ Amount(FromClient) <= BUFSIZE
  BY <1>1, AmountBounds DEF FromClient, Available
<1>3. taken' = taken + Amount(FromClient) /\ request' = Stream(taken, taken')
  BY DEF ReadClient
<1>4. Stream(taken, taken') \in Seq(Nat) /\ Len(Stream(taken, taken')) = taken' - taken
  <2> DEFINE t == taken'
  <2>1. t \in Nat /\ taken <= t
    BY <1>1, <1>2, <1>3
  <2> HIDE DEF t
  <2>2. Stream(taken, t) \in Seq(Nat) /\ Len(Stream(taken, t)) = t - taken
    BY <1>1, <2>1, StreamSeq
  <2> QED
    BY <2>2 DEF t
<1> QED
  BY <1>1, <1>2, <1>3, <1>4, RequestAssumption DEF ReadClient

\* A step keeps every variable in its type.
LEMMA TypeOKStep == TypeOK /\ [Next]_vars => TypeOK'
<1> SUFFICES ASSUME TypeOK, [Next]_vars PROVE TypeOK'
  OBVIOUS
<1> USE DEF client, reading, remote, tunnel, written, descriptors
<1>0. /\ req \in Requests /\ req.bytes \in Nat /\ arrived \in 0 .. req.bytes
      /\ BUFSIZE \in Nat /\ Grace \in Nat /\ MaxReply \in Nat
  BY RequestFields, RequestAssumption, TunnelAssumption DEF TypeOK
<1>1. CASE Read /\ UNCHANGED <<remote, tunnel, descriptors>>
  BY <1>0, <1>1 DEF Read, Grown, Available, TypeOK
<1>2. CASE (Poll \/ ReadDone \/ TooShort \/ ReadFails) /\ UNCHANGED <<remote, tunnel, descriptors>>
  BY <1>0, <1>2 DEF Poll, ReadDone, TooShort, ReadFails, TypeOK, PCs
<1>3. CASE Parse /\ UNCHANGED <<remote, tunnel, descriptors>>
  <2>1. request' \in Seq(Nat)
    BY <1>0, <1>3, ReassembledFaithful DEF Parse, TypeOK, Faithful
  <2> QED
    BY <1>3, <2>1 DEF Parse, TypeOK, PCs
<1>4. CASE (Arrive \/ HangUp) /\ UNCHANGED <<remote, tunnel, descriptors>>
  <2>1. hungUp' \in BOOLEAN
    BY <1>4 DEF Arrive, HangUp, TypeOK
  <2>2. arrived' \in 0 .. req.bytes /\ arrived <= arrived'
    BY <1>0, <1>4 DEF Arrive, HangUp, TypeOK
  <2> QED
    BY <1>0, <1>4, <2>1, <2>2 DEF Arrive, HangUp, TypeOK
<1>5. CASE Acknowledge /\ UNCHANGED descriptors
  <2>1. <<Ack>> \in Seq(Nat)
    BY DEF Ack, Foreign
  <2>2. toClient' \in Seq(Nat) /\ short' \in BOOLEAN
    BY <1>5, <2>1, WrittenSeq DEF Acknowledge, Written, TypeOK
  <2> QED
    BY <1>0, <1>5, <2>2 DEF Acknowledge, TypeOK, PCs
<1>6. CASE (FirstRead \/ PeekClient) /\ UNCHANGED descriptors
  <2>1. CASE ReadClient("toServer")
    <3>1. /\ request' \in Seq(Nat) /\ taken' \in taken .. arrived
          /\ pc' = "toServer" /\ ended' = ended
      BY <2>1, ReadClientType
    <3>2. canWriteToServer' \in BOOLEAN
      BY <2>1, ReadClientType
    <3>3. UNCHANGED <<client, cap, grace, remote, fetched, first, response, written, descriptors>>
      BY <1>6 DEF FirstRead, PeekClient
    <3> QED
      BY <1>0, <3>1, <3>2, <3>3 DEF TypeOK, PCs
  <2>2. CASE PeekClient /\ ~ReadClient("toServer")
    <3>1. canWriteToServer' \in BOOLEAN
      BY <2>2 DEF PeekClient, End, NothingRead, TypeOK
    <3>2. pc' \in PCs /\ UNCHANGED <<taken, request>>
      BY <2>2 DEF PeekClient, End, NothingRead, PCs
    <3>3. ended' \in {"no", "client", "server", "error"}
      BY <2>2 DEF PeekClient, End, NothingRead, TypeOK
    <3> QED
      BY <1>0, <1>6, <2>2, <3>1, <3>2, <3>3 DEF PeekClient, TypeOK
  <2> QED
    BY <1>6, <2>1, <2>2 DEF FirstRead
<1>7. CASE WriteServer /\ UNCHANGED descriptors
  <2>1. toServer' \in Seq(Nat) /\ short' \in BOOLEAN
    BY <1>7, WrittenSeq DEF WriteServer, Written, TypeOK
  <2> QED
    BY <1>0, <1>7, <2>1 DEF WriteServer, End, TypeOK, PCs
<1>8. CASE PeekServer /\ UNCHANGED descriptors
  <2>1. FromServer \in Nat
    BY <1>0 DEF FromServer, TypeOK
  <2>2. Amount(FromServer) \in Nat /\ Amount(FromServer) <= FromServer
    BY <2>1, AmountBounds
  <2>3. fetched + Amount(FromServer) \in 0 .. replied /\ fetched \in Nat
    BY <1>0, <2>1, <2>2 DEF FromServer, TypeOK
  <2>4. Stream(fetched, fetched + Amount(FromServer)) \in Seq(Nat)
    BY <2>2, <2>3, StreamSeq
  <2> QED
    BY <1>0, <1>8, <2>3, <2>4 DEF PeekServer, End, TypeOK, PCs
<1>9. CASE WriteClient /\ UNCHANGED descriptors
  <2>1. toClient' \in Seq(Nat) /\ short' \in BOOLEAN
    BY <1>9, WrittenSeq DEF WriteClient, Written, TypeOK
  <2> QED
    BY <1>0, <1>9, <2>1 DEF WriteClient, End, TypeOK, PCs
<1>10. CASE Failed \/ Exit \/ LookUp \/ ConnectToServer \/ Respond
  <2>1. pc' \in PCs /\ closes' \in Nat /\ sockets' \in Nat
    BY <1>10 DEF Failed, Exit, LookUp, ConnectToServer, Respond, TypeOK, PCs
  <2>2. UNCHANGED <<client, reading, remote, tunnel>>
    BY <1>10 DEF Failed, Exit, LookUp, ConnectToServer, Respond
  <2> QED
    BY <2>1, <2>2 DEF TypeOK
<1>11. CASE SendRequest
  <2>1. toServer' \in Seq(Nat) /\ short' \in BOOLEAN
    BY <1>11 DEF SendRequest, TypeOK
  <2> QED
    BY <1>0, <1>11, <2>1 DEF SendRequest, TypeOK, PCs
<1>12. CASE (Reply \/ OriginCloses) /\ UNCHANGED descriptors
  <2>1. originClosed' \in BOOLEAN
    BY <1>12 DEF Reply, OriginCloses, TypeOK
  <2>2. replied' \in 0 .. MaxReply /\ replied <= replied'
    BY <1>0, <1>12 DEF Reply, OriginCloses, TypeOK
  <2>3. fetched \in 0 .. replied'
    BY <1>0, <2>2 DEF TypeOK
  <2>4. UNCHANGED <<client, reading, pc, tunnel, descriptors>>
    BY <1>12 DEF Reply, OriginCloses
  <2> QED
    BY <2>1, <2>2, <2>3, <2>4 DEF TypeOK
<1>13. CASE UNCHANGED vars
  BY <1>13 DEF vars, TypeOK
<1> QED
  BY <1>1, <1>2, <1>3, <1>4, <1>5, <1>6, <1>7, <1>8, <1>9, <1>10, <1>11, <1>12, <1>13
     DEF Next, Thread, Outside, ReadStep, TunnelStep

-----------------------------------------------------------------------------
(* The buffer, what is passed on, and the client's descriptor *)

\* The buffer never shrinks below the size that it began with, which is enough
\* for one read; and until the request is parsed it has room for one more.
Room ==
  /\ cap >= RESPONSE_HEADER_SIZE
  /\ pc = "parse" => taken + BUFSIZE <= cap
  /\ RequestFits

\* Doubling is enough: a read fills at most the room that was there, and twice
\* the size has BUFSIZE more.
LEMMA RoomStep == TypeOK /\ Room /\ [Next]_vars => Room'
<1> SUFFICES ASSUME TypeOK, Room, [Next]_vars PROVE Room'
  OBVIOUS
<1> USE DEF client, reading, remote, tunnel, written, descriptors, Room, RequestFits
<1>0. /\ BUFSIZE \in Nat /\ BUFSIZE >= 3 /\ RESPONSE_HEADER_SIZE \in Nat
      /\ RESPONSE_HEADER_SIZE >= BUFSIZE
      /\ req \in Requests /\ arrived \in Nat /\ taken \in Nat /\ cap \in Nat
      /\ Len(request) \in Nat
  BY RequestFields, RequestAssumption DEF TypeOK
<1>1. CASE Read
  BY <1>0, <1>1 DEF Read, Grown, Available
<1>2. CASE Parse
  <2>1. request' \in Seq(Nat) /\ Len(request') <= taken + 3
    BY <1>0, <1>2, ReassembledFaithful DEF Parse, Faithful
  <2> QED
    BY <1>0, <1>2, <2>1 DEF Parse
<1>3. CASE ReadClient("toServer") /\ cap' = cap
  <2>1. Len(request') <= BUFSIZE /\ request' \in Seq(Nat) /\ pc' = "toServer"
    BY <1>3, ReadClientType
  <2> QED
    BY <1>0, <1>3, <2>1
<1>4. CASE /\ pc' \in {"read", "parse"} => pc \in {"read", "parse"}
           /\ UNCHANGED <<cap, request, taken>>
  BY <1>0, <1>4
<1>5. CASE Poll \/ ReadDone \/ TooShort \/ ReadFails \/ Arrive \/ HangUp
  BY <1>4, <1>5 DEF Poll, ReadDone, TooShort, ReadFails, Arrive, HangUp
<1>6. CASE TunnelStep
  BY <1>3, <1>4, <1>6
     DEF TunnelStep, Acknowledge, FirstRead, WriteServer, PeekServer, WriteClient, PeekClient,
         End, NothingRead
<1>7. CASE Failed \/ Exit \/ LookUp \/ ConnectToServer \/ SendRequest \/ Respond
  BY <1>4, <1>7 DEF Failed, Exit, LookUp, ConnectToServer, SendRequest, Respond
<1>8. CASE Reply \/ OriginCloses \/ UNCHANGED vars
  BY <1>0, <1>8 DEF Reply, OriginCloses, Tunnelling, vars
<1> QED
  BY <1>1, <1>2, <1>5, <1>6, <1>7, <1>8 DEF Next, Thread, Outside, ReadStep

\* Between parseRequest() and cacheable() nobody touches the string.
LEMMA PassedOnStep == TypeOK /\ RequestPassedOn /\ [Next]_vars => RequestPassedOn'
<1> SUFFICES ASSUME TypeOK, RequestPassedOn, [Next]_vars, pc' = "handle"
             PROVE  RequestPassedOn'
  BY DEF RequestPassedOn
<1> USE DEF client, reading, remote, tunnel, written, descriptors
<1>1. CASE Parse
  <2>1. req' = req /\ taken' = taken
    BY <1>1 DEF Parse
  <2>2. Faithful(request')
    BY <1>1, RequestFields, ReassembledFaithful DEF Parse, TypeOK
  <2> QED
    BY <2>1, <2>2 DEF Faithful, RequestPassedOn, Sent
<1>2. CASE pc = "handle" /\ UNCHANGED <<req, taken, request>>
  BY <1>2 DEF RequestPassedOn, Sent
<1>3. CASE Arrive \/ HangUp \/ UNCHANGED vars
  BY <1>2, <1>3 DEF Arrive, HangUp, vars
<1> QED
  BY <1>1, <1>3
     DEF Next, Thread, Outside, ReadStep, TunnelStep, Read, Poll, ReadDone, TooShort, ReadFails,
         Acknowledge, FirstRead, WriteServer, PeekServer, WriteClient, PeekClient, ReadClient,
         End, NothingRead, Failed, Exit, LookUp, ConnectToServer, SendRequest, Respond, Reply,
         OriginCloses, Tunnelling

\* Only Failed and Exit close the descriptor, and nothing follows them.
LEMMA ClosedStep == ClosedOnce /\ [Next]_vars => ClosedOnce'
<1> SUFFICES ASSUME ClosedOnce, [Next]_vars PROVE ClosedOnce'
  OBVIOUS
<1> USE DEF client, reading, remote, tunnel, written, descriptors, ClosedOnce
<1>1. CASE Failed \/ Exit
  BY <1>1 DEF Failed, Exit
<1>2. CASE closes' = closes /\ pc # "done" /\ pc' # "done"
  BY <1>2
<1>3. CASE closes' = closes /\ pc' = pc
  BY <1>3
<1>4. CASE (ReadStep \/ ReadFails) /\ UNCHANGED descriptors
  BY <1>2, <1>4 DEF ReadStep, Read, Poll, ReadDone, TooShort, ReadFails, Parse
<1>5. CASE TunnelStep /\ UNCHANGED descriptors
  BY <1>2, <1>5
     DEF TunnelStep, Acknowledge, FirstRead, WriteServer, PeekServer, WriteClient, PeekClient,
         ReadClient, End, NothingRead
<1>6. CASE LookUp \/ ConnectToServer \/ SendRequest \/ Respond
  BY <1>2, <1>6 DEF LookUp, ConnectToServer, SendRequest, Respond
<1>7. CASE (Arrive \/ HangUp \/ Reply \/ OriginCloses) /\ UNCHANGED descriptors
  BY <1>3, <1>7 DEF Arrive, HangUp, Reply, OriginCloses
<1>8. CASE UNCHANGED vars
  BY <1>3, <1>8 DEF vars
<1> QED
  BY <1>1, <1>4, <1>5, <1>6, <1>7, <1>8 DEF Next, Thread, Outside

-----------------------------------------------------------------------------
(* The tunnel: lemmas about what is read and written *)

\* A concatenation, index by index.
LEMMA Concat ==
  ASSUME NEW s \in Seq(Nat), NEW t \in Seq(Nat)
  PROVE  /\ s \o t \in Seq(Nat) /\ Len(s \o t) = Len(s) + Len(t)
         /\ \A i \in 1 .. Len(s) : (s \o t)[i] = s[i]
         /\ \A i \in 1 .. Len(t) : (s \o t)[Len(s) + i] = t[i]
<1>1. s \o t \in Seq(Nat) /\ Len(s \o t) = Len(s) + Len(t)
  OBVIOUS
<1>2. \A i \in 1 .. Len(s) : (s \o t)[i] = s[i]
  OBVIOUS
<1>3. ASSUME NEW i \in 1 .. Len(t) PROVE (s \o t)[Len(s) + i] = t[i]
  OBVIOUS
<1> QED
  BY <1>1, <1>2, <1>3

\* A beginning of a sequence, and the concatenation of two, index by index.
LEMMA Pieces ==
  ASSUME NEW s \in Seq(Nat), NEW b \in Seq(Nat), NEW k \in 0 .. Len(b)
  PROVE  LET t == s \o SubSeq(b, 1, k) IN
         /\ t \in Seq(Nat) /\ Len(t) = Len(s) + k
         /\ \A i \in 1 .. Len(t) : t[i] = (s \o b)[i]
<1> DEFINE c == SubSeq(b, 1, k)
<1>1. c \in Seq(Nat) /\ Len(c) = k /\ \A i \in 1 .. k : c[i] = b[i]
  OBVIOUS
<1> HIDE DEF c
<1>2. s \o c \in Seq(Nat) /\ Len(s \o c) = Len(s) + k
  BY <1>1, Concat
<1>3. ASSUME NEW i \in 1 .. Len(s \o c) PROVE (s \o c)[i] = (s \o b)[i]
  <2>1. CASE i <= Len(s)
    <3>1. i \in 1 .. Len(s)
      BY <2>1
    <3> QED
      BY <1>1, <3>1, Concat
  <2>2. CASE i > Len(s)
    <3>1. PICK j \in 1 .. k : i = Len(s) + j
      <4>1. i - Len(s) \in 1 .. k /\ i = Len(s) + (i - Len(s))
        BY <1>2, <2>2
      <4> QED
        BY <4>1
    <3>2. (s \o c)[Len(s) + j] = c[j]
      BY <1>1, Concat
    <3>3. (s \o b)[Len(s) + j] = b[j]
      <4>1. j \in 1 .. Len(b)
        OBVIOUS
      <4> QED
        BY <4>1, Concat
    <3> QED
      BY <1>1, <3>1, <3>2, <3>3
  <2> QED
    BY <1>2, <2>1, <2>2
<1> QED
  BY <1>2, <1>3 DEF c

\* Adjacent parts of a stream.
LEMMA StreamConcat ==
  ASSUME NEW l \in Nat, NEW m \in Nat, NEW n \in Nat, l <= m, m <= n
  PROVE  Stream(l, m) \o Stream(m, n) = Stream(l, n)
<1> DEFINE s == Stream(l, m)
<1> DEFINE t == Stream(m, n)
<1> DEFINE u == Stream(l, n)
<1>1. s \in Seq(Nat) /\ Len(s) = m - l /\ \A i \in 1 .. m - l : s[i] = l + i
  BY StreamSeq
<1>2. t \in Seq(Nat) /\ Len(t) = n - m /\ \A i \in 1 .. n - m : t[i] = m + i
  BY StreamSeq
<1>3. u \in Seq(Nat) /\ Len(u) = n - l /\ \A i \in 1 .. n - l : u[i] = l + i
  BY StreamSeq
<1> HIDE DEF s, t, u
<1>4. s \o t \in Seq(Nat) /\ Len(s \o t) = Len(s) + Len(t)
  BY <1>1, <1>2, Concat
<1>5. ASSUME NEW i \in 1 .. Len(s \o t) PROVE (s \o t)[i] = u[i]
  <2>1. CASE i <= Len(s)
    <3>1. i \in 1 .. Len(s) /\ i \in 1 .. n - l
      BY <1>1, <1>2, <1>4, <2>1
    <3>2. (s \o t)[i] = s[i]
      BY <1>1, <1>2, <3>1, Concat
    <3> QED
      BY <1>1, <1>3, <3>1, <3>2
  <2>2. CASE i > Len(s)
    <3>1. PICK j \in 1 .. Len(t) : i = Len(s) + j
      <4>1. i - Len(s) \in 1 .. Len(t) /\ i = Len(s) + (i - Len(s))
        BY <1>1, <1>2, <1>4, <2>2
      <4> QED
        BY <4>1
    <3>2. (s \o t)[Len(s) + j] = t[j]
      BY <1>1, <1>2, Concat
    <3>3. i \in 1 .. n - l
      BY <1>1, <1>2, <1>4
    <3> QED
      BY <1>1, <1>2, <1>3, <3>1, <3>2, <3>3
  <2> QED
    BY <1>1, <1>4, <2>1, <2>2
<1>6. Len(s \o t) = Len(u)
  BY <1>1, <1>2, <1>3, <1>4
<1>7. s \o t = u
  BY <1>3, <1>4, <1>5, <1>6, SeqEqual
<1> QED
  BY <1>7 DEF s, t, u

\* In order, and nothing beyond the byte n.
Ascending(s, n) == Increasing(s) /\ \A i \in DOMAIN s : s[i] <= n

\* What has been read next comes after what was there.
LEMMA AscendingRead ==
  ASSUME NEW s \in Seq(Nat), NEW m \in Nat, NEW n \in Nat, m <= n, Ascending(s, m)
  PROVE  Ascending(s \o Stream(m, n), n)
<1> DEFINE t == Stream(m, n)
<1>1. t \in Seq(Nat) /\ Len(t) = n - m /\ \A i \in 1 .. n - m : t[i] = m + i
  BY StreamSeq
<1> HIDE DEF t
<1>2. s \o t \in Seq(Nat) /\ Len(s \o t) = Len(s) + Len(t)
  BY <1>1, Concat
<1>3. ASSUME NEW i \in 1 .. Len(s \o t)
      PROVE  \/ i \in 1 .. Len(s) /\ (s \o t)[i] = s[i] /\ s[i] <= m /\ s[i] \in Nat
             \/ i > Len(s) /\ (s \o t)[i] = m + (i - Len(s)) /\ i - Len(s) \in 1 .. n - m
  <2>1. CASE i <= Len(s)
    <3>1. i \in 1 .. Len(s)
      BY <2>1
    <3>2. (s \o t)[i] = s[i]
      BY <1>1, <3>1, Concat
    <3> QED
      BY <3>1, <3>2 DEF Ascending
  <2>2. CASE i > Len(s)
    <3>1. PICK j \in 1 .. Len(t) : i = Len(s) + j
      <4>1. i - Len(s) \in 1 .. Len(t) /\ i = Len(s) + (i - Len(s))
        BY <1>1, <1>2, <2>2
      <4> QED
        BY <4>1
    <3>2. (s \o t)[Len(s) + j] = t[j]
      BY <1>1, Concat
    <3> QED
      BY <1>1, <2>2, <3>1, <3>2
  <2> QED
    BY <1>2, <2>1, <2>2
<1>4. ASSUME NEW i \in 1 .. Len(s \o t) PROVE (s \o t)[i] <= n
  BY <1>3
<1>5. ASSUME NEW i \in 1 .. Len(s \o t), NEW j \in 1 .. Len(s \o t), i < j
      PROVE  (s \o t)[i] < (s \o t)[j]
  <2>1. CASE i \in 1 .. Len(s) /\ j \in 1 .. Len(s)
    <3>1. (s \o t)[i] = s[i] /\ (s \o t)[j] = s[j]
      BY <1>3, <2>1
    <3> QED
      BY <1>5, <2>1, <3>1 DEF Ascending, Increasing
  <2>2. CASE ~(i \in 1 .. Len(s) /\ j \in 1 .. Len(s))
    <3>1. (s \o t)[j] = m + (j - Len(s)) /\ j - Len(s) \in 1 .. n - m
      BY <1>2, <1>3, <1>5, <2>2
    <3>2. CASE i \in 1 .. Len(s)
      <4>1. (s \o t)[i] <= m /\ (s \o t)[i] \in Nat
        BY <1>3, <3>2
      <4> QED
        BY <3>1, <4>1
    <3>3. CASE i \notin 1 .. Len(s)
      <4>1. (s \o t)[i] = m + (i - Len(s))
        BY <1>3, <3>3
      <4> QED
        BY <1>5, <3>1, <4>1
    <3> QED
      BY <3>2, <3>3
  <2> QED
    BY <2>1, <2>2
<1>6. DOMAIN (s \o t) = 1 .. Len(s \o t)
  BY <1>2
<1> QED
  BY <1>4, <1>5, <1>6 DEF Ascending, Increasing, t

\* What was written is in order if what was to be written is.
LEMMA AscendingWritten ==
  ASSUME NEW s \in Seq(Nat), NEW b \in Seq(Nat), NEW k \in 0 .. Len(b), NEW n \in Nat,
         Ascending(s \o b, n)
  PROVE  Ascending(s \o SubSeq(b, 1, k), n)
<1> DEFINE t == s \o SubSeq(b, 1, k)
<1> DEFINE u == s \o b
<1>1. /\ t \in Seq(Nat) /\ Len(t) = Len(s) + k /\ \A i \in 1 .. Len(t) : t[i] = u[i]
      /\ u \in Seq(Nat) /\ Len(u) = Len(s) + Len(b)
  BY Pieces, Concat
<1>2. Ascending(u, n)
  OBVIOUS
<1> HIDE DEF t, u
<1>3. DOMAIN t = 1 .. Len(t) /\ DOMAIN u = 1 .. Len(u) /\ Len(t) <= Len(u)
  BY <1>1
<1>4. ASSUME NEW i \in 1 .. Len(t) PROVE t[i] <= n
  <2>1. i \in DOMAIN u /\ t[i] = u[i]
    BY <1>1, <1>3
  <2> QED
    BY <1>2, <2>1 DEF Ascending
<1>5. ASSUME NEW i \in 1 .. Len(t), NEW j \in 1 .. Len(t), i < j PROVE t[i] < t[j]
  <2>1. i \in DOMAIN u /\ j \in DOMAIN u
    BY <1>1, <1>3
  <2>2. t[i] = u[i] /\ t[j] = u[j]
    BY <1>1
  <2> QED
    BY <1>2, <1>5, <2>1, <2>2 DEF Ascending, Increasing
<1>6. Ascending(t, n)
  BY <1>3, <1>4, <1>5 DEF Ascending, Increasing
<1> QED
  BY <1>6 DEF t

-----------------------------------------------------------------------------
(* The tunnel: what a step can do to each direction *)

FreshPcs == {"read", "parse", "handle", "connect", "revalidate", "send", "ack"}
RelayPcs == {"first", "toServer", "peekServer", "toClient", "peekClient"}

\* Before the tunnel nothing was written, and no CONNECT request is passed on; and
\* only a thread on its way out has seen the tunnel end.
Fresh ==
  /\ pc \in FreshPcs => toServer = <<>> /\ toClient = <<>> /\ fetched = 0
  /\ req.connect => pc # "send"
  /\ ended # "no" => pc \in {"exit", "done"}

\* A write that was short stays so, and the relay starts with "ack" only.
NoShorter == (~short' => ~short) /\ (pc' \in RelayPcs => pc \in RelayPcs)

\* Nothing happens in a direction.
UpKept == UNCHANGED <<req, first, taken, toServer>> /\ Upstream' = Upstream /\ NoShorter
DownKept == UNCHANGED <<req, fetched, toClient>> /\ Downstream' = Downstream /\ NoShorter

\* A write takes some of what was read, and the rest is dropped.
UpWritten ==
  /\ UNCHANGED <<req, first, taken>> /\ Upstream' = <<>> /\ NoShorter
  /\ \E k \in 0 .. Len(Upstream) : /\ toServer' = toServer \o SubSeq(Upstream, 1, k)
                                   /\ ~short' => k = Len(Upstream)
DownWritten ==
  /\ UNCHANGED <<req, fetched>> /\ Downstream' = <<>> /\ NoShorter
  /\ \E k \in 0 .. Len(Downstream) : /\ toClient' = toClient \o SubSeq(Downstream, 1, k)
                                     /\ ~short' => k = Len(Downstream)

\* A read takes the next bytes, when there is nothing left to write.
UpRead ==
  /\ UNCHANGED <<req, first, toServer>> /\ Upstream = <<>> /\ NoShorter
  /\ taken <= taken' /\ Upstream' = Stream(taken, taken')
DownRead ==
  /\ UNCHANGED <<req, toClient>> /\ Downstream = <<>> /\ NoShorter
  /\ fetched <= fetched' /\ Downstream' = Stream(fetched, fetched')

\* The request is read, or the tunnel starts.
UpFresh ==
  /\ req' = req /\ toServer' = <<>> /\ Upstream' = <<>>
  /\ pc' \in RelayPcs => first' = taken'
DownFresh ==
  /\ req' = req /\ fetched' = 0 /\ Downstream' = <<>> /\ toClient' \in {<<>>, <<Ack>>}
  /\ pc' \in RelayPcs /\ ~short' => toClient' = <<Ack>>

\* The request is passed on: not a CONNECT.
UpSent == req' = req /\ ~req.connect /\ pc' \notin RelayPcs

\* Fresh is kept.
LEMMA FreshStep == Fresh /\ [Next]_vars => Fresh'
<1> SUFFICES ASSUME Fresh, [Next]_vars PROVE Fresh'
  OBVIOUS
<1> USE DEF client, reading, remote, tunnel, written, descriptors, Fresh, FreshPcs
<1>1. CASE Read /\ UNCHANGED <<remote, tunnel, descriptors>>
  BY <1>1 DEF Read
<1>2. CASE (Poll \/ ReadDone \/ TooShort \/ ReadFails \/ Parse) /\ UNCHANGED <<remote, tunnel, descriptors>>
  BY <1>2 DEF Poll, ReadDone, TooShort, ReadFails, Parse
<1>3. CASE Acknowledge \/ FirstRead \/ WriteServer
  BY <1>3 DEF Acknowledge, FirstRead, ReadClient, WriteServer, End
<1>4. CASE PeekServer \/ WriteClient \/ PeekClient
  BY <1>4 DEF PeekServer, WriteClient, PeekClient, ReadClient, NothingRead, End
<1>5. CASE Failed \/ Exit \/ LookUp \/ Respond
  BY <1>5 DEF Failed, Exit, LookUp, Respond
<1>6. CASE ConnectToServer
  BY <1>6 DEF ConnectToServer
<1>7. CASE SendRequest
  BY <1>7 DEF SendRequest
<1>8. CASE (Arrive \/ HangUp) /\ UNCHANGED <<remote, tunnel, descriptors>>
  BY <1>8 DEF Arrive, HangUp
<1>9. CASE Reply \/ OriginCloses \/ UNCHANGED vars
  BY <1>9 DEF Reply, OriginCloses, vars
<1> QED
  BY <1>1, <1>2, <1>3, <1>4, <1>5, <1>6, <1>7, <1>8, <1>9
     DEF Next, Thread, Outside, ReadStep, TunnelStep

\* A write that was not short wrote everything.
LEMMA WrittenAll ==
  ASSUME NEW n \in Nat, NEW k \in 0 .. n, short' = (short \/ k < n)
  PROVE  (~short' => ~short) /\ (~short' => k = n)
<1>1. ~short' => ~short /\ ~(k < n)
  BY Zenon
<1>2. ~(k < n) => k = n
  OBVIOUS
<1> QED
  BY <1>1, <1>2, Zenon

\* Every step is of one of these kinds for the client's bytes.
LEMMA UpKinds ==
  ASSUME TypeOK, Fresh, [Next]_vars
  PROVE  UpKept \/ UpWritten \/ UpRead \/ UpFresh \/ UpSent
<1> USE DEF client, reading, remote, tunnel, written, descriptors, NoShorter, RelayPcs
<1>1. CASE Read /\ UNCHANGED <<remote, tunnel, descriptors>>
  BY <1>1 DEF Read, UpFresh, Fresh, FreshPcs, Upstream
<1>2. CASE (Poll \/ ReadDone \/ TooShort \/ ReadFails \/ Parse) /\ UNCHANGED <<remote, tunnel, descriptors>>
  BY <1>2 DEF Poll, ReadDone, TooShort, ReadFails, Parse, UpKept, Upstream
<1>3. CASE Acknowledge
  BY <1>3 DEF Acknowledge, UpFresh, Fresh, FreshPcs, Upstream
<1>4. CASE ReadClient("toServer") /\ (FirstRead \/ PeekClient)
  <2>1. taken' \in taken .. arrived /\ request' = Stream(taken, taken')
        /\ canWriteToServer' = TRUE /\ pc' = "toServer"
    BY <1>4, ReadClientType
  <2>2. taken <= taken'
    BY <2>1 DEF TypeOK
  <2>3. Upstream = <<>> /\ Upstream' = request' /\ UNCHANGED <<req, first, toServer, short>>
        /\ pc \in RelayPcs
    BY <1>4, <2>1 DEF FirstRead, PeekClient, Upstream
  <2> QED
    BY <2>1, <2>2, <2>3 DEF UpRead
<1>5. CASE FirstRead
  BY <1>4, <1>5 DEF FirstRead
<1>6. CASE PeekClient
  BY <1>4, <1>6 DEF PeekClient, End, NothingRead, UpKept, Upstream
<1>7. CASE WriteServer
  <2>1. CASE ~canWriteToServer
    BY <1>7, <2>1 DEF WriteServer, UpKept, Upstream
  <2>2. CASE canWriteToServer /\ Written(toServer, request) /\ pc' = "peekServer"
    <3>1. PICK k \in 0 .. Len(request) :
              toServer' = toServer \o SubSeq(request, 1, k) /\ short' = (short \/ k < Len(request))
      BY <2>2 DEF Written
    <3>2. (~short' => ~short) /\ (~short' => k = Len(request))
      <4>1. Len(request) \in Nat
        BY DEF TypeOK
      <4> QED
        BY <3>1, <4>1, WrittenAll, Zenon
    <3>3. Upstream = request /\ Upstream' = <<>> /\ pc' \in RelayPcs /\ pc \in RelayPcs
      BY <1>7, <2>2 DEF WriteServer, Upstream
    <3>4. UNCHANGED <<req, first, taken>>
      BY <1>7 DEF WriteServer
    <3> QED
      BY <3>1, <3>2, <3>3, <3>4 DEF UpWritten
  <2>3. CASE canWriteToServer /\ End("error") /\ short' = TRUE /\ UNCHANGED toServer
    <3>1. toServer' = toServer \o SubSeq(Upstream, 1, 0)
      BY <2>3 DEF TypeOK
    <3>2. 0 \in 0 .. Len(Upstream)
      BY DEF TypeOK, Upstream
    <3> QED
      BY <1>7, <2>3, <3>1, <3>2 DEF WriteServer, End, UpWritten, Upstream
  <2> QED
    BY <1>7, <2>1, <2>2, <2>3 DEF WriteServer
<1>8. CASE PeekServer
  BY <1>8 DEF PeekServer, End, UpKept, Upstream
<1>9. CASE WriteClient
  BY <1>9 DEF WriteClient, Written, End, UpKept, Upstream
<1>10. CASE Failed \/ Exit \/ LookUp \/ Respond \/ ConnectToServer
  BY <1>10 DEF Failed, Exit, LookUp, Respond, ConnectToServer, UpKept, Upstream
<1>11. CASE SendRequest
  BY <1>11 DEF SendRequest, UpSent, Fresh
<1>12. CASE (Arrive \/ HangUp) /\ UNCHANGED <<remote, tunnel, descriptors>>
  BY <1>12 DEF Arrive, HangUp, UpKept, Upstream
<1>13. CASE Reply \/ OriginCloses \/ UNCHANGED vars
  BY <1>13 DEF Reply, OriginCloses, vars, UpKept, Upstream
<1> QED
  BY <1>1, <1>2, <1>3, <1>5, <1>6, <1>7, <1>8, <1>9, <1>10, <1>11, <1>12, <1>13
     DEF Next, Thread, Outside, ReadStep, TunnelStep

\* And for the origin's bytes.
LEMMA DownKinds ==
  ASSUME TypeOK, Fresh, [Next]_vars
  PROVE  DownKept \/ DownWritten \/ DownRead \/ DownFresh
<1> USE DEF client, reading, remote, tunnel, written, descriptors, NoShorter, RelayPcs
<1>1. CASE (ReadStep \/ ReadFails) /\ UNCHANGED <<remote, tunnel, descriptors>>
  BY <1>1 DEF ReadStep, Read, Poll, ReadDone, TooShort, ReadFails, Parse, DownKept, Downstream
<1>2. CASE Acknowledge
  <2>1. PICK k \in 0 .. 1 : toClient' = toClient \o SubSeq(<<Ack>>, 1, k) /\ short' = (short \/ k < 1)
    BY <1>2 DEF Acknowledge, Written
  <2>2. toClient = <<>> /\ fetched' = 0 /\ req' = req /\ pc' = "first"
    BY <1>2 DEF Acknowledge, Fresh, FreshPcs
  <2>3. toClient' = IF k = 1 THEN <<Ack>> ELSE <<>>
    BY <2>1, <2>2 DEF Ack, Foreign
  <2>4. ~short' => k = 1
    BY <2>1, WrittenAll
  <2> QED
    BY <2>2, <2>3, <2>4 DEF DownFresh, Downstream
<1>3. CASE FirstRead \/ PeekClient
  BY <1>3 DEF FirstRead, PeekClient, ReadClient, End, NothingRead, DownKept, Downstream
<1>4. CASE WriteServer
  BY <1>4 DEF WriteServer, Written, End, DownKept, Downstream
<1>5. CASE PeekServer
  <2>1. CASE FromServer > 0
    <3>1. FromServer \in Nat /\ fetched \in Nat
      BY TunnelAssumption DEF FromServer, TypeOK
    <3>2. Amount(FromServer) \in Nat
      BY <3>1, AmountBounds
    <3>3. fetched <= fetched' /\ response' = Stream(fetched, fetched')
          /\ pc = "peekServer" /\ pc' = "toClient" /\ UNCHANGED <<req, toClient, short>>
      BY <1>5, <2>1, <3>1, <3>2 DEF PeekServer
    <3> QED
      BY <3>3 DEF DownRead, Downstream
  <2>2. CASE ~(FromServer > 0)
    BY <1>5, <2>2 DEF PeekServer, End, DownKept, Downstream
  <2> QED
    BY <2>1, <2>2
<1>6. CASE WriteClient
  <2>1. CASE Written(toClient, response) /\ pc' = "peekClient"
    <3>1. PICK k \in 0 .. Len(response) :
              toClient' = toClient \o SubSeq(response, 1, k) /\ short' = (short \/ k < Len(response))
      BY <2>1 DEF Written
    <3>2. (~short' => ~short) /\ (~short' => k = Len(response))
      <4>1. Len(response) \in Nat
        BY DEF TypeOK
      <4> QED
        BY <3>1, <4>1, WrittenAll, Zenon
    <3>3. Downstream = response /\ Downstream' = <<>> /\ pc' \in RelayPcs /\ pc \in RelayPcs
      BY <1>6, <2>1 DEF WriteClient, Downstream
    <3>4. UNCHANGED <<req, fetched>>
      BY <1>6 DEF WriteClient
    <3> QED
      BY <3>1, <3>2, <3>3, <3>4 DEF DownWritten
  <2>2. CASE End("error") /\ short' = TRUE /\ UNCHANGED toClient
    <3>1. toClient' = toClient \o SubSeq(Downstream, 1, 0)
      BY <2>2 DEF TypeOK
    <3>2. 0 \in 0 .. Len(Downstream)
      BY DEF TypeOK, Downstream
    <3> QED
      BY <1>6, <2>2, <3>1, <3>2 DEF WriteClient, End, DownWritten, Downstream
  <2> QED
    BY <1>6, <2>1, <2>2 DEF WriteClient
<1>7. CASE Failed \/ Exit \/ LookUp \/ Respond \/ ConnectToServer
  BY <1>7 DEF Failed, Exit, LookUp, Respond, ConnectToServer, DownKept, Downstream
<1>8. CASE SendRequest
  BY <1>8 DEF SendRequest, DownFresh, Fresh, FreshPcs, Downstream
<1>9. CASE (Arrive \/ HangUp) /\ UNCHANGED <<remote, tunnel, descriptors>>
  BY <1>9 DEF Arrive, HangUp, DownKept, Downstream
<1>10. CASE Reply \/ OriginCloses \/ UNCHANGED vars
  BY <1>10 DEF Reply, OriginCloses, vars, DownKept, Downstream
<1> QED
  BY <1>1, <1>2, <1>3, <1>4, <1>5, <1>6, <1>7, <1>8, <1>9, <1>10
     DEF Next, Thread, Outside, TunnelStep

-----------------------------------------------------------------------------
(* The tunnel: the invariant *)

\* What was written and what is still to be written are in order, within what was
\* read; and exactly what was read, if no write was short.
UpFlow ==
  /\ req.connect => Ascending(toServer \o Upstream, taken)
  /\ ~short /\ pc \in RelayPcs => toServer \o Upstream = Stream(first, taken)
DownFlow ==
  /\ req.connect => Ascending(toClient \o Downstream, fetched)
  /\ ~short /\ pc \in RelayPcs => toClient \o Downstream = <<Ack>> \o Stream(0, fetched)

\* How the tunnel has ended.
Endings ==
  /\ ended = "client" =>
       hungUp /\ taken = arrived /\ (~short => toServer = Stream(first, arrived))
  /\ ended = "server" =>
       originClosed /\ fetched = replied /\ (~short => toClient = <<Ack>> \o Stream(0, replied))

\* What is to be written is a sequence.
LEMMA StreamsTyped ==
  ASSUME TypeOK
  PROVE  /\ toServer \in Seq(Nat) /\ Upstream \in Seq(Nat) /\ Len(Upstream) \in Nat
         /\ toClient \in Seq(Nat) /\ Downstream \in Seq(Nat) /\ Len(Downstream) \in Nat
         /\ taken \in Nat /\ first \in Nat /\ first <= taken
         /\ fetched \in Nat /\ <<>> \in Seq(Nat) /\ <<Ack>> \in Seq(Nat)
<1>1. arrived \in Nat /\ MaxReply \in Nat
  BY RequestFields, TunnelAssumption DEF TypeOK
<1>2. taken \in Nat /\ first \in Nat /\ first <= taken /\ fetched \in Nat
  BY <1>1 DEF TypeOK
<1>3. toServer \in Seq(Nat) /\ toClient \in Seq(Nat)
      /\ Upstream \in Seq(Nat) /\ Downstream \in Seq(Nat)
  BY DEF TypeOK, Upstream, Downstream
<1> QED
  BY <1>2, <1>3 DEF Ack, Foreign

\* Nothing and the acknowledgement alone are in order.
LEMMA AscendingSmall ==
  ASSUME NEW n \in Nat
  PROVE  Ascending(<<>> \o <<>>, n) /\ Ascending(<<Ack>> \o <<>>, n)
<1>1. <<>> \o <<>> = <<>> /\ <<Ack>> \o <<>> = <<Ack>>
  BY DEF Ack, Foreign
<1>2. Ascending(<<>>, n)
  BY DEF Ascending, Increasing
<1>3. DOMAIN <<Ack>> = {1} /\ <<Ack>>[1] = 0
  BY DEF Ack, Foreign
<1>4. Ascending(<<Ack>>, n)
  BY <1>3 DEF Ascending, Increasing
<1> QED
  BY <1>1, <1>2, <1>4

\* A step keeps UpFlow.
LEMMA UpFlowStep == TypeOK /\ TypeOK' /\ Fresh /\ UpFlow /\ [Next]_vars => UpFlow'
<1> SUFFICES ASSUME TypeOK, TypeOK', Fresh, UpFlow, [Next]_vars PROVE UpFlow'
  OBVIOUS
<1>0. /\ toServer \in Seq(Nat) /\ Upstream \in Seq(Nat) /\ Len(Upstream) \in Nat
      /\ taken \in Nat /\ first \in Nat /\ first <= taken /\ taken' \in Nat
  BY StreamsTyped, RequestFields DEF TypeOK
<1> DEFINE s == toServer
<1> DEFINE u == Upstream
<1>1. CASE UpKept
  BY <1>1 DEF UpFlow, UpKept, NoShorter
<1>2. CASE UpWritten
  <2>1. PICK k \in 0 .. Len(u) : toServer' = s \o SubSeq(u, 1, k) /\ (~short' => k = Len(u))
    BY <1>2 DEF UpWritten
  <2>2. toServer' \in Seq(Nat)
    BY <1>0, <2>1, WrittenSeq
  <2>3. toServer' \o Upstream' = toServer'
    BY <1>2, <2>2, ConcatEmptySeq DEF UpWritten
  <2>4. req.connect => Ascending(s \o SubSeq(u, 1, k), taken)
    BY <1>0, AscendingWritten DEF UpFlow
  <2>5. ~short' => toServer' = s \o u
    BY <1>0, <2>1, SubSeqFull
  <2> QED
    BY <1>2, <2>1, <2>3, <2>4, <2>5 DEF UpFlow, UpWritten, NoShorter
<1>3. CASE UpRead
  <2>1. s \o u = s
    BY <1>0, <1>3, ConcatEmptySeq DEF UpRead
  <2>2. toServer' \o Upstream' = s \o Stream(taken, taken') /\ taken <= taken'
    BY <1>3 DEF UpRead
  <2>3. req.connect => Ascending(s \o Stream(taken, taken'), taken')
    <3> DEFINE t == taken'
    <3>1. t \in Nat /\ taken <= t
      BY <1>0, <2>2
    <3> HIDE DEF t
    <3>2. req.connect => Ascending(s \o Stream(taken, t), t)
      BY <1>0, <2>1, <3>1, AscendingRead DEF UpFlow
    <3> QED
      BY <3>2 DEF t
  <2>4. Stream(first, taken) \o Stream(taken, taken') = Stream(first, taken')
    <3> DEFINE t == taken'
    <3>1. t \in Nat /\ taken <= t
      BY <1>0, <2>2
    <3> HIDE DEF t
    <3>2. Stream(first, taken) \o Stream(taken, t) = Stream(first, t)
      BY <1>0, <3>1, StreamConcat
    <3> QED
      BY <3>2 DEF t
  <2> QED
    BY <1>3, <2>1, <2>2, <2>3, <2>4 DEF UpFlow, UpRead, NoShorter
<1>4. CASE UpFresh
  <2>1. toServer' \o Upstream' = <<>> \o <<>>
    BY <1>4 DEF UpFresh
  <2>2. Ascending(<<>> \o <<>>, taken')
    <3> DEFINE t == taken'
    <3>1. t \in Nat
      BY <1>0
    <3> HIDE DEF t
    <3>2. Ascending(<<>> \o <<>>, t)
      BY <3>1, AscendingSmall
    <3> QED
      BY <3>2 DEF t
  <2>3. Stream(taken', taken') = <<>> \o <<>>
    <3> DEFINE t == taken'
    <3>1. t \in Nat
      BY <1>0
    <3> HIDE DEF t
    <3>2. Stream(t, t) \in Seq(Nat) /\ Len(Stream(t, t)) = 0
      BY <3>1, StreamSeq
    <3>3. Stream(t, t) = <<>> \o <<>>
      BY <3>2
    <3> QED
      BY <3>3 DEF t
  <2> QED
    BY <1>4, <2>1, <2>2, <2>3 DEF UpFlow, UpFresh
<1>5. CASE UpSent
  BY <1>5 DEF UpFlow, UpSent
<1> QED
  BY <1>1, <1>2, <1>3, <1>4, <1>5, UpKinds

\* A step keeps DownFlow.
LEMMA DownFlowStep == TypeOK /\ TypeOK' /\ Fresh /\ DownFlow /\ [Next]_vars => DownFlow'
<1> SUFFICES ASSUME TypeOK, TypeOK', Fresh, DownFlow, [Next]_vars PROVE DownFlow'
  OBVIOUS
<1>0. /\ toClient \in Seq(Nat) /\ Downstream \in Seq(Nat) /\ Len(Downstream) \in Nat
      /\ fetched \in Nat /\ fetched' \in Nat /\ <<Ack>> \in Seq(Nat)
  BY StreamsTyped, TunnelAssumption DEF TypeOK
<1> DEFINE s == toClient
<1> DEFINE d == Downstream
<1>1. CASE DownKept
  BY <1>1 DEF DownFlow, DownKept, NoShorter
<1>2. CASE DownWritten
  <2>1. PICK k \in 0 .. Len(d) : toClient' = s \o SubSeq(d, 1, k) /\ (~short' => k = Len(d))
    BY <1>2 DEF DownWritten
  <2>2. toClient' \in Seq(Nat)
    BY <1>0, <2>1, WrittenSeq
  <2>3. toClient' \o Downstream' = toClient'
    BY <1>2, <2>2, ConcatEmptySeq DEF DownWritten
  <2>4. req.connect => Ascending(s \o SubSeq(d, 1, k), fetched)
    BY <1>0, AscendingWritten DEF DownFlow
  <2>5. ~short' => toClient' = s \o d
    BY <1>0, <2>1, SubSeqFull
  <2> QED
    BY <1>2, <2>1, <2>3, <2>4, <2>5 DEF DownFlow, DownWritten, NoShorter
<1>3. CASE DownRead
  <2> DEFINE n == fetched'
  <2>1. s \o d = s
    BY <1>0, <1>3, ConcatEmptySeq DEF DownRead
  <2>2. n \in Nat /\ fetched <= n /\ toClient' \o Downstream' = s \o Stream(fetched, n)
    BY <1>0, <1>3 DEF DownRead
  <2> HIDE DEF n
  <2>3. req.connect => Ascending(s \o Stream(fetched, n), n)
    BY <1>0, <2>1, <2>2, AscendingRead DEF DownFlow
  <2>4. (<<Ack>> \o Stream(0, fetched)) \o Stream(fetched, n) = <<Ack>> \o Stream(0, n)
    <3>1. 0 \in Nat /\ 0 <= fetched /\ n \in Nat /\ fetched <= n /\ 0 <= n /\ fetched \in Nat
      BY <1>0, <2>2
    <3>2. Stream(0, fetched) \in Seq(Nat) /\ Stream(fetched, n) \in Seq(Nat)
      BY <3>1, StreamSeq, Zenon
    <3>3. Stream(0, fetched) \o Stream(fetched, n) = Stream(0, n)
      BY <3>1, StreamConcat, Zenon
    <3>4. \A a, b, c \in Seq(Nat) : (a \o b) \o c = a \o (b \o c)
      BY ConcatAssociative
    <3>5. <<Ack>> \in Seq(Nat)
      BY <1>0
    <3> HIDE DEF Ack
    <3>6. (<<Ack>> \o Stream(0, fetched)) \o Stream(fetched, n)
            = <<Ack>> \o (Stream(0, fetched) \o Stream(fetched, n))
      BY <3>2, <3>4, <3>5, Zenon
    <3> QED
      BY <3>3, <3>6, Zenon
  <2> QED
    BY <1>3, <2>1, <2>2, <2>3, <2>4 DEF DownFlow, DownRead, NoShorter, n
<1>4. CASE DownFresh
  <2>1. toClient' \o Downstream' = toClient' \o <<>> /\ toClient' \in {<<>>, <<Ack>>} /\ fetched' = 0
    BY <1>4 DEF DownFresh
  <2>2. Ascending(<<>> \o <<>>, 0) /\ Ascending(<<Ack>> \o <<>>, 0)
    BY AscendingSmall
  <2>3. Stream(0, 0) = <<>>
    <3>1. Stream(0, 0) \in Seq(Nat) /\ Len(Stream(0, 0)) = 0
      BY StreamSeq
    <3> QED
      BY <3>1
  <2>4. Ascending(toClient' \o Downstream', fetched')
    BY <2>1, <2>2
  <2> QED
    BY <1>4, <2>1, <2>3, <2>4 DEF DownFlow, DownFresh
<1> QED
  BY <1>1, <1>2, <1>3, <1>4, DownKinds

\* The tunnel ends with a side that has closed and whose bytes were all read.
LEMMA EndingsStep == TypeOK /\ Fresh /\ UpFlow /\ DownFlow /\ Endings /\ [Next]_vars => Endings'
<1> SUFFICES ASSUME TypeOK, Fresh, UpFlow, DownFlow, Endings, [Next]_vars PROVE Endings'
  OBVIOUS
<1> USE DEF client, reading, remote, tunnel, written, descriptors
<1>0. /\ toServer \in Seq(Nat) /\ toClient \in Seq(Nat) /\ taken \in Nat /\ arrived \in Nat
      /\ fetched \in Nat /\ replied \in Nat
  BY RequestFields, TunnelAssumption DEF TypeOK
<1>1. CASE ended' \in {"no", "error"}
  BY <1>1 DEF Endings
<1>2. CASE pc \in {"exit", "done"} /\ ended' \notin {"no", "error"}
  BY <1>2 DEF Endings, Next, Thread, Outside, ReadStep, Read, Poll, ReadDone, TooShort, ReadFails,
       Parse, TunnelStep, Acknowledge, FirstRead, WriteServer, PeekServer, WriteClient, PeekClient,
       Failed, Exit, LookUp, ConnectToServer, SendRequest, Respond, Arrive, HangUp, Reply,
       OriginCloses, Tunnelling, vars
<1>3. CASE ended = "no" /\ ended' = "client"
  <2>1. PeekClient /\ ClientGone /\ UNCHANGED <<taken, short, first, toServer, arrived, hungUp>>
    BY <1>3 DEF Next, Thread, Outside, ReadStep, Read, Poll, ReadDone, TooShort, ReadFails,
       Parse, TunnelStep, Acknowledge, FirstRead, WriteServer, PeekServer, WriteClient, PeekClient,
       ReadClient, End, NothingRead, Failed, Exit, LookUp, ConnectToServer, SendRequest, Respond,
       Arrive, HangUp, Reply, OriginCloses, vars
  <2>2. hungUp /\ taken = arrived
    BY <1>0, <2>1 DEF ClientGone, FromClient, Available
  <2>3. toServer \o Upstream = toServer
    BY <1>0, <2>1, ConcatEmptySeq DEF PeekClient, Upstream
  <2>4. ~short => toServer = Stream(first, taken)
    BY <2>1, <2>3 DEF UpFlow, PeekClient, RelayPcs
  <2> QED
    BY <1>3, <2>1, <2>2, <2>4 DEF Endings
<1>4. CASE ended = "no" /\ ended' = "server"
  <2>1. PeekServer /\ FromServer = 0 /\ originClosed
        /\ UNCHANGED <<fetched, short, toClient, replied, originClosed>>
    BY <1>4 DEF Next, Thread, Outside, ReadStep, Read, Poll, ReadDone, TooShort, ReadFails,
       Parse, TunnelStep, Acknowledge, FirstRead, WriteServer, PeekServer, WriteClient, PeekClient,
       ReadClient, End, NothingRead, Failed, Exit, LookUp, ConnectToServer, SendRequest, Respond,
       Arrive, HangUp, Reply, OriginCloses, vars
  <2>2. fetched = replied
    BY <1>0, <2>1 DEF FromServer
  <2>3. toClient \o Downstream = toClient
    BY <1>0, <2>1, ConcatEmptySeq DEF PeekServer, Downstream
  <2>4. ~short => toClient = <<Ack>> \o Stream(0, fetched)
    BY <2>1, <2>3 DEF DownFlow, PeekServer, RelayPcs
  <2> QED
    BY <1>4, <2>1, <2>2, <2>4 DEF Endings
<1> QED
  <2>1. ended \in {"no", "client", "server", "error"}
    BY DEF TypeOK
  <2>2. ended' \in {"no", "client", "server", "error"}
    BY TypeOKStep DEF TypeOK
  <2> QED
    BY <1>1, <1>2, <1>3, <1>4, <2>1, <2>2 DEF Fresh

-----------------------------------------------------------------------------
(* The inductive invariant, and what follows *)

IInv ==
  /\ TypeOK /\ Room /\ RequestPassedOn /\ ClosedOnce
  /\ Fresh /\ UpFlow /\ DownFlow /\ Endings

\* It holds at first.
LEMMA IInvInit == Init => IInv
<1> SUFFICES ASSUME Init PROVE IInv
  OBVIOUS
<1>1. TypeOK
  BY TypeOKInit
<1>2. Room
  BY RequestAssumption DEF Init, ReadInit, Room, RequestFits
<1>3. RequestPassedOn /\ ClosedOnce /\ Endings
  BY DEF Init, ReadInit, TunnelInit, RequestPassedOn, ClosedOnce, Endings
<1>4. Fresh
  BY DEF Init, ReadInit, TunnelInit, Fresh
<1>5. UpFlow /\ DownFlow
  BY AscendingSmall DEF Init, ReadInit, TunnelInit, UpFlow, DownFlow, RelayPcs, Upstream, Downstream
<1> QED
  BY <1>1, <1>2, <1>3, <1>4, <1>5 DEF IInv

\* Every step keeps it.
THEOREM Invariance == Spec => []IInv
<1>1. IInv /\ [Next]_vars => IInv'
  <2> SUFFICES ASSUME IInv, [Next]_vars PROVE IInv'
    OBVIOUS
  <2>1. TypeOK' /\ Room' /\ RequestPassedOn' /\ ClosedOnce' /\ Fresh'
    BY TypeOKStep, RoomStep, PassedOnStep, ClosedStep, FreshStep DEF IInv
  <2>2. UpFlow' /\ DownFlow' /\ Endings'
    BY <2>1, UpFlowStep, DownFlowStep, EndingsStep DEF IInv
  <2> QED
    BY <2>1, <2>2 DEF IInv
<1> QED
  BY IInvInit, <1>1, PTL DEF Spec

\* Every variable keeps its type.
THEOREM TypeCorrect == Spec => []TypeOK
<1>1. IInv => TypeOK
  BY DEF IInv
<1> QED
  BY Invariance, <1>1, PTL

\* The request buffer has room for the next read() of the loop in serviceRequest()
\* and for what parseRequest() adds, for every size of a read that is at most the
\* buffer's first size: one realloc() to twice the size is enough.
THEOREM BufferSuffices == Spec => []RequestFits
<1>1. IInv => RequestFits
  BY DEF IInv, Room
<1> QED
  BY Invariance, <1>1, PTL

\* What serviceRequest() hands on is what the client sent, in its order, for every
\* request and every way in which its bytes arrive.
THEOREM PassedOn == Spec => []RequestPassedOn
<1>1. IInv => RequestPassedOn
  BY DEF IInv
<1> QED
  BY Invariance, <1>1, PTL

\* Every path through serviceRequest() closes the client's descriptor once.
THEOREM DescriptorClosedOnce == Spec => []ClosedOnce
<1>1. IInv => ClosedOnce
  BY DEF IInv
<1> QED
  BY Invariance, <1>1, PTL

\* The tunnel of forwardRequest() neither reorders nor repeats a byte, and loses
\* none unless a write() was short.
THEOREM TunnelIsExact == Spec => []TunnelExact
<1>1. IInv => TunnelExact
  <2> SUFFICES ASSUME IInv PROVE TunnelExact
    OBVIOUS
  <2>1. /\ toServer \in Seq(Nat) /\ Upstream \in Seq(Nat) /\ taken \in Nat
        /\ toClient \in Seq(Nat) /\ Downstream \in Seq(Nat) /\ fetched \in Nat
    BY StreamsTyped DEF IInv
  <2>2. ASSUME req.connect PROVE Increasing(toServer) /\ Increasing(toClient)
    <3>0. 0 \in 0 .. Len(Upstream) /\ 0 \in 0 .. Len(Downstream)
      BY <2>1
    <3>1. Ascending(toServer \o SubSeq(Upstream, 1, 0), taken)
      <4>1. Ascending(toServer \o Upstream, taken)
        BY <2>2 DEF IInv, UpFlow
      <4> QED
        BY <2>1, <3>0, <4>1, AscendingWritten, Zenon
    <3>2. Ascending(toClient \o SubSeq(Downstream, 1, 0), fetched)
      <4>1. Ascending(toClient \o Downstream, fetched)
        BY <2>2 DEF IInv, DownFlow
      <4> QED
        BY <2>1, <3>0, <4>1, AscendingWritten, Zenon
    <3>3. toServer \o SubSeq(Upstream, 1, 0) = toServer
          /\ toClient \o SubSeq(Downstream, 1, 0) = toClient
      BY <2>1
    <3> QED
      BY <3>1, <3>2, <3>3 DEF Ascending
  <2>3. Tunnelling /\ pc # "ack" => pc \in RelayPcs
    BY DEF Tunnelling, RelayPcs
  <2> QED
    BY <2>2, <2>3 DEF IInv, UpFlow, DownFlow, TunnelExact
<1> QED
  BY Invariance, <1>1, PTL

\* When the tunnel ends because a side has closed, all that this side sent has
\* reached the other one, unless a write() was short.
THEOREM TunnelIsDrained == Spec => []TunnelDrained
<1>1. IInv => TunnelDrained
  BY DEF IInv, Endings, TunnelDrained
<1> QED
  BY Invariance, <1>1, PTL
-----------------------------------------------------------------------------
(* The connection to the origin *)

\* No descriptor is open before connectToServer(), one is after it has succeeded, and
\* there is never a second.
OneSocket ==
  /\ sockets \in {0, 1}
  /\ pc \in {"read", "parse", "handle", "connect", "revalidate", "bad", "failed", "undefined"}
       => sockets = 0
  /\ pc \in {"send", "respond"} \/ Tunnelling \/ ended # "no" => sockets = 1

\* Only ConnectToServer opens one, and it is never gone back to.
LEMMA OneSocketStep == OneSocket /\ [Next]_vars => OneSocket'
<1> SUFFICES ASSUME OneSocket, [Next]_vars PROVE OneSocket'
  OBVIOUS
<1> USE DEF client, reading, remote, tunnel, written, descriptors, OneSocket, Tunnelling
<1>1. CASE Failed \/ Exit \/ LookUp \/ Respond \/ SendRequest
  BY <1>1 DEF Failed, Exit, LookUp, Respond, SendRequest
<1>2. CASE ConnectToServer
  <2>1. sockets = 0 /\ ended = "no" /\ ended' = ended
    BY <1>2 DEF ConnectToServer
  <2>2. CASE pc' = "exit" /\ sockets' \in {sockets, sockets + 1}
    BY <2>1, <2>2
  <2>3. CASE sockets' = sockets + 1 /\ pc' \in {"respond", "ack", "send"}
    BY <2>1, <2>3
  <2> QED
    BY <1>2, <2>2, <2>3 DEF ConnectToServer
<1>3. CASE (ReadStep \/ ReadFails) /\ UNCHANGED <<remote, tunnel, descriptors>>
  BY <1>3 DEF ReadStep, Read, Poll, ReadDone, TooShort, ReadFails, Parse
<1>4. CASE TunnelStep /\ UNCHANGED descriptors
  BY <1>4
     DEF TunnelStep, Acknowledge, FirstRead, WriteServer, PeekServer, WriteClient, PeekClient,
         ReadClient, End, NothingRead
<1>5. CASE UNCHANGED <<pc, sockets, ended>>
  BY <1>5
<1>6. CASE (Arrive \/ HangUp) /\ UNCHANGED <<remote, tunnel, descriptors>>
  BY <1>5, <1>6 DEF Arrive, HangUp
<1>7. CASE (Reply \/ OriginCloses) /\ UNCHANGED descriptors
  BY <1>5, <1>7 DEF Reply, OriginCloses
<1>8. CASE UNCHANGED vars
  BY <1>5, <1>8 DEF vars
<1> QED
  BY <1>1, <1>2, <1>3, <1>4, <1>6, <1>7, <1>8 DEF Next, Thread, Outside

Refused == pc \in {"bad", "failed"}

\* serviceRequest() opens at most one descriptor, the one that connectToServer() makes;
\* and a request that is refused, or whose read failed, leaves nothing behind: of what
\* the comment on exitRequest() says, this is true.
THEOREM OneSocketLeft ==
  Spec => []OneSocket /\ [][Refused => AllResourcesFreed']_vars
<1>1. Init => OneSocket
  BY DEF Init, ReadInit, TunnelInit, OneSocket, Tunnelling
<1>2. OneSocket /\ [Next]_vars => [Refused => AllResourcesFreed']_vars
  <2> SUFFICES ASSUME OneSocket, Next, Refused PROVE AllResourcesFreed'
    OBVIOUS
  <2>1. sockets = 0
    BY DEF OneSocket, Refused
  <2>2. CASE Failed \/ Exit
    BY <2>1, <2>2 DEF Failed, Exit, AllResourcesFreed
  <2>3. CASE Outside
    BY <2>1, <2>3
       DEF Outside, ReadFails, Arrive, HangUp, Reply, OriginCloses, AllResourcesFreed, descriptors
  <2> QED
    BY <2>2, <2>3
       DEF Refused, Next, Thread, ReadStep, Read, Poll, ReadDone, TooShort, Parse, TunnelStep,
           Acknowledge, FirstRead, WriteServer, PeekServer, WriteClient, PeekClient, LookUp, ConnectToServer,
           SendRequest, Respond
<1> QED
  BY <1>1, <1>2, OneSocketStep, PTL DEF Spec

-----------------------------------------------------------------------------
(* The thread goes on: the two halves of ThreadFreed that are about safety *)

\* The guards of Thread, written out.
CanGo ==
  \/ pc = "read" /\ (grace = 0 \/ Available > 0 \/ (Available = 0 /\ (hungUp \/ grace > 0)))
  \/ pc = "parse" /\ (taken <= Shortest \/ Reassembled(Text(Bytes(taken))) # {})
  \/ pc = "first" /\ (FromClient > 0 \/ hungUp)
  \/ pc = "peekServer" /\ (FromServer > 0 \/ FromServer = 0)
  \/ pc = "peekClient" /\ (FromClient > 0 \/ FromClient = 0)
  \/ pc \in {"handle", "bad", "failed", "connect", "revalidate", "send", "respond", "ack",
             "toServer", "toClient", "exit"}

\* The thread waits for the client's first bytes in a tunnel.
Silent == pc = "first" /\ FromClient = 0 /\ ~hungUp

Loop == {"toServer", "peekServer", "toClient", "peekClient"}

\* How far it is from there to the end.
Stage ==
  CASE pc = "read" -> 9 [] pc = "parse" -> 8 [] pc = "handle" -> 7
    [] pc \in {"connect", "revalidate"} -> 6 [] pc = "send" -> 5
    [] pc \in {"respond", "ack"} -> 4 [] pc = "first" -> 3 [] pc \in Loop -> 2
    [] pc \in {"exit", "bad", "failed"} -> 1 [] OTHER -> 0

\* The polls that are left, and the steps of the tunnel until the client's socket is
\* looked at, and the origin's.
ToPoll ==
  CASE pc = "read" -> grace [] pc = "toServer" -> 4 [] pc = "peekServer" -> 3
    [] pc = "toClient" -> 2 [] OTHER -> 1
ToPeek ==
  CASE pc = "toClient" -> 4 [] pc = "peekClient" -> 3 [] pc = "toServer" -> 2 [] OTHER -> 1

\* A step goes on to a later stage, or reads from the client, or comes nearer to where
\* it does; and the same of the origin.
Descends ==
  \/ Stage' < Stage
  \/ Stage' = Stage /\ taken < taken' /\ taken' <= req.bytes
  \/ Stage' = Stage /\ taken' = taken /\ ToPoll' < ToPoll
Drains ==
  \/ Stage' < Stage
  \/ Stage' = Stage /\ fetched < fetched' /\ fetched' <= replied
  \/ Stage' = Stage /\ fetched' = fetched /\ ToPeek' < ToPeek

\* The steps that bring the end nearer: each one of the thread outside the loop of the
\* tunnel, and in the loop as soon as one side has closed.
Progress ==
  /\ Thread /\ (pc \notin Loop \/ hungUp) => Descends
  /\ hungUp => Descends \/ UNCHANGED <<pc, taken, grace, hungUp>>
  /\ Thread /\ originClosed /\ Relaying => Drains
  /\ originClosed /\ Relaying => Drains \/ UNCHANGED <<pc, fetched, replied, originClosed>>

\* There is a string that parseRequest() leaves, whatever was read.
LEMMA ParseLeavesSome ==
  ASSUME NEW s
  PROVE  Reassembled(s) # {}
<1>1. Completed(s) # {}
  <2>1. s \o [i \in 1 .. 1 |-> Foreign] \in Completed(s)
    BY DEF Completed
  <2> QED
    BY <2>1
<1> DEFINE body == SubSeq(s, req.headers + 1, Len(s))
<1>2. Ended(s, body) # {}
  BY DEF Ended
<1> HIDE DEF body
<1> QED
  BY <1>1, <1>2 DEF Reassembled, body

\* The thread of a connection is never stuck: it can go on, or it is done, or nobody
\* knows what it does (a CONNECT without a Host line), or it waits for a client that has
\* a tunnel and says nothing.
THEOREM NeverStuck ==
  Spec => [](pc \in {"done", "undefined"} \/ Silent \/ CanGo)
<1>1. TypeOK => pc \in {"done", "undefined"} \/ Silent \/ CanGo
  <2> SUFFICES ASSUME TypeOK PROVE pc \in {"done", "undefined"} \/ Silent \/ CanGo
    OBVIOUS
  <2>1. /\ arrived \in Nat /\ taken \in Nat /\ taken <= arrived /\ grace \in Nat
        /\ fetched \in Nat /\ replied \in Nat /\ fetched <= replied /\ pc \in PCs
    BY RequestFields, RequestAssumption, TunnelAssumption DEF TypeOK
  <2>2. Available \in Nat /\ FromClient \in Nat /\ FromServer \in Nat
    BY <2>1 DEF Available, FromClient, FromServer
  <2>3. CASE pc = "read"
    BY <2>1, <2>2, <2>3 DEF CanGo
  <2>4. CASE pc = "parse"
    BY <2>4, ParseLeavesSome DEF CanGo
  <2>5. CASE pc = "first"
    BY <2>2, <2>5 DEF CanGo, Silent
  <2>6. CASE pc \in {"peekServer", "peekClient"}
    BY <2>2, <2>6 DEF CanGo
  <2> QED
    BY <2>1, <2>3, <2>4, <2>5, <2>6 DEF CanGo, PCs
<1> QED
  BY TypeCorrect, <1>1, PTL

\* How far a read of the client's socket in the tunnel gets.
LEMMA ClientReadOn ==
  ASSUME TypeOK, NEW l, ReadClient(l), FromClient > 0
  PROVE  taken < taken' /\ taken' <= req.bytes
<1>1. /\ arrived \in Nat /\ taken \in Nat /\ req.bytes \in Nat /\ arrived <= req.bytes
      /\ BUFSIZE \in Nat /\ BUFSIZE >= 3
  BY RequestFields, RequestAssumption DEF TypeOK
<1>2. FromClient = arrived - taken
  BY DEF FromClient, Available
<1>3. Amount(FromClient) > 0 /\ Amount(FromClient) <= arrived - taken
      /\ Amount(FromClient) \in Nat
  BY <1>1, <1>2 DEF Amount
<1> QED
  BY <1>1, <1>3 DEF ReadClient

\* Each step of the thread outside the loop of the tunnel descends, and in it once the
\* client has closed.
LEMMA DescendsStep ==
  ASSUME TypeOK, Thread, pc \notin Loop \/ hungUp
  PROVE  Descends
<1> USE DEF Descends
<1>0. /\ arrived \in Nat /\ taken \in Nat /\ req.bytes \in Nat /\ arrived <= req.bytes
      /\ taken <= arrived /\ BUFSIZE \in Nat /\ BUFSIZE >= 3 /\ grace \in Nat
  BY RequestFields, RequestAssumption DEF TypeOK
<1>1. CASE Read
  <2>1. taken < taken' /\ taken' <= req.bytes /\ pc' = pc
    BY <1>0, <1>1 DEF Read, Available
  <2> QED
    BY <2>1 DEF Stage
<1>2. CASE Poll
  <2>1. taken' = taken /\ pc = "read" /\ pc' = "read" /\ grace' < grace
    BY <1>0, <1>2 DEF Poll, client
  <2> QED
    BY <2>1 DEF Stage, ToPoll
<1>3. CASE ReadDone \/ TooShort \/ Parse
  BY <1>3 DEF ReadDone, TooShort, Parse, Stage, Loop
<1>4. CASE Failed \/ Exit \/ LookUp \/ ConnectToServer \/ SendRequest \/ Respond \/ Acknowledge
  BY <1>4 DEF Failed, Exit, LookUp, ConnectToServer, SendRequest, Respond, Acknowledge, Stage, Loop
<1>5. CASE FirstRead
  BY <1>5 DEF FirstRead, ReadClient, Stage, Loop
<1>6. CASE WriteServer \/ PeekServer \/ WriteClient
  <2>1. /\ taken' = taken /\ pc \in {"toServer", "peekServer", "toClient"}
        /\ \/ pc' = "exit"
           \/ pc = "toServer" /\ pc' = "peekServer"
           \/ pc = "peekServer" /\ pc' \in {"toClient", "peekClient"}
           \/ pc = "toClient" /\ pc' = "peekClient"
    BY <1>6 DEF WriteServer, PeekServer, WriteClient, End, reading
  <2> QED
    BY <2>1 DEF Stage, ToPoll, Loop
<1>7. CASE PeekClient
  <2>1. pc = "peekClient" /\ hungUp
    BY <1>7 DEF PeekClient, Loop
  <2>2. CASE ReadClient("toServer") /\ FromClient > 0
    <3>1. taken < taken' /\ taken' <= req.bytes /\ pc' = "toServer"
      BY <2>2, ClientReadOn DEF ReadClient
    <3> QED
      BY <2>1, <3>1 DEF Stage, Loop
  <2>3. CASE pc' = "exit"
    BY <2>1, <2>3 DEF Stage, Loop
  <2> QED
    BY <1>7, <2>1, <2>2, <2>3 DEF PeekClient, End
<1> QED
  BY <1>1, <1>2, <1>3, <1>4, <1>5, <1>6, <1>7 DEF Thread, ReadStep, TunnelStep

\* Each step of the thread in the loop drains the origin, once this has closed.
LEMMA DrainsStep ==
  ASSUME TypeOK, Thread, originClosed, Relaying
  PROVE  Drains
<1> USE DEF Drains
<1>0. /\ fetched \in Nat /\ replied \in Nat /\ fetched <= replied
      /\ BUFSIZE \in Nat /\ BUFSIZE >= 3
  BY RequestAssumption, TunnelAssumption DEF TypeOK
<1>1. pc \in Loop
  BY DEF Relaying, Tunnelling, Loop
<1>2. CASE WriteServer \/ WriteClient \/ PeekClient
  <2>1. /\ fetched' = fetched
        /\ \/ pc' = "exit"
           \/ pc = "toServer" /\ pc' = "peekServer"
           \/ pc = "toClient" /\ pc' = "peekClient"
           \/ pc = "peekClient" /\ pc' = "toServer"
    BY <1>2 DEF WriteServer, WriteClient, PeekClient, ReadClient, NothingRead, End
  <2> QED
    BY <1>1, <2>1 DEF Stage, ToPeek, Loop
<1>3. CASE PeekServer
  <2>1. CASE FromServer > 0 /\ fetched' = fetched + Amount(FromServer) /\ pc' = "toClient"
    <3>1. fetched < fetched' /\ fetched' <= replied
      BY <1>0, <2>1 DEF Amount, FromServer
    <3> QED
      BY <1>1, <2>1, <3>1 DEF Stage, Loop
  <2>2. CASE pc' = "exit"
    BY <1>1, <2>2 DEF Stage, Loop
  <2> QED
    BY <1>3, <2>1, <2>2 DEF PeekServer, End
<1> QED
  BY <1>1, <1>2, <1>3
     DEF Thread, ReadStep, Read, Poll, ReadDone, TooShort, Parse, TunnelStep, Acknowledge, FirstRead,
         Failed, Exit, LookUp, ConnectToServer, SendRequest, Respond, Loop

\* serviceRequest() does not go round for ever: outside the tunnel each step brings its
\* end nearer, whatever the client does, and in the tunnel each step does once the
\* client has closed, or the origin; and nothing that happens outside takes it back.
\* While neither has closed the tunnel polls, and may go round with nothing read.
THEOREM NeverSpins == Spec => [][Progress]_vars
<1>1. TypeOK /\ [Next]_vars => [Progress]_vars
  <2> SUFFICES ASSUME TypeOK, Next PROVE Progress
    OBVIOUS
  <2>1. ASSUME hungUp, Outside
        PROVE  Descends \/ UNCHANGED <<pc, taken, grace, hungUp>>
    <3>1. CASE ReadFails
      BY <3>1 DEF ReadFails, Descends, Stage, Loop
    <3> QED
      BY <2>1, <3>1 DEF Outside, Arrive, HangUp, Reply, OriginCloses, reading, client
  <2>2. ASSUME originClosed, Relaying, Outside
        PROVE  UNCHANGED <<pc, fetched, replied, originClosed>>
    BY <2>2 DEF Outside, ReadFails, Arrive, HangUp, Reply, OriginCloses, remote, tunnel, Relaying,
                Tunnelling
  <2> QED
    BY <2>1, <2>2, DescendsStep, DrainsStep DEF Next, Progress
<1> QED
  BY TypeCorrect, <1>1, PTL DEF Spec
=============================================================================
