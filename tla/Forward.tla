------------------------------- MODULE Forward -------------------------------
(***************************************************************************)
(* How a response gets from the origin server to the client and into the   *)
(* cache: forwardRequest() after a miss, getRevalidation() for an entry    *)
(* that needs it, and transferChunks() and bufferedForward() under them.   *)
(*                                                                         *)
(* A response is its bytes, numbered from 1 in the order in which the      *)
(* origin sends them; sizes keep their relations and not their values.     *)
(* The proxy polls the origin without blocking and gives up after so many  *)
(* empty polls, whatever the origin still has to say; only                 *)
(* bufferedForward() blocks.  The connection to the client is closed when  *)
(* the request is done.                                                    *)
(***************************************************************************)
EXTENDS Integers, Sequences, SequencesExt, FiniteSetsExt

CONSTANTS
  BUFSIZE, RESPONSE_HEADER_SIZE,
  Grace,       \* empty polls until a reading loop gives up
  Shortest,    \* a string of this length or less is no response
  Responses    \* what the origin may answer

\* bytes: all of them; headers: those of the header section; framing: how the
\* end of the body is announced; keep: Cache-Control allows keeping it; zeros:
\* the bytes that are NUL; status: 304 or another.
ResponseType ==
  [bytes: Nat, headers: Nat, framing: {"length", "chunked", "close"},
   keep: BOOLEAN, zeros: SUBSET (Nat \ {0}), status: {"304", "other"}]

ASSUME ForwardAssumption ==
  /\ BUFSIZE \in Nat \ {0}
  /\ RESPONSE_HEADER_SIZE \in Nat /\ RESPONSE_HEADER_SIZE > 2 * BUFSIZE
  /\ Grace \in Nat \ {0} /\ Shortest \in Nat
  /\ Responses \subseteq ResponseType
  /\ \A r \in Responses : /\ Shortest < r.headers /\ r.headers <= r.bytes
                          /\ \A i \in r.zeros : i > r.headers

\* A byte that is not the response's own in its place.
Foreign == 0

VARIABLES
  mode,       \* "forward" or "refill", after a miss or for a revalidation
  resp,       \* the response
  rest,       \* the client's request was longer than BUFSIZE
  arrived,    \* bytes that have reached the proxy's socket
  closed,     \* the origin has closed the connection
  pc,
  taken,      \* bytes read from the socket
  buf,        \* responseHeaderBuf after the first reading loop
  client,     \* what was written to the client
  cacheBuff,
  cap, size,  \* currentCacheBuffCap, currentCacheBuffSize
  grace,
  bodyLeft,   \* what parseResponse() returns
  relayed,    \* totalWritten of bufferedForward()
  canCache,
  kept,       \* what put() got: no value, or one
  failed,     \* a write to the client failed
  late        \* a reading loop gave up while the origin had more to send

vars == <<mode, resp, rest, arrived, closed, pc, taken, buf, client, cacheBuff,
          cap, size, grace, bodyLeft, relayed, canCache, kept, failed, late>>

request == <<mode, resp, rest>>
origin  == <<arrived, closed>>
caching == <<cacheBuff, cap, size, canCache, kept>>
progress == <<bodyLeft, relayed>>

Available == arrived - taken
Bytes(n) == [i \in 1 .. n |-> taken + i]

\* A buffer as the string functions see it: up to its first NUL.
Text(s) ==
  LET i == SelectInSeq(s, LAMBDA b : b \in resp.zeros)
  IN  IF i = 0 THEN s ELSE SubSeq(s, 1, i - 1)

Init ==
  /\ mode \in {"forward", "refill"} /\ resp \in Responses /\ rest \in BOOLEAN
  /\ resp.status = "304" => mode = "refill"
  /\ arrived = 0 /\ closed = FALSE
  /\ pc = "connect"
  /\ taken = 0 /\ buf = <<>> /\ client = <<>>
  /\ cacheBuff = <<>> /\ cap = RESPONSE_HEADER_SIZE /\ size = 0
  /\ grace = Grace /\ bodyLeft = 0 /\ relayed = 0
  /\ canCache = FALSE /\ kept = <<>>
  /\ failed = FALSE /\ late = FALSE

-----------------------------------------------------------------------------
(* The origin *)

Arrive ==
  /\ pc # "connect" /\ ~closed /\ arrived < resp.bytes
  /\ arrived' = arrived + 1
  /\ UNCHANGED <<request, closed, pc, taken, buf, client, caching, grace, progress,
                 failed, late>>

\* After its last byte, or earlier when it fails.
OriginCloses ==
  /\ pc # "connect" /\ ~closed
  /\ closed' = TRUE
  /\ UNCHANGED <<request, arrived, pc, taken, buf, client, caching, grace, progress,
                 failed, late>>

-----------------------------------------------------------------------------
(* Connecting, and the first reading loop *)

\* connectToServer(), and the request written to the origin.
Connect ==
  /\ pc = "connect"
  /\ pc' \in {"initial", "done"}
  /\ UNCHANGED <<request, origin, taken, buf, client, caching, grace, progress,
                 failed, late>>

InitialRoom == taken < RESPONSE_HEADER_SIZE - BUFSIZE

\* Mutant: every read goes to the start of the buffer.
AtStart(n) == Bytes(n)

\* responseHeaderBuf when n bytes were read to responseHeaderPtr.
AtPointer(n) == buf \o Bytes(n)

InitialRead ==
  /\ pc = "initial" /\ grace > 0 /\ InitialRoom /\ Available > 0
  /\ LET n == Min({BUFSIZE, Available}) IN
       /\ taken' = taken + n
       /\ buf' = AtPointer(n)
  /\ UNCHANGED <<request, origin, pc, client, caching, grace, progress, failed, late>>

\* Mutant: grace is counted and not looked at.
PollsUnlimited == TRUE

PollsLeft == grace > 0

\* A poll that finds nothing, in either polling loop.
Poll ==
  /\ \/ pc = "initial" /\ InitialRoom
     \/ pc = "chunks"
  /\ PollsLeft /\ Available = 0 /\ ~closed
  /\ grace' = grace - 1
  /\ late' = (late \/ (grace' = 0 /\ arrived < resp.bytes))
  /\ UNCHANGED <<request, origin, pc, taken, buf, client, caching, progress, failed>>

\* The origin resets the connection between the peek and the read.
ReadFails ==
  /\ closed /\ arrived < resp.bytes /\ Available > 0 /\ grace > 0
  /\ \/ pc = "initial" /\ InitialRoom /\ pc' = "done" /\ UNCHANGED canCache
     \/ pc = "chunks" /\ pc' = "store" /\ canCache' = FALSE
     \/ pc = "length" /\ relayed < bodyLeft /\ pc' = "store" /\ UNCHANGED canCache
  /\ UNCHANGED <<request, origin, taken, buf, client, cacheBuff, cap, size, kept,
                 grace, progress, failed, late>>

EndOfStream == Available = 0 /\ closed

InitialDone ==
  /\ pc = "initial"
  /\ grace = 0 \/ ~InitialRoom \/ EndOfStream
  /\ pc' = IF mode = "forward" THEN "parse" ELSE "compare"
  /\ UNCHANGED <<request, origin, taken, buf, client, caching, grace, progress,
                 failed, late>>

-----------------------------------------------------------------------------
(* forwardRequest(): parseResponse() and the first bytes to the client *)

\* writeall() of bytes: all are written, or an error comes after some of them.
WriteAll(bytes) == client' = client \o bytes /\ UNCHANGED failed
WriteFails(bytes) ==
  /\ failed' = TRUE
  /\ \E k \in 0 .. Len(bytes) : client' = client \o SubSeq(bytes, 1, k)

\* No response: the error message, which is no byte of the response.
NoResponse ==
  /\ pc = "parse" /\ Len(buf) <= Shortest
  /\ pc' = "done"
  /\ WriteAll(<<Foreign>>) \/ WriteFails(<<Foreign>>)
  /\ UNCHANGED <<request, origin, taken, buf, caching, grace, progress, late>>

\* The blank line is not there: the last strsep() returns NULL, which is written
\* through.  The process dies.
HeadersIncomplete ==
  /\ pc = "parse" /\ Shortest < Len(buf) /\ Len(buf) < resp.headers
  /\ pc' = "crashed"
  /\ UNCHANGED <<request, origin, taken, buf, client, caching, grace, progress,
                 failed, late>>

\* bodySizeLeft: Content-Length, 0 if there is none, less the length of the body
\* read so far as a string; 0 if that string is empty.
BodySizeLeft ==
  LET body == Text(SubSeq(buf, resp.headers + 1, Len(buf)))
  IN  IF body = <<>> THEN 0
      ELSE (IF resp.framing = "length" THEN resp.bytes - resp.headers ELSE 0) - Len(body)

\* A newline is put at the end of the string, that is over its first NUL, and
\* over the next one if bodySizeLeft is not 0; the buffer ends after the string.
Newlined(s) ==
  LET t == Text(s) IN IF t = s THEN s ELSE [s EXCEPT ![Len(t) + 1] = Foreign]

\* Mutant: the headers are counted as body.
ParsedLessHeaders == Max({0, BodySizeLeft - resp.headers})

Parsed == Max({0, BodySizeLeft})

Parse ==
  /\ pc = "parse" /\ Len(buf) >= resp.headers
  /\ bodyLeft' = Parsed
  /\ buf' = IF BodySizeLeft # 0 THEN Newlined(Newlined(buf)) ELSE Newlined(buf)
  /\ pc' = "answer"
  /\ UNCHANGED <<request, origin, taken, client, caching, grace, relayed, failed, late>>

StartRelay(l, keep) ==
  /\ pc' = l
  /\ cacheBuff' = IF keep THEN Text(buf) ELSE <<>>
  /\ size' = Len(cacheBuff')
  /\ canCache' = keep
  /\ grace' = Grace
  /\ UNCHANGED <<cap, kept>>

Answer ==
  /\ pc = "answer"
  /\ \/ /\ WriteAll(buf)
        /\ StartRelay(CASE resp.framing = "length" /\ bodyLeft > 0 -> "length"
                        [] resp.framing = "chunked" -> "chunks"
                        [] OTHER -> "store",
                      resp.keep)
     \/ /\ WriteFails(buf)
        /\ pc' = "done"
        /\ UNCHANGED <<caching, grace>>
  /\ UNCHANGED <<request, origin, taken, buf, progress, late>>

-----------------------------------------------------------------------------
(* getRevalidation(): 304, or everything to the client *)

\* The status line was read, and is that of a 304.
Says304 == Len(buf) > Shortest /\ resp.status = "304"

NotModified ==
  /\ pc = "compare" /\ Says304
  /\ pc' = "cached"
  /\ UNCHANGED <<request, origin, taken, buf, client, caching, grace, progress,
                 failed, late>>

ForwardEverything ==
  /\ pc = "compare" /\ ~Says304
  /\ \/ WriteAll(buf) /\ StartRelay("chunks", TRUE)
     \/ WriteFails(buf) /\ pc' = "done" /\ UNCHANGED <<caching, grace>>
  /\ UNCHANGED <<request, origin, taken, buf, progress, late>>

-----------------------------------------------------------------------------
(* bufferedForward() *)

\* Mutant: the room left is not looked at, only the capacity.
GrowLate(n) == cap' = IF n > cap THEN 2 * cap ELSE cap

\* strcat() to cacheBuff, once it was doubled if n bytes do not fit.
Grow(n) == cap' = IF n > cap - size THEN 2 * cap ELSE cap

Copy(n) ==
  IF canCache
  THEN /\ Grow(n)
       /\ cacheBuff' = cacheBuff \o Text(Bytes(n))
       /\ size' = size + n
  ELSE UNCHANGED <<cacheBuff, cap, size>>

\* After a failed write nothing is copied (mutant: Copy).
CopyNothing(n) == UNCHANGED <<cacheBuff, cap, size>>

ForwardRead ==
  /\ pc = "length" /\ relayed < bodyLeft /\ Available > 0
  /\ LET n == Min({RESPONSE_HEADER_SIZE, Available}) IN
       /\ taken' = taken + n
       /\ \/ /\ WriteAll(Bytes(n))
             /\ relayed' = relayed + n
             /\ Copy(n)
             /\ UNCHANGED pc
          \/ /\ WriteFails(Bytes(n))
             /\ pc' = "store"
             /\ CopyNothing(n)
             /\ UNCHANGED relayed
  /\ UNCHANGED <<request, origin, buf, canCache, kept, grace, bodyLeft, late>>

\* Mutant: the end of the stream is no reason to stop.
OverAtLength == relayed >= bodyLeft

Over == relayed >= bodyLeft \/ EndOfStream

\* However it ends, canCache stays what it was.
ForwardEnds ==
  /\ pc = "length" /\ Over
  /\ pc' = "store"
  /\ UNCHANGED <<request, origin, taken, buf, client, caching, grace, progress,
                 failed, late>>

-----------------------------------------------------------------------------
(* transferChunks() *)

\* buf, of which only BUFSIZE bytes were cleared, is the buffer of the request
\* in forwardRequest(): when it is full of text the request's rest follows.
Leftover(n) ==
  IF mode = "forward" /\ rest /\ n = BUFSIZE /\ Text(Bytes(n)) = Bytes(n)
  THEN <<Foreign>> ELSE <<>>

\* writeall() returns 0, and 0 is what is compared with the room left and added
\* to the size: the buffer never grows, and strcat() runs over its end.  There the
\* model stops following.
ChunksRead ==
  /\ pc = "chunks" /\ grace > 0 /\ Available > 0
  /\ LET n == Min({BUFSIZE, Available}) IN
       /\ taken' = taken + n
       /\ \/ /\ WriteAll(Bytes(n))
             /\ cacheBuff' = IF canCache THEN cacheBuff \o Text(Bytes(n)) \o Leftover(n)
                             ELSE cacheBuff
             /\ pc' = IF Len(cacheBuff') > cap THEN "overrun" ELSE pc
             /\ UNCHANGED canCache
          \/ /\ WriteFails(Bytes(n))
             /\ canCache' = FALSE
             /\ pc' = "store"
             /\ UNCHANGED cacheBuff
  /\ UNCHANGED <<request, origin, buf, cap, size, kept, grace, progress, late>>

\* However it ends, canCache is set if it was.
ChunksEnd ==
  /\ pc = "chunks"
  /\ grace = 0 \/ EndOfStream
  /\ pc' = "store"
  /\ UNCHANGED <<request, origin, taken, buf, client, caching, grace, progress,
                 failed, late>>

-----------------------------------------------------------------------------
\* put(), or free(); then exitRequest().
Store ==
  /\ pc = "store"
  /\ kept' = IF canCache THEN <<cacheBuff>> ELSE kept
  /\ pc' = "done"
  /\ UNCHANGED <<request, origin, taken, buf, client, cacheBuff, cap, size, canCache,
                 grace, progress, failed, late>>

Proxy ==
  \/ Connect \/ InitialRead \/ Poll \/ InitialDone
  \/ NoResponse \/ HeadersIncomplete \/ Parse \/ Answer
  \/ NotModified \/ ForwardEverything
  \/ ForwardRead \/ ForwardEnds \/ ChunksRead \/ ChunksEnd \/ Store

Next == Proxy \/ ReadFails \/ Arrive \/ OriginCloses

Spec == Init /\ [][Next]_vars

\* The proxy's thread runs, and the origin sends what it has unless it closes;
\* it need not close.
FairSpec == Spec /\ WF_vars(Proxy) /\ WF_vars(Arrive)

-----------------------------------------------------------------------------
(* What holds *)

\* Every variable has its type.
TypeOK ==
  /\ mode \in {"forward", "refill"} /\ resp \in Responses /\ rest \in BOOLEAN
  /\ taken \in 0 .. arrived /\ arrived \in 0 .. resp.bytes /\ closed \in BOOLEAN
  /\ pc \in {"connect", "initial", "parse", "compare", "answer", "length", "chunks",
             "store", "cached", "done", "crashed", "overrun"}
  /\ \A s \in {buf, client, cacheBuff} : s \in Seq(Nat)
  /\ cap \in Nat /\ size \in Nat /\ grace \in 0 .. Grace
  /\ bodyLeft \in Nat /\ relayed \in Nat
  /\ canCache \in BOOLEAN /\ kept \in Seq(Seq(Nat))
  /\ failed \in BOOLEAN /\ late \in BOOLEAN

Textual == resp.zeros = {}
Numbered(s) == \A i \in DOMAIN s : s[i] = i
Whole(s) == Numbered(s) /\ Len(s) = resp.bytes

\* A response of text reaches the client in order, with no byte lost, repeated
\* or changed, however it is cut into reads and whatever fails: the client has a
\* beginning of it, and nothing else unless no response was seen.
RelayedInOrder ==
  Textual => Numbered(client) \/ (taken <= Shortest /\ client = <<Foreign>>)

\* What goes into the cache is the beginning of what the client was sent.
KeptWasRelayed ==
  Textual /\ ~(rest /\ mode = "forward" /\ resp.framing = "chunked") =>
    \A i \in DOMAIN kept : IsPrefix(kept[i], client)

\* bufferedForward() doubles the cache buffer in time: once is always enough.
\* transferChunks(), which never does, overruns it only when the response, with
\* what is left of the request, is longer than the buffer.
BufferFits ==
  /\ pc \in {"answer", "length"} => Len(cacheBuff) <= size /\ size <= cap
  /\ pc = "overrun" => taken > cap \/ (rest /\ mode = "forward")

\* When nothing goes wrong (the origin closes only after its last byte and no
\* reading loop gives up before it, no write fails), a text response whose
\* headers fit the first reading loop and whose length is announced reaches the
\* client whole, and the cache, if it is kept, with it.
Undisturbed == ~failed /\ ~late /\ (closed => arrived = resp.bytes)
Announced == resp.framing # "close" \/ mode = "refill"
WholeResponse ==
  pc = "done" /\ taken > 0 /\ Undisturbed /\ Textual /\ Announced
  /\ resp.headers < RESPONSE_HEADER_SIZE - BUFSIZE
    => /\ Whole(client)
       /\ kept # <<>> /\ ~rest => Whole(kept[1])

\* Every request with a text response ends, even if the origin keeps the
\* connection open.  (With a NUL in the bytes read first, bufferedForward() waits
\* for more than there is.)
RequestEnds == Textual ~> pc \in {"done", "cached", "crashed", "overrun"}

-----------------------------------------------------------------------------
(* What a comment says and the code does not do *)

\* A response is kept only if every write of it to the client succeeded.
KeptOnlyIfWritten == kept # <<>> => ~failed
=============================================================================
