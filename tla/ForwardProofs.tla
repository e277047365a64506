---------------------------- MODULE ForwardProofs ----------------------------
(***************************************************************************)
(* Forward, for every response, every size of the buffers and every number *)
(* of polls that ForwardAssumption allows: what has been read, what the     *)
(* client has of it, what the buffer for the cache holds, and what is left. *)
(* The last part is about the end of the request: it never waits for itself *)
(* and every step brings the end nearer.                                    *)
(***************************************************************************)
EXTENDS Forward, SequenceLemmas

-----------------------------------------------------------------------------
(* Numbers and bytes *)

\* The lesser of two numbers.
LEMMA MinOfTwo ==
  ASSUME NEW a \in Nat, NEW b \in Nat
  PROVE  /\ Min({a, b}) \in Nat /\ Min({a, b}) <= a /\ Min({a, b}) <= b
         /\ Min({a, b}) \in {a, b}
<1>1. \E x \in {a, b} : \A y \in {a, b} : x <= y
  BY Z3
<1>2. Min({a, b}) \in {a, b} /\ \A y \in {a, b} : Min({a, b}) <= y
  BY <1>1 DEF Min
<1> QED
  BY <1>2

\* What is left of a length that may be too short.
LEMMA MaxWithZero ==
  ASSUME NEW x \in Int
  PROVE  Max({0, x}) = IF x > 0 THEN x ELSE 0
<1>1. \E m \in {0, x} : \A y \in {0, x} : m >= y
  OBVIOUS
<1>2. Max({0, x}) \in {0, x} /\ \A y \in {0, x} : Max({0, x}) >= y
  BY <1>1 DEF Max
<1> QED
  BY <1>2

\* What a read brings.
LEMMA BytesFacts ==
  ASSUME taken \in Nat, NEW n \in Nat
  PROVE  /\ Bytes(n) \in Seq(Nat) /\ Len(Bytes(n)) = n
         /\ \A i \in 1 .. n : Bytes(n)[i] = taken + i
  BY DEF Bytes

\* What is read behind the first bytes of a response are the next ones.
LEMMA NumberedOn ==
  ASSUME taken \in Nat, NEW s \in Seq(Nat), Numbered(s), Len(s) = taken,
         NEW n \in Nat, NEW k \in 0 .. n
  PROVE  LET t == s \o SubSeq(Bytes(n), 1, k)
         IN  t \in Seq(Nat) /\ Len(t) = taken + k /\ Numbered(t)
<1> DEFINE b == SubSeq(Bytes(n), 1, k)
<1>1. Bytes(n) \in Seq(Nat) /\ Len(Bytes(n)) = n /\ \A i \in 1 .. n : Bytes(n)[i] = taken + i
  BY BytesFacts
<1>2. b \in Seq(Nat) /\ Len(b) = k /\ k \in Nat /\ \A i \in 1 .. k : b[i] = taken + i
  BY <1>1
<1> HIDE DEF b
<1>3. /\ s \o b \in Seq(Nat) /\ Len(s \o b) = Len(s) + Len(b)
      /\ \A i \in 1 .. Len(s) + Len(b) :
           (s \o b)[i] = IF i <= Len(s) THEN s[i] ELSE b[i - Len(s)]
  BY <1>2, ConcatProperties
<1>4. ASSUME NEW i \in 1 .. taken + k PROVE (s \o b)[i] = i
  <2>1. CASE i <= taken
    <3>1. s[i] = i
      BY <2>1 DEF Numbered
    <3> QED
      BY <1>2, <1>3, <2>1, <3>1
  <2>2. CASE i > taken
    <3>1. i - taken \in 1 .. k
      BY <1>2, <2>2
    <3> QED
      BY <1>2, <1>3, <2>2, <3>1
  <2> QED
    BY <1>2, <2>1, <2>2
<1> QED
  BY <1>2, <1>3, <1>4 DEF Numbered, b

\* All of a read is its first n bytes.
LEMMA AllBytes ==
  ASSUME taken \in Nat, NEW n \in Nat
  PROVE  SubSeq(Bytes(n), 1, n) = Bytes(n)
  BY DEF Bytes

\* A buffer as a string is the buffer, or shorter.
LEMMA TextFacts ==
  ASSUME NEW s \in Seq(Nat)
  PROVE  /\ Text(s) \in Seq(Nat)
         /\ Text(s) = s \/ Len(Text(s)) < Len(s)
         /\ Textual => Text(s) = s
<1> DEFINE I == {i \in 1 .. Len(s) : s[i] \in resp.zeros}
           z == IF I # {} THEN Min(I) ELSE 0
<1>1. Text(s) = IF z = 0 THEN s ELSE SubSeq(s, 1, z - 1)
  BY DEF Text, SelectInSeq
<1>2. CASE I = {}
  BY <1>1, <1>2
<1>3. CASE I # {}
  <2>1. Min(I) \in I
    <3>1. I \subseteq Nat
      OBVIOUS
    <3> QED
      BY <1>3, <3>1, MinIsMember
  <2>2. z \in 1 .. Len(s) /\ s[z] \in resp.zeros
    BY <1>3, <2>1
  <2>3. ~Textual
    BY <2>2 DEF Textual
  <2> HIDE DEF z
  <2>4. z - 1 \in 0 .. Len(s) /\ z # 0 /\ Len(s) \in Nat
    BY <2>2
  <2>5. SubSeq(s, 1, z - 1) \in Seq(Nat) /\ Len(SubSeq(s, 1, z - 1)) = z - 1
    BY <2>4
  <2>6. Text(s) = SubSeq(s, 1, z - 1)
    BY <1>1, <2>4
  <2> QED
    BY <2>2, <2>3, <2>5, <2>6
<1> QED
  BY <1>2, <1>3

\* The newline that parseResponse() puts back keeps the length, and the bytes of a text.
LEMMA NewlinedFacts ==
  ASSUME NEW s \in Seq(Nat)
  PROVE  /\ Newlined(s) \in Seq(Nat) /\ Len(Newlined(s)) = Len(s)
         /\ Textual => Newlined(s) = s
<1>1. CASE Text(s) = s
  BY <1>1 DEF Newlined
<1>2. CASE Text(s) # s
  <2>1. Text(s) \in Seq(Nat) /\ Len(Text(s)) < Len(s) /\ ~Textual
    BY <1>2, TextFacts
  <2>2. Newlined(s) = [s EXCEPT ![Len(Text(s)) + 1] = Foreign]
    BY <1>2 DEF Newlined
  <2> QED
    BY <2>1, <2>2 DEF Foreign
<1> QED
  BY <1>1, <1>2

\* The error message.
LEMMA OneByte ==
  /\ Len(<<Foreign>>) = 1
  /\ SubSeq(<<Foreign>>, 1, 0) = <<>> /\ SubSeq(<<Foreign>>, 1, 1) = <<Foreign>>
  /\ <<>> \o <<>> = <<>> /\ <<>> \o <<Foreign>> = <<Foreign>>
<1>1. <<Foreign>> \in Seq(Nat) /\ Len(<<Foreign>>) = 1 /\ <<>> \in Seq(Nat)
  BY DEF Foreign
<1>2. SubSeq(<<Foreign>>, 1, 1) = <<Foreign>>
  BY <1>1, SubSeqFull
<1>3. SubSeq(<<Foreign>>, 1, 0) = <<>>
  BY <1>1, SubSeqEmpty
<1>4. <<>> \o <<>> = <<>> /\ <<>> \o <<Foreign>> = <<Foreign>>
  BY <1>1, ConcatEmptySeq
<1> QED
  BY <1>1, <1>2, <1>3, <1>4

\* A sequence is a beginning of itself and of what continues it.
LEMMA PrefixOfLonger ==
  ASSUME NEW s \in Seq(Nat), NEW t \in Seq(Nat)
  PROVE  IsPrefix(s, s) /\ IsPrefix(s, s \o t)
<1>1. SubSeq(s, 1, Len(s)) = s /\ SubSeq(s \o t, 1, Len(s)) = s
  OBVIOUS
<1> QED
  BY <1>1 DEF IsPrefix

-----------------------------------------------------------------------------
(* The invariant *)

\* Types; put() got nothing, or the buffer.
Typed ==
  /\ mode \in {"forward", "refill"} /\ resp \in Responses /\ rest \in BOOLEAN
  /\ arrived \in 0 .. resp.bytes /\ taken \in 0 .. arrived /\ closed \in BOOLEAN
  /\ pc \in {"connect", "initial", "parse", "compare", "answer", "length", "chunks",
             "store", "cached", "done", "crashed", "overrun"}
  /\ buf \in Seq(Nat) /\ client \in Seq(Nat) /\ cacheBuff \in Seq(Nat)
  /\ cap \in Nat /\ size \in Nat /\ grace \in 0 .. Grace
  /\ bodyLeft \in Nat /\ relayed \in Nat
  /\ canCache \in BOOLEAN /\ kept \in {<<>>, <<cacheBuff>>}
  /\ failed \in BOOLEAN /\ late \in BOOLEAN

Before == {"connect", "initial", "parse", "compare"}
Transfers == {"length", "chunks"}

\* Until the answer, the buffer holds what was read and nothing has been done with it.
Untouched ==
  /\ pc = "connect" => taken = 0
  /\ pc \in Before => Numbered(buf) /\ bodyLeft = 0
  /\ pc \in Before \cup {"answer"} =>
       /\ Len(buf) = taken /\ taken < RESPONSE_HEADER_SIZE
       /\ client = <<>> /\ cacheBuff = <<>> /\ size = 0 /\ cap = RESPONSE_HEADER_SIZE
       /\ relayed = 0 /\ ~canCache /\ ~failed

\* Which function runs, and for which responses; put() runs last.
Placed ==
  /\ pc \in {"parse", "answer", "length"} => mode = "forward"
  /\ pc = "compare" => mode = "refill"
  /\ pc = "answer" => resp.headers <= taken
  /\ pc = "length" => resp.framing = "length"
  /\ pc = "chunks" => mode = "refill" \/ resp.framing = "chunked"
  /\ pc \in Transfers => ~failed
  /\ pc # "done" => kept = <<>>

\* Of a text, the client has the first bytes: all that were read, if no write failed.
Relayed ==
  Textual =>
    /\ Numbered(client) \/ (pc = "done" /\ taken <= Shortest /\ client = <<Foreign>>)
    /\ ~failed /\ pc \in Transfers \cup {"store", "overrun"} => Len(client) = taken
    /\ pc = "answer" => Numbered(buf)

\* The buffer for the cache has the size that bufferedForward() counts, and no more than
\* was read in transferChunks(), the rest of the request aside.
Room ==
  /\ RESPONSE_HEADER_SIZE <= cap
  /\ pc = "length" => Len(cacheBuff) <= size /\ size <= cap
  /\ pc \in {"chunks", "overrun"} =>
       Len(cacheBuff) <= taken \/ (rest /\ mode = "forward")
  /\ pc = "overrun" => Len(cacheBuff) > cap

\* It holds what the client was sent, or nothing; after a failed write less.
Clean == Textual /\ ~(rest /\ mode = "forward" /\ resp.framing = "chunked")
Copied ==
  Clean =>
    /\ pc \in Transfers => cacheBuff = IF canCache THEN client ELSE <<>>
    /\ (pc = "store" /\ canCache) \/ kept # <<>> =>
         IsPrefix(cacheBuff, client) /\ (~failed => cacheBuff = client)

\* Unless something has gone wrong: what bodyLeft and relayed say is left of a text is what
\* is left, and a loop ends when nothing is.
Left ==
  /\ pc = "connect" => grace # 0
  /\ ~late /\ grace = 0 /\ pc \in {"initial", "chunks"} => taken = resp.bytes
  /\ Undisturbed /\ pc \in {"parse", "compare", "answer"} => ~InitialRoom \/ taken = resp.bytes
  /\ Textual /\ pc = "answer" /\ resp.framing = "length" =>
       bodyLeft = IF taken = resp.headers THEN 0 ELSE resp.bytes - taken
  /\ Textual /\ pc = "length" => bodyLeft - relayed = resp.bytes - taken

\* At the end, then, all of it has been read and sent.
Expected == Undisturbed /\ Textual /\ Announced /\ resp.headers < RESPONSE_HEADER_SIZE - BUFSIZE
Sent ==
  Expected =>
    /\ pc = "store" => taken = resp.bytes
    /\ pc = "done" /\ taken > 0 => Whole(client)

IInv == Typed /\ Untouched /\ Placed /\ Relayed /\ Room /\ Copied /\ Left /\ Sent

\* What the constants and the response are.
LEMMA Sizes ==
  ASSUME Typed
  PROVE  /\ BUFSIZE \in Nat /\ BUFSIZE > 0 /\ RESPONSE_HEADER_SIZE \in Nat
         /\ RESPONSE_HEADER_SIZE > 2 * BUFSIZE
         /\ Grace \in Nat /\ Grace > 0 /\ Shortest \in Nat
         /\ resp \in Responses /\ resp \in ResponseType
         /\ resp.bytes \in Nat /\ resp.headers \in Nat
         /\ Shortest < resp.headers /\ resp.headers <= resp.bytes
         /\ arrived \in Nat /\ arrived <= resp.bytes /\ taken \in Nat /\ taken <= arrived
         /\ grace \in Nat /\ grace <= Grace
<1>1. resp \in Responses /\ resp \in ResponseType
  BY ForwardAssumption DEF Typed
<1>2. resp.bytes \in Nat /\ resp.headers \in Nat
  BY <1>1 DEF ResponseType
<1> QED
  BY <1>1, <1>2, ForwardAssumption DEF Typed

\* The invariant holds at the start.
LEMMA InvInit == Init => IInv
<1> SUFFICES ASSUME Init PROVE IInv
  OBVIOUS
<1>1. resp \in Responses /\ resp \in ResponseType /\ Grace \in Nat /\ Grace > 0
      /\ RESPONSE_HEADER_SIZE \in Nat /\ RESPONSE_HEADER_SIZE > 0
  BY ForwardAssumption DEF Init
<1>2. resp.bytes \in Nat
  BY <1>1 DEF ResponseType
<1>3. Typed
  <2>1. /\ 0 \in 0 .. resp.bytes /\ 0 \in 0 .. 0 /\ Grace \in 0 .. Grace
        /\ <<>> \in Seq(Nat)
    BY <1>1, <1>2
  <2>2. kept \in {<<>>, <<cacheBuff>>}
    BY DEF Init
  <2> QED
    BY <1>1, <2>1, <2>2 DEF Init, Typed
<1>4. Untouched /\ Placed /\ Room
  BY <1>1 DEF Init, Untouched, Placed, Room, Before, Transfers, Numbered
<1>5. Relayed /\ Copied /\ Left /\ Sent
  BY <1>1 DEF Init, Relayed, Copied, Left, Sent, Transfers, Numbered
<1> QED
  BY <1>3, <1>4, <1>5 DEF IInv

-----------------------------------------------------------------------------
(* The steps *)

\* The steps that neither read nor write.
Quiet ==
  \/ Connect \/ Poll \/ ReadFails \/ InitialDone \/ HeadersIncomplete \/ NotModified
  \/ ForwardEnds \/ ChunksEnd \/ Arrive \/ OriginCloses \/ UNCHANGED vars

\* They leave what was read and written alone, and go on as the code does.
LEMMA QuietFacts ==
  ASSUME Quiet
  PROVE  /\ UNCHANGED <<request, taken, buf, client, cacheBuff, cap, size, bodyLeft,
                        relayed, kept, failed>>
         /\ \/ pc' = pc /\ canCache' = canCache
            \/ pc = "connect" /\ pc' \in {"initial", "done"} /\ canCache' = canCache
            \/ /\ pc = "initial" /\ canCache' = canCache
               /\ pc' \in {"done", IF mode = "forward" THEN "parse" ELSE "compare"}
            \/ pc = "parse" /\ pc' = "crashed" /\ canCache' = canCache
            \/ pc = "compare" /\ pc' = "cached" /\ canCache' = canCache
            \/ pc \in Transfers /\ pc' = "store" /\ (canCache' = canCache \/ canCache' = FALSE)
<1>1. CASE Connect \/ InitialDone \/ HeadersIncomplete \/ NotModified
  BY <1>1 DEF Connect, InitialDone, HeadersIncomplete, NotModified, request, origin, caching,
              progress
<1>2. CASE Poll \/ Arrive \/ OriginCloses \/ UNCHANGED vars
  BY <1>2 DEF Poll, Arrive, OriginCloses, vars, request, origin, caching, progress
<1>3. CASE ReadFails \/ ForwardEnds \/ ChunksEnd
  BY <1>3 DEF ReadFails, ForwardEnds, ChunksEnd, Transfers, request, origin, caching, progress
<1> QED
  BY <1>1, <1>2, <1>3 DEF Quiet

\* What a quiet step may do to the rest.
LEMMA QuietRest ==
  ASSUME Typed, Quiet
  PROVE  /\ arrived' \in 0 .. resp.bytes /\ arrived <= arrived' /\ closed' \in BOOLEAN
         /\ grace' \in 0 .. Grace /\ late' \in BOOLEAN
         /\ (late => late') /\ (closed => closed' /\ arrived' = arrived)
<1>0. /\ arrived \in Nat /\ arrived <= resp.bytes /\ resp.bytes \in Nat
      /\ grace \in 0 .. Grace /\ Grace \in Nat /\ closed \in BOOLEAN /\ late \in BOOLEAN
  BY Sizes DEF Typed
<1>1. CASE Connect \/ InitialDone \/ HeadersIncomplete \/ NotModified \/ ForwardEnds
           \/ ChunksEnd \/ UNCHANGED vars
  <2>1. UNCHANGED <<arrived, closed, grace, late>>
    BY <1>1 DEF Connect, InitialDone, HeadersIncomplete, NotModified, ForwardEnds, ChunksEnd,
                origin, vars
  <2> QED
    BY <1>0, <2>1
<1>2. CASE Poll
  <2>1. UNCHANGED <<arrived, closed>> /\ grace > 0 /\ grace' = grace - 1
    BY <1>2 DEF Poll, PollsLeft, origin
  <2>2. late' \in BOOLEAN /\ (late => late')
    BY <1>2 DEF Poll
  <2> QED
    BY <1>0, <2>1, <2>2
<1>3. CASE ReadFails
  <2>1. UNCHANGED <<arrived, closed, grace, late>>
    BY <1>3 DEF ReadFails, origin
  <2> QED
    BY <1>0, <2>1
<1>4. CASE Arrive
  <2>1. UNCHANGED <<closed, grace, late>> /\ arrived < resp.bytes /\ arrived' = arrived + 1
        /\ ~closed
    BY <1>4 DEF Arrive
  <2> QED
    BY <1>0, <2>1
<1>5. CASE OriginCloses
  <2>1. UNCHANGED <<arrived, grace, late>> /\ closed' = TRUE
    BY <1>5 DEF OriginCloses
  <2> QED
    BY <1>0, <2>1
<1> QED
  BY <1>1, <1>2, <1>3, <1>4, <1>5 DEF Quiet

\* How much one read takes.
LEMMA ReadSize ==
  ASSUME Typed, NEW b \in Nat, b > 0, Available > 0
  PROVE  LET n == Min({b, Available})
         IN  n \in Nat /\ n > 0 /\ n <= b /\ taken + n <= arrived
<1>1. Available \in Nat /\ taken \in Nat /\ arrived \in Nat /\ Available = arrived - taken
  BY Sizes DEF Available
<1> QED
  BY <1>1, MinOfTwo

\* The first reading loop reads behind what it has read.
LEMMA InitialReadFacts ==
  ASSUME Typed, InitialRead
  PROVE  \E n \in Nat :
           /\ pc = "initial" /\ n > 0 /\ n <= BUFSIZE
           /\ taken < RESPONSE_HEADER_SIZE - BUFSIZE
           /\ taken' = taken + n /\ taken + n <= arrived /\ buf' = buf \o Bytes(n)
           /\ UNCHANGED <<request, origin, pc, client, caching, grace, progress, failed, late>>
<1> DEFINE n == Min({BUFSIZE, Available})
<1>1. n \in Nat /\ n > 0 /\ n <= BUFSIZE /\ taken + n <= arrived
  BY Sizes, ReadSize DEF InitialRead
<1>2. /\ pc = "initial" /\ taken < RESPONSE_HEADER_SIZE - BUFSIZE
      /\ taken' = taken + n /\ buf' = buf \o Bytes(n)
      /\ UNCHANGED <<request, origin, pc, client, caching, grace, progress, failed, late>>
  BY DEF InitialRead, InitialRoom, AtPointer
<1> HIDE DEF n
<1> QED
  BY <1>1, <1>2

\* Where forwardRequest() goes on.
AfterHeaders ==
  \/ pc' = "length" /\ resp.framing = "length" /\ bodyLeft > 0
  \/ pc' = "chunks" /\ resp.framing = "chunked"
  \/ pc' = "store" /\ resp.framing # "chunked" /\ ~(resp.framing = "length" /\ bodyLeft > 0)

\* The first bytes to the client, and to the buffer for the cache.
LEMMA AnswerFacts ==
  ASSUME Typed, Answer \/ ForwardEverything
  PROVE  /\ UNCHANGED <<mode, resp, rest, arrived, closed, taken, buf, bodyLeft, relayed, late,
                        cap, kept>>
         /\ pc \in {"answer", "compare"}
         /\ \/ /\ WriteAll(buf)
               /\ \/ pc = "answer" /\ AfterHeaders
                  \/ pc = "compare" /\ pc' = "chunks"
               /\ canCache' \in BOOLEAN /\ grace' = Grace
               /\ cacheBuff' = IF canCache' THEN Text(buf) ELSE <<>>
               /\ size' = Len(cacheBuff')
            \/ /\ WriteFails(buf) /\ pc' = "done"
               /\ UNCHANGED <<canCache, cacheBuff, size, grace>>
<1>1. resp.keep \in BOOLEAN
  BY Sizes DEF ResponseType
<1>2. CASE Answer
  <2> DEFINE Where == CASE resp.framing = "length" /\ bodyLeft > 0 -> "length"
                        [] resp.framing = "chunked" -> "chunks"
                        [] OTHER -> "store"
  <2>1. pc' = Where => AfterHeaders
    <3>1. CASE resp.framing = "length" /\ bodyLeft > 0
      <4>1. Where = "length"
        BY <3>1
      <4> QED
        BY <3>1, <4>1 DEF AfterHeaders
    <3>2. CASE resp.framing = "chunked"
      <4>1. Where = "chunks"
        BY <3>2
      <4> QED
        BY <3>2, <4>1 DEF AfterHeaders
    <3>3. CASE ~(resp.framing = "length" /\ bodyLeft > 0) /\ resp.framing # "chunked"
      <4>1. Where = "store"
        BY <3>3
      <4> QED
        BY <3>3, <4>1 DEF AfterHeaders
    <3> QED
      BY <3>1, <3>2, <3>3
  <2>2. WriteAll(buf) /\ StartRelay(Where, resp.keep) => pc' = Where
    BY DEF StartRelay
  <2>3. \/ WriteAll(buf) /\ StartRelay(Where, resp.keep)
        \/ WriteFails(buf) /\ pc' = "done" /\ UNCHANGED <<caching, grace>>
    BY <1>2 DEF Answer
  <2>4. pc = "answer" /\ UNCHANGED <<request, origin, taken, buf, progress, late>>
    BY <1>2 DEF Answer
  <2> HIDE DEF Where
  <2> QED
    BY <1>1, <1>2, <2>1, <2>2, <2>3, <2>4 DEF StartRelay, request, origin, caching, progress
<1>3. CASE ForwardEverything
  BY <1>3 DEF ForwardEverything, StartRelay, request, origin, caching, progress
<1> QED
  BY <1>2, <1>3

\* Reads and writes of the body.
Fails(n) ==
  /\ WriteFails(Bytes(n)) /\ pc' = "store" /\ (canCache' = canCache \/ canCache' = FALSE)
  /\ UNCHANGED <<cacheBuff, cap, size, relayed>>

ForwardsAll(n) ==
  /\ WriteAll(Bytes(n)) /\ Copy(n)
  /\ relayed' = relayed + n
  /\ UNCHANGED <<pc, canCache>>

TransfersAll(n) ==
  /\ WriteAll(Bytes(n))
  /\ cacheBuff' = IF canCache THEN cacheBuff \o Text(Bytes(n)) \o Leftover(n) ELSE cacheBuff
  /\ pc' = IF Len(cacheBuff') > cap THEN "overrun" ELSE pc
  /\ UNCHANGED <<canCache, cap, size, relayed>>

\* bufferedForward() and transferChunks() read some bytes and write them, or fail to.
LEMMA RelayFacts ==
  ASSUME Typed, ForwardRead \/ ChunksRead
  PROVE  \E n \in Nat :
           /\ n > 0 /\ n <= RESPONSE_HEADER_SIZE /\ taken' = taken + n /\ taken + n <= arrived
           /\ UNCHANGED <<mode, resp, rest, arrived, closed, buf, kept, grace, bodyLeft, late>>
           /\ \/ pc = "length" /\ relayed < bodyLeft /\ (ForwardsAll(n) \/ Fails(n))
              \/ pc = "chunks" /\ grace > 0 /\ (TransfersAll(n) \/ Fails(n))
<1>1. CASE ForwardRead
  <2> DEFINE n == Min({RESPONSE_HEADER_SIZE, Available})
  <2>1. n \in Nat /\ n > 0 /\ n <= RESPONSE_HEADER_SIZE /\ taken + n <= arrived
    BY <1>1, Sizes, ReadSize DEF ForwardRead
  <2>2. /\ pc = "length" /\ relayed < bodyLeft /\ taken' = taken + n
        /\ UNCHANGED <<mode, resp, rest, arrived, closed, buf, kept, grace, bodyLeft, late>>
    BY <1>1 DEF ForwardRead, request, origin
  <2>3. ForwardsAll(n) \/ Fails(n)
    BY <1>1 DEF ForwardRead, ForwardsAll, Fails, CopyNothing
  <2> HIDE DEF n
  <2> QED
    BY <2>1, <2>2, <2>3
<1>2. CASE ChunksRead
  <2> DEFINE n == Min({BUFSIZE, Available})
  <2>1. n \in Nat /\ n > 0 /\ n <= BUFSIZE /\ taken + n <= arrived
    BY <1>2, Sizes, ReadSize DEF ChunksRead
  <2>2. n <= RESPONSE_HEADER_SIZE
    BY <2>1, Sizes
  <2>3. /\ pc = "chunks" /\ grace > 0 /\ taken' = taken + n
        /\ UNCHANGED <<mode, resp, rest, arrived, closed, buf, kept, grace, bodyLeft, late>>
    BY <1>2 DEF ChunksRead, request, origin, progress
  <2>4. TransfersAll(n) \/ Fails(n)
    BY <1>2 DEF ChunksRead, TransfersAll, Fails, progress
  <2> HIDE DEF n
  <2> QED
    BY <2>1, <2>2, <2>3, <2>4
<1> QED
  BY <1>1, <1>2

\* What Next consists of.
LEMMA Kinds ==
  ASSUME [Next]_vars
  PROVE  \/ Quiet \/ InitialRead \/ NoResponse \/ Parse \/ (Answer \/ ForwardEverything)
         \/ (ForwardRead \/ ChunksRead) \/ Store
  BY DEF Next, Proxy, Quiet

\* The request and its response stay what they are.
LEMMA RespStays ==
  ASSUME [Next]_vars
  PROVE  UNCHANGED <<mode, resp, rest>>
<1>1. CASE Quiet \/ InitialRead \/ NoResponse \/ Parse \/ Store
  BY <1>1 DEF Quiet, Connect, Poll, ReadFails, InitialDone, HeadersIncomplete, NotModified,
              ForwardEnds, ChunksEnd, Arrive, OriginCloses, vars, InitialRead, NoResponse,
              Parse, Store, request
<1>2. CASE Answer \/ ForwardEverything \/ ForwardRead \/ ChunksRead
  BY <1>2 DEF Answer, ForwardEverything, ForwardRead, ChunksRead, request
<1> QED
  BY <1>1, <1>2, Kinds

\* What writing leaves with the client.
LEMMA Writes ==
  ASSUME Typed, NEW b \in Seq(Nat)
  PROVE  /\ WriteAll(b) => client' \in Seq(Nat) /\ failed' = failed
         /\ WriteFails(b) => client' \in Seq(Nat) /\ failed'
<1>1. ASSUME WriteFails(b) PROVE client' \in Seq(Nat) /\ failed'
  <2>1. PICK k \in 0 .. Len(b) : client' = client \o SubSeq(b, 1, k)
    BY <1>1 DEF WriteFails
  <2>2. SubSeq(b, 1, k) \in Seq(Nat)
    OBVIOUS
  <2> QED
    BY <1>1, <2>1, <2>2, ConcatProperties DEF WriteFails, Typed
<1>2. ASSUME WriteAll(b) PROVE client' \in Seq(Nat) /\ failed' = failed
  BY <1>2, ConcatProperties DEF WriteAll, Typed
<1> QED
  BY <1>1, <1>2

\* What parseResponse() finds is left of the body.
LEMMA BodyLeftFacts ==
  ASSUME Typed, resp.headers <= Len(buf)
  PROVE  /\ Parsed \in Nat
         /\ Textual /\ Len(buf) = taken /\ resp.framing = "length" =>
              Parsed = IF taken = resp.headers THEN 0 ELSE resp.bytes - taken
<1> DEFINE h == resp.headers
           rawBody == SubSeq(buf, h + 1, Len(buf))
           length == IF resp.framing = "length" THEN resp.bytes - h ELSE 0
<1>1. /\ h \in Nat /\ Len(buf) \in Nat /\ h <= Len(buf) /\ length \in Int
      /\ taken \in Nat /\ taken <= resp.bytes /\ resp.bytes \in Nat
  <2>1. /\ h \in Nat /\ h <= Len(buf) /\ resp.bytes \in Nat
        /\ taken \in Nat /\ arrived \in Nat /\ taken <= arrived /\ arrived <= resp.bytes
    BY Sizes
  <2>2. Len(buf) \in Nat
    BY DEF Typed
  <2>3. length \in Int
    BY <2>1
  <2> QED
    BY <2>1, <2>2, <2>3
<1>2. rawBody \in Seq(Nat) /\ Len(rawBody) = Len(buf) - h
  <2> HIDE DEF h
  <2>1. \A i \in h + 1 .. Len(buf) : buf[i] \in Nat
    BY <1>1 DEF Typed
  <2>2. /\ rawBody \in Seq(Nat)
        /\ Len(rawBody) = IF h + 1 <= Len(buf) THEN Len(buf) - (h + 1) + 1 ELSE 0
    BY <1>1, <2>1, SubSeqProperties
  <2> QED
    BY <1>1, <2>2
<1>3. BodySizeLeft = IF Text(rawBody) = <<>> THEN 0 ELSE length - Len(Text(rawBody))
  BY DEF BodySizeLeft
<1> HIDE DEF rawBody
<1>4. /\ Text(rawBody) \in Seq(Nat) /\ Len(Text(rawBody)) \in Nat
      /\ Textual => Text(rawBody) = rawBody
  BY <1>2, TextFacts
<1>5. BodySizeLeft \in Int
  <2> HIDE DEF length
  <2> QED
    BY <1>1, <1>3, <1>4
<1>6. Parsed = IF BodySizeLeft > 0 THEN BodySizeLeft ELSE 0
  BY <1>5, MaxWithZero DEF Parsed
<1>7. ASSUME Textual, Len(buf) = taken, resp.framing = "length"
      PROVE  Parsed = IF taken = h THEN 0 ELSE resp.bytes - taken
  <2>1. Text(rawBody) = rawBody /\ Len(rawBody) = taken - h /\ length = resp.bytes - h
    BY <1>2, <1>4, <1>7
  <2>2. rawBody = <<>> <=> taken = h
    BY <1>1, <1>2, <2>1
  <2>3. BodySizeLeft = IF taken = h THEN 0 ELSE (resp.bytes - h) - (taken - h)
    BY <1>3, <2>1, <2>2
  <2>4. (resp.bytes - h) - (taken - h) = resp.bytes - taken /\ resp.bytes - taken >= 0
    BY <1>1
  <2> HIDE DEF h, length
  <2> QED
    BY <1>1, <1>6, <2>3, <2>4
<1> QED
  BY <1>5, <1>6, <1>7

-----------------------------------------------------------------------------
(* Every step keeps the types *)

\* What is read, written or counted stays of its type.
LEMMA TypedStep ==
  ASSUME Typed, Placed, [Next]_vars
  PROVE  Typed'
<1> DEFINE Pcs == {"connect", "initial", "parse", "compare", "answer", "length", "chunks",
                   "store", "cached", "done", "crashed", "overrun"}
<1>1. CASE Quiet
  <2>1. /\ UNCHANGED <<mode, resp, rest, taken, buf, client, cacheBuff, cap, size, bodyLeft,
                       relayed, kept, failed>>
        /\ pc' \in Pcs /\ canCache' \in BOOLEAN
    BY <1>1, QuietFacts DEF Typed, request, Transfers
  <2>2. /\ arrived' \in 0 .. resp.bytes /\ arrived <= arrived' /\ closed' \in BOOLEAN
        /\ grace' \in 0 .. Grace /\ late' \in BOOLEAN
    BY <1>1, QuietRest
  <2>3. taken \in 0 .. arrived'
    BY <2>2, Sizes
  <2> QED
    BY <2>1, <2>2, <2>3 DEF Typed
<1>2. CASE InitialRead
  <2>1. PICK n \in Nat : /\ taken' = taken + n /\ taken + n <= arrived /\ buf' = buf \o Bytes(n)
                         /\ UNCHANGED <<request, origin, pc, client, caching, grace, progress,
                                        failed, late>>
    BY <1>2, InitialReadFacts
  <2>2. taken + n \in 0 .. arrived
    BY <2>1, Sizes
  <2>3. buf \o Bytes(n) \in Seq(Nat)
    BY Sizes, BytesFacts, ConcatProperties DEF Typed
  <2> QED
    BY <2>1, <2>2, <2>3 DEF Typed, request, origin, caching, progress
<1>3. CASE NoResponse
  <2>1. client' \in Seq(Nat) /\ failed' \in BOOLEAN
    <3>1. <<Foreign>> \in Seq(Nat)
      BY DEF Foreign
    <3> QED
      BY <1>3, <3>1, Writes DEF NoResponse, Typed
  <2> QED
    BY <1>3, <2>1 DEF NoResponse, Typed, request, origin, caching, progress
<1>4. CASE Parse
  <2>1. Newlined(buf) \in Seq(Nat) /\ Newlined(Newlined(buf)) \in Seq(Nat)
    BY NewlinedFacts DEF Typed
  <2>2. Parsed \in Nat
    BY <1>4, BodyLeftFacts DEF Parse, Typed
  <2> QED
    BY <1>4, <2>1, <2>2 DEF Parse, Typed, request, origin, caching
<1>5. CASE Answer \/ ForwardEverything
  <2>1. /\ UNCHANGED <<mode, resp, rest, arrived, closed, taken, buf, bodyLeft, relayed, late,
                       cap, kept>>
        /\ kept = <<>>
    BY <1>5, AnswerFacts DEF Placed
  <2>2. CASE WriteAll(buf)
    <3>1. /\ client' \in Seq(Nat) /\ failed' \in BOOLEAN /\ Text(buf) \in Seq(Nat)
          /\ Grace \in 0 .. Grace
      BY <2>2, Writes, TextFacts, Sizes DEF Typed
    <3>2. CASE pc' \in Pcs /\ canCache' \in BOOLEAN /\ grace' = Grace
               /\ cacheBuff' = (IF canCache' THEN Text(buf) ELSE <<>>) /\ size' = Len(cacheBuff')
      <4>1. cacheBuff' \in Seq(Nat)
        BY <3>1, <3>2
      <4>2. size' \in Nat
        BY <3>2, <4>1, LenProperties
      <4> QED
        BY <2>1, <3>1, <3>2, <4>1, <4>2 DEF Typed
    <3>3. CASE WriteFails(buf) /\ pc' = "done" /\ UNCHANGED <<canCache, cacheBuff, size, grace>>
      BY <2>1, <3>1, <3>3 DEF Typed
    <3> QED
      BY <1>5, <3>2, <3>3, AnswerFacts DEF AfterHeaders
  <2>3. CASE WriteFails(buf) /\ pc' = "done" /\ UNCHANGED <<canCache, cacheBuff, size, grace>>
    <3>1. client' \in Seq(Nat) /\ failed' \in BOOLEAN
      BY <2>3, Writes DEF Typed, WriteFails
    <3> QED
      BY <2>1, <2>3, <3>1 DEF Typed
  <2> QED
    BY <1>5, <2>2, <2>3, AnswerFacts
<1>6. CASE ForwardRead \/ ChunksRead
  <2>1. PICK n \in Nat :
          /\ taken' = taken + n /\ taken + n <= arrived
          /\ UNCHANGED <<mode, resp, rest, arrived, closed, buf, kept, grace, bodyLeft, late>>
          /\ \/ pc = "length" /\ (ForwardsAll(n) \/ Fails(n))
             \/ pc = "chunks" /\ (TransfersAll(n) \/ Fails(n))
    BY <1>6, RelayFacts
  <2>2. kept = <<>> /\ taken + n \in 0 .. arrived
    BY <2>1, Sizes DEF Placed
  <2>3. Bytes(n) \in Seq(Nat) /\ Text(Bytes(n)) \in Seq(Nat) /\ Leftover(n) \in Seq(Nat)
    <3>1. Bytes(n) \in Seq(Nat)
      BY Sizes, BytesFacts
    <3>2. <<Foreign>> \in Seq(Nat) /\ <<>> \in Seq(Nat)
      BY DEF Foreign
    <3>3. Leftover(n) \in {<<>>, <<Foreign>>}
      BY DEF Leftover
    <3> QED
      BY <3>1, <3>2, <3>3, TextFacts
  <2>4. CASE Fails(n)
    <3>1. client' \in Seq(Nat) /\ failed' \in BOOLEAN
      BY <2>3, <2>4, Writes DEF Fails, WriteFails
    <3> QED
      BY <2>1, <2>2, <2>4, <3>1 DEF Fails, Typed
  <2>5. CASE pc = "length" /\ ForwardsAll(n)
    <3>1. client' \in Seq(Nat) /\ failed' \in BOOLEAN
      BY <2>3, <2>5, Writes DEF ForwardsAll, Typed
    <3>2. cacheBuff \o Text(Bytes(n)) \in Seq(Nat)
      BY <2>3, ConcatProperties DEF Typed
    <3>3. cacheBuff' \in Seq(Nat) /\ size' \in Nat /\ cap' \in Nat
      <4>1. size \in Nat /\ cap \in Nat /\ 2 * cap \in Nat /\ size + n \in Nat
            /\ cacheBuff \in Seq(Nat)
        BY DEF Typed
      <4>2. \/ UNCHANGED <<cacheBuff, cap, size>>
            \/ /\ cap' \in {2 * cap, cap} /\ size' = size + n
               /\ cacheBuff' = cacheBuff \o Text(Bytes(n))
        BY <2>5 DEF ForwardsAll, Copy, Grow
      <4> QED
        BY <3>2, <4>1, <4>2
    <3>4. relayed' \in Nat
      BY <2>5 DEF ForwardsAll, Typed
    <3> QED
      BY <2>1, <2>2, <2>5, <3>1, <3>3, <3>4 DEF ForwardsAll, Typed
  <2>6. CASE pc = "chunks" /\ TransfersAll(n)
    <3>1. client' \in Seq(Nat) /\ failed' \in BOOLEAN
      BY <2>3, <2>6, Writes DEF TransfersAll, Typed
    <3>2. cacheBuff \o Text(Bytes(n)) \o Leftover(n) \in Seq(Nat)
      BY <2>3, ConcatProperties DEF Typed
    <3>3. cacheBuff' \in Seq(Nat) /\ pc' \in {"chunks", "overrun"}
      BY <2>6, <3>2 DEF TransfersAll, Typed
    <3> QED
      BY <2>1, <2>2, <2>6, <3>1, <3>3 DEF TransfersAll, Typed
  <2> QED
    BY <2>1, <2>4, <2>5, <2>6
<1>7. CASE Store
  BY <1>7 DEF Store, Typed, request, origin, progress
<1> QED
  BY <1>1, <1>2, <1>3, <1>4, <1>5, <1>6, <1>7, Kinds

-----------------------------------------------------------------------------
(* What was read, and who runs *)

\* The first loop fills the buffer in order; nothing else happens before the answer.
LEMMA UntouchedStep ==
  ASSUME Typed, Untouched, Placed, [Next]_vars
  PROVE  Untouched'
<1>1. CASE Quiet
  <2>1. UNCHANGED <<taken, buf, client, cacheBuff, cap, size, bodyLeft, relayed, failed>>
    BY <1>1, QuietFacts
  <2>2. /\ pc' \in Before \cup {"answer"} => canCache' = canCache /\ pc \in Before \cup {"answer"}
        /\ pc' = "connect" => pc = "connect"
        /\ pc' \in Before => pc \in Before
    BY <1>1, QuietFacts DEF Before, Transfers
  <2> QED
    BY <2>1, <2>2 DEF Untouched, Numbered
<1>2. CASE InitialRead
  <2>1. PICK n \in Nat :
          /\ pc = "initial" /\ n <= BUFSIZE /\ taken < RESPONSE_HEADER_SIZE - BUFSIZE
          /\ taken' = taken + n /\ buf' = buf \o Bytes(n)
          /\ UNCHANGED <<request, origin, pc, client, caching, grace, progress, failed, late>>
    BY <1>2, InitialReadFacts
  <2>2. taken + n < RESPONSE_HEADER_SIZE
    BY <2>1, Sizes
  <2>3. Numbered(buf \o Bytes(n)) /\ Len(buf \o Bytes(n)) = taken + n
    <3>1. Numbered(buf) /\ Len(buf) = taken
      BY <2>1 DEF Untouched, Before
    <3>2. n \in 0 .. n /\ taken \in Nat /\ buf \in Seq(Nat)
      BY Sizes DEF Typed
    <3> QED
      <4>1. buf \o Bytes(n) = buf \o SubSeq(Bytes(n), 1, n)
        BY <3>2, AllBytes
      <4>2. Numbered(buf \o SubSeq(Bytes(n), 1, n))
            /\ Len(buf \o SubSeq(Bytes(n), 1, n)) = taken + n
        BY <3>1, <3>2, NumberedOn, Zenon
      <4> QED
        BY <4>1, <4>2
  <2> QED
    BY <2>1, <2>2, <2>3 DEF Untouched, Before, Numbered, caching, progress
<1>3. CASE Parse
  <2>1. /\ pc = "parse" /\ pc' = "answer" /\ Len(buf') = Len(buf)
        /\ UNCHANGED <<taken, client, caching, relayed, failed>>
    <3>1. Newlined(buf) \in Seq(Nat) /\ Len(Newlined(buf)) = Len(buf)
          /\ Len(Newlined(Newlined(buf))) = Len(buf)
      BY NewlinedFacts DEF Typed
    <3> QED
      BY <1>3, <3>1 DEF Parse
  <2> QED
    BY <2>1 DEF Untouched, Before, caching
<1>4. CASE NoResponse \/ Answer \/ ForwardEverything \/ ForwardRead \/ ChunksRead \/ Store
  <2>1. pc' \notin Before \cup {"answer"}
    <3>1. CASE NoResponse \/ Store
      BY <3>1 DEF NoResponse, Store, Before
    <3>2. CASE Answer \/ ForwardEverything
      BY <3>2, AnswerFacts DEF Before, AfterHeaders
    <3>3. CASE ForwardRead \/ ChunksRead
      BY <3>3, RelayFacts DEF Before, ForwardsAll, TransfersAll, Fails
    <3> QED
      BY <1>4, <3>1, <3>2, <3>3
  <2> QED
    BY <2>1 DEF Untouched, Before
<1> QED
  BY <1>1, <1>2, <1>3, <1>4, Kinds

\* Control gets to each function from its caller, and to put() last.
LEMMA PlacedStep ==
  ASSUME Typed, Untouched, Placed, [Next]_vars
  PROVE  Placed'
<1>1. CASE Quiet
  <2>1. UNCHANGED <<mode, resp, taken, kept, failed>>
    BY <1>1, QuietFacts DEF request
  <2>2. \/ pc' = pc
        \/ pc' \in {"initial", "done", "crashed", "cached", "store"} /\ pc # "done"
        \/ pc' = "compare" /\ mode = "refill" /\ pc # "done"
        \/ pc' = "parse" /\ mode = "forward" /\ pc # "done"
    BY <1>1, QuietFacts DEF Transfers, Typed
  <2> QED
    BY <2>1, <2>2 DEF Placed, Transfers
<1>2. CASE InitialRead
  BY <1>2, InitialReadFacts DEF Placed, Transfers, request, caching
<1>3. CASE NoResponse \/ Store
  BY <1>3 DEF NoResponse, Store, Placed, Transfers
<1>4. CASE Parse
  <2>1. resp.headers <= taken
    BY <1>4 DEF Parse, Untouched, Before
  <2> QED
    BY <1>4, <2>1 DEF Parse, Placed, Transfers, request, caching
<1>5. CASE Answer \/ ForwardEverything
  <2>1. kept = <<>> /\ UNCHANGED <<mode, resp, kept>> /\ ~failed
    BY <1>5, AnswerFacts DEF Placed, Untouched, Before
  <2>2. \/ pc' = "length" /\ mode = "forward" /\ resp.framing = "length" /\ failed' = failed
        \/ /\ pc' = "chunks" /\ mode = "forward" /\ resp.framing = "chunked"
           /\ failed' = failed
        \/ pc' = "store"
        \/ pc' = "chunks" /\ mode = "refill" /\ failed' = failed
        \/ pc' = "done"
    <3>1. CASE Answer
      <4>1. mode = "forward"
        BY <3>1 DEF Answer, Placed
      <4> QED
        BY <3>1, <4>1 DEF Answer, StartRelay, WriteAll
    <3>2. CASE ForwardEverything
      <4>1. mode = "refill"
        BY <3>2 DEF ForwardEverything, Placed
      <4> QED
        BY <3>2, <4>1 DEF ForwardEverything, StartRelay, WriteAll
    <3> QED
      BY <1>5, <3>1, <3>2
  <2> QED
    BY <2>1, <2>2 DEF Placed, Transfers
<1>6. CASE ForwardRead \/ ChunksRead
  <2>1. UNCHANGED <<mode, resp, kept>> /\ pc \in Transfers /\ ~failed
    BY <1>6, RelayFacts DEF Placed, Transfers
  <2>2. pc' \in {"store", "overrun"} \/ (pc' = pc /\ failed' = failed)
    BY <1>6, RelayFacts DEF ForwardsAll, TransfersAll, Fails, WriteAll
  <2> QED
    BY <2>1, <2>2 DEF Placed, Transfers
<1> QED
  BY <1>1, <1>2, <1>3, <1>4, <1>5, <1>6, Kinds

-----------------------------------------------------------------------------
(* What the client has *)

\* What is written keeps the order, however it is read and whatever fails.
LEMMA RelayedStep ==
  ASSUME Typed, Untouched, Placed, Relayed, [Next]_vars
  PROVE  Relayed'
<1> SUFFICES ASSUME Textual', UNCHANGED resp
             PROVE  /\ \/ Numbered(client')
                       \/ pc' = "done" /\ taken' <= Shortest /\ client' = <<Foreign>>
                    /\ ~failed' /\ pc' \in Transfers \cup {"store", "overrun"} =>
                         Len(client') = taken'
                    /\ pc' = "answer" => Numbered(buf')
  BY RespStays DEF Relayed, Numbered
<1>t. /\ Textual /\ taken \in Nat /\ buf \in Seq(Nat) /\ client \in Seq(Nat)
      /\ Numbered(client) \/ (pc = "done" /\ taken <= Shortest /\ client = <<Foreign>>)
      /\ ~failed /\ pc \in Transfers \cup {"store", "overrun"} => Len(client) = taken
      /\ pc = "answer" => Numbered(buf)
  BY Sizes DEF Textual, Typed, Relayed
<1>1. CASE Quiet
  <2>1. UNCHANGED <<taken, buf, client, failed>>
    BY <1>1, QuietFacts
  <2>2. /\ pc = "done" => pc' = "done"
        /\ pc' \in Transfers \cup {"store", "overrun"} =>
             pc \in Transfers \cup {"store", "overrun"}
        /\ pc' = "answer" => pc = "answer"
    BY <1>1, QuietFacts DEF Transfers
  <2> QED
    BY <1>t, <2>1, <2>2
<1>2. CASE InitialRead
  <2>1. pc' = "initial" /\ pc = "initial" /\ client' = client
    BY <1>2, InitialReadFacts
  <2> QED
    BY <1>t, <2>1 DEF Transfers
<1>3. CASE NoResponse
  <2>1. pc' = "done" /\ taken' = taken /\ taken <= Shortest /\ client = <<>>
    BY <1>3 DEF NoResponse, Untouched, Before
  <2>2. PICK k \in 0 .. 1 : client' = client \o SubSeq(<<Foreign>>, 1, k)
    <3>1. SubSeq(<<Foreign>>, 1, 1) = <<Foreign>> /\ Len(<<Foreign>>) = 1
      BY OneByte
    <3> QED
      BY <1>3, <3>1 DEF NoResponse, WriteAll, WriteFails
  <2>3. client' = <<>> \/ client' = <<Foreign>>
    <3>1. k = 0 \/ k = 1
      OBVIOUS
    <3>2. SubSeq(<<Foreign>>, 1, 0) = <<>> /\ SubSeq(<<Foreign>>, 1, 1) = <<Foreign>>
          /\ <<>> \o <<>> = <<>> /\ <<>> \o <<Foreign>> = <<Foreign>>
      BY OneByte
    <3> QED
      BY <2>1, <2>2, <3>1, <3>2
  <2> QED
    BY <2>1, <2>3 DEF Numbered, Transfers
<1>4. CASE Parse
  <2>1. Newlined(buf) = buf /\ Newlined(Newlined(buf)) = buf
    BY <1>t, NewlinedFacts
  <2>2. buf' = buf /\ client' = client /\ pc = "parse" /\ pc' = "answer"
    BY <1>4, <2>1 DEF Parse
  <2> QED
    BY <1>t, <2>2 DEF Untouched, Before, Transfers
<1>5. CASE Answer \/ ForwardEverything
  <2>1. Numbered(buf) /\ Len(buf) = taken /\ client = <<>> /\ taken' = taken
    BY <1>5, <1>t, AnswerFacts DEF Untouched, Before
  <2>2. ASSUME NEW k \in 0 .. Len(buf), client' = client \o SubSeq(buf, 1, k)
        PROVE  Numbered(client') /\ Len(client') = k
    BY <1>t, <2>1, <2>2 DEF Numbered
  <2>3. CASE WriteAll(buf)
    <3>1. SubSeq(buf, 1, Len(buf)) = buf /\ Len(buf) \in 0 .. Len(buf)
      BY <1>t
    <3>2. Numbered(client') /\ Len(client') = taken'
      BY <2>1, <2>2, <2>3, <3>1 DEF WriteAll
    <3> QED
      BY <1>5, <3>2, AnswerFacts DEF AfterHeaders
  <2>4. CASE WriteFails(buf) /\ pc' = "done"
    <3>1. Numbered(client')
      BY <2>2, <2>4 DEF WriteFails
    <3> QED
      BY <2>4, <3>1 DEF Transfers
  <2>5. pc' # "answer"
    BY <1>5, AnswerFacts DEF AfterHeaders
  <2> QED
    BY <1>5, <2>3, <2>4, AnswerFacts
<1>6. CASE ForwardRead \/ ChunksRead
  <2>1. PICK n \in Nat :
          /\ taken' = taken + n /\ pc \in Transfers
          /\ ForwardsAll(n) \/ TransfersAll(n) \/ Fails(n)
    BY <1>6, RelayFacts DEF Transfers
  <2>2. Numbered(client) /\ Len(client) = taken /\ ~failed
    BY <1>t, <2>1 DEF Placed, Transfers
  <2>3. pc' # "answer"
    BY <2>1 DEF ForwardsAll, TransfersAll, Fails, Transfers
  <2>4. CASE ForwardsAll(n) \/ TransfersAll(n)
    <3>1. client' = client \o SubSeq(Bytes(n), 1, n) /\ n \in 0 .. n
      BY <1>t, <2>4, AllBytes DEF ForwardsAll, TransfersAll, WriteAll
    <3> QED
      BY <1>t, <2>1, <2>2, <2>3, <3>1, NumberedOn
  <2>5. CASE Fails(n)
    <3>1. Len(Bytes(n)) = n
      BY <1>t, BytesFacts
    <3>2. PICK k \in 0 .. n : client' = client \o SubSeq(Bytes(n), 1, k)
      BY <2>5, <3>1 DEF Fails, WriteFails
    <3>3. Numbered(client') /\ failed'
      BY <1>t, <2>2, <2>5, <3>2, NumberedOn DEF Fails, WriteFails
    <3> QED
      BY <2>3, <3>3
  <2> QED
    BY <2>1, <2>4, <2>5
<1>7. CASE Store
  BY <1>7, <1>t DEF Store, Transfers
<1> QED
  BY <1>1, <1>2, <1>3, <1>4, <1>5, <1>6, <1>7, Kinds

-----------------------------------------------------------------------------
(* The buffer for the cache *)

\* One doubling makes room for what is added, and it is no more than was read.
LEMMA RoomStep ==
  ASSUME Typed, Untouched, Room, [Next]_vars
  PROVE  Room'
<1>t. /\ RESPONSE_HEADER_SIZE \in Nat /\ cap \in Nat /\ size \in Nat /\ taken \in Nat
      /\ cacheBuff \in Seq(Nat) /\ buf \in Seq(Nat) /\ Len(cacheBuff) \in Nat
      /\ RESPONSE_HEADER_SIZE <= cap /\ UNCHANGED <<mode, rest>>
  BY Sizes, RespStays DEF Typed, Room
<1>1. CASE Quiet
  <2>1. UNCHANGED <<taken, cacheBuff, cap, size>>
    BY <1>1, QuietFacts
  <2>2. \A l \in {"length", "chunks", "overrun"} : pc' = l => pc = l
    BY <1>1, QuietFacts
  <2> QED
    BY <1>t, <2>1, <2>2 DEF Room
<1>2. CASE InitialRead
  BY <1>2, InitialReadFacts DEF Room, caching
<1>3. CASE NoResponse \/ Parse \/ Store
  BY <1>3 DEF NoResponse, Parse, Store, Room, caching
<1>4. CASE Answer \/ ForwardEverything
  <2>1. /\ Len(buf) = taken /\ taken < cap /\ UNCHANGED <<taken, cap>>
    BY <1>4, AnswerFacts DEF Untouched, Before
  <2>2. CASE cacheBuff' = (IF canCache' THEN Text(buf) ELSE <<>>) /\ size' = Len(cacheBuff')
    <3>1. Len(Text(buf)) \in Nat /\ Len(Text(buf)) <= taken
      <4>1. Text(buf) \in Seq(Nat) /\ (Text(buf) = buf \/ Len(Text(buf)) < Len(buf))
        BY <1>t, TextFacts
      <4> QED
        BY <1>t, <2>1, <4>1
    <3>2. Len(cacheBuff') \in Nat /\ Len(cacheBuff') <= taken /\ size' = Len(cacheBuff')
      BY <1>t, <2>2, <3>1
    <3>3. pc' # "overrun"
      BY <1>4, AnswerFacts DEF AfterHeaders
    <3> QED
      BY <1>t, <2>1, <3>2, <3>3 DEF Room
  <2>3. CASE pc' = "done"
    BY <1>t, <2>1, <2>3 DEF Room
  <2> QED
    BY <1>4, <2>2, <2>3, AnswerFacts
<1>5. CASE ForwardRead \/ ChunksRead
  <2>1. PICK n \in Nat :
          /\ n <= RESPONSE_HEADER_SIZE /\ taken' = taken + n
          /\ \/ pc = "length" /\ (ForwardsAll(n) \/ Fails(n))
             \/ pc = "chunks" /\ (TransfersAll(n) \/ Fails(n))
    BY <1>5, RelayFacts
  <2>2. /\ Text(Bytes(n)) \in Seq(Nat) /\ Len(Text(Bytes(n))) \in Nat
        /\ Len(Text(Bytes(n))) <= n
    <3>1. Bytes(n) \in Seq(Nat) /\ Len(Bytes(n)) = n
      BY <1>t, BytesFacts
    <3> QED
      BY <3>1, TextFacts
  <2>3. /\ cacheBuff \o Text(Bytes(n)) \in Seq(Nat)
        /\ Len(cacheBuff \o Text(Bytes(n))) = Len(cacheBuff) + Len(Text(Bytes(n)))
    BY <1>t, <2>2, ConcatProperties
  <2>4. CASE Fails(n)
    BY <1>t, <2>4 DEF Fails, Room
  <2>5. CASE pc = "length" /\ ForwardsAll(n)
    <3>1. pc' = "length" /\ Len(cacheBuff) <= size /\ size <= cap
      BY <2>5 DEF ForwardsAll, Room
    <3>2. CASE canCache
      <4>1. /\ Len(cacheBuff') = Len(cacheBuff) + Len(Text(Bytes(n))) /\ size' = size + n
            /\ cap' = IF n > cap - size THEN 2 * cap ELSE cap
        BY <2>3, <2>5, <3>2 DEF ForwardsAll, Copy, Grow
      <4>2. Len(cacheBuff') <= size' /\ size' <= cap' /\ RESPONSE_HEADER_SIZE <= cap'
        BY <1>t, <2>1, <2>2, <3>1, <4>1
      <4> QED
        BY <3>1, <4>2 DEF Room
    <3>3. CASE ~canCache
      <4>1. UNCHANGED <<cacheBuff, cap, size>>
        BY <2>5, <3>3 DEF ForwardsAll, Copy
      <4> QED
        BY <1>t, <3>1, <4>1 DEF Room
    <3> QED
      BY <3>2, <3>3
  <2>6. CASE pc = "chunks" /\ TransfersAll(n)
    <3>1. /\ pc' \in {"chunks", "overrun"} /\ cap' = cap
          /\ pc' = "overrun" => Len(cacheBuff') > cap
      BY <2>6 DEF TransfersAll
    <3>2. CASE rest /\ mode = "forward"
      BY <1>t, <3>1, <3>2 DEF Room
    <3>3. CASE ~(rest /\ mode = "forward")
      <4>1. Leftover(n) = <<>> /\ Len(cacheBuff) <= taken
        BY <2>6, <3>3 DEF Leftover, Room
      <4>2. (cacheBuff \o Text(Bytes(n))) \o <<>> = cacheBuff \o Text(Bytes(n))
        BY <2>3, ConcatEmptySeq
      <4>3. cacheBuff' \in {cacheBuff, cacheBuff \o Text(Bytes(n))}
        BY <2>6, <4>1, <4>2 DEF TransfersAll
      <4>4. Len(cacheBuff') <= taken'
        BY <1>t, <2>1, <2>2, <2>3, <4>1, <4>3
      <4> QED
        BY <1>t, <3>1, <4>4 DEF Room
    <3> QED
      BY <3>2, <3>3
  <2> QED
    BY <2>1, <2>4, <2>5, <2>6
<1> QED
  BY <1>1, <1>2, <1>3, <1>4, <1>5, Kinds

\* What is copied is what was sent, and put() gets a beginning of it.
LEMMA CopiedStep ==
  ASSUME Typed, Untouched, Placed, Relayed, Copied, [Next]_vars
  PROVE  Copied'
<1> SUFFICES ASSUME Clean', UNCHANGED <<mode, resp, rest>>
             PROVE  /\ pc' \in Transfers => cacheBuff' = IF canCache' THEN client' ELSE <<>>
                    /\ (pc' = "store" /\ canCache') \/ kept' # <<>> =>
                         IsPrefix(cacheBuff', client') /\ (~failed' => cacheBuff' = client')
  BY RespStays DEF Copied, IsPrefix
<1>t. /\ Clean /\ Textual /\ canCache \in BOOLEAN
      /\ buf \in Seq(Nat) /\ client \in Seq(Nat) /\ cacheBuff \in Seq(Nat) /\ taken \in Nat
      /\ pc \in Transfers => cacheBuff = IF canCache THEN client ELSE <<>>
      /\ (pc = "store" /\ canCache) \/ kept # <<>> =>
           IsPrefix(cacheBuff, client) /\ (~failed => cacheBuff = client)
  BY Sizes DEF Clean, Textual, Typed, Copied
<1>1. CASE Quiet
  <2>1. UNCHANGED <<client, cacheBuff, kept, failed>>
    BY <1>1, QuietFacts
  <2>2. /\ pc' \in Transfers => pc' = pc /\ canCache' = canCache
        /\ \/ pc' # "store"
           \/ pc = "store" /\ canCache' = canCache
           \/ pc \in Transfers /\ (canCache' = canCache \/ canCache' = FALSE)
    BY <1>1, QuietFacts DEF Transfers
  <2>3. pc \in Transfers /\ canCache => IsPrefix(cacheBuff, client) /\ cacheBuff = client
    BY <1>t, PrefixOfLonger
  <2>4. pc' \in Transfers => cacheBuff' = IF canCache' THEN client' ELSE <<>>
    BY <1>t, <2>1, <2>2
  <2>5. /\ pc' = "store" /\ canCache' =>
             (pc = "store" /\ canCache) \/ (pc \in Transfers /\ canCache)
        /\ kept' # <<>> => kept # <<>>
    BY <1>t, <2>1, <2>2
  <2> QED
    BY <1>t, <2>1, <2>3, <2>4, <2>5
<1>2. CASE InitialRead
  BY <1>2, <1>t, InitialReadFacts DEF Transfers, caching, Placed
<1>3. CASE NoResponse \/ Parse
  <2>1. kept = <<>> /\ kept' = kept /\ pc' \in {"done", "answer"}
    BY <1>3 DEF NoResponse, Parse, Placed, caching
  <2> QED
    BY <2>1 DEF Transfers
<1>4. CASE Answer \/ ForwardEverything
  <2>1. client = <<>> /\ kept = <<>> /\ kept' = kept
    BY <1>4, AnswerFacts DEF Untouched, Placed, Before
  <2>2. CASE WriteAll(buf) /\ cacheBuff' = (IF canCache' THEN Text(buf) ELSE <<>>)
    <3>1. client' = buf /\ Text(buf) = buf
      BY <1>t, <2>1, <2>2, TextFacts, ConcatEmptySeq DEF WriteAll
    <3> QED
      BY <1>t, <2>1, <2>2, <3>1, PrefixOfLonger
  <2>3. CASE pc' = "done"
    BY <2>1, <2>3 DEF Transfers
  <2> QED
    BY <1>4, <2>2, <2>3, AnswerFacts
<1>5. CASE ForwardRead \/ ChunksRead
  <2>1. PICK n \in Nat :
          /\ kept' = kept /\ pc \in Transfers
          /\ \/ pc = "length" /\ (ForwardsAll(n) \/ Fails(n))
             \/ pc = "chunks" /\ (TransfersAll(n) \/ Fails(n))
    BY <1>5, RelayFacts DEF Transfers
  <2>2. kept = <<>> /\ cacheBuff = IF canCache THEN client ELSE <<>>
    BY <1>t, <2>1 DEF Placed, Transfers
  <2>3. Bytes(n) \in Seq(Nat) /\ Text(Bytes(n)) = Bytes(n)
    BY <1>t, BytesFacts, TextFacts
  <2>4. CASE Fails(n)
    <3>1. PICK k \in 0 .. Len(Bytes(n)) : client' = client \o SubSeq(Bytes(n), 1, k)
      BY <2>4 DEF Fails, WriteFails
    <3>2. SubSeq(Bytes(n), 1, k) \in Seq(Nat)
      BY <2>3
    <3>3. IsPrefix(client, client')
      BY <1>t, <3>1, <3>2, PrefixOfLonger
    <3>4. pc' = "store" /\ failed' /\ cacheBuff' = cacheBuff /\ (canCache' => canCache)
      BY <1>t, <2>4 DEF Fails, WriteFails
    <3> QED
      BY <2>1, <2>2, <3>3, <3>4 DEF Transfers
  <2>5. CASE (pc = "length" /\ ForwardsAll(n)) \/ (pc = "chunks" /\ TransfersAll(n))
    <3>1. client' = client \o Bytes(n) /\ canCache' = canCache
      BY <2>5 DEF ForwardsAll, TransfersAll, WriteAll
    <3>2. pc' # "store"
      BY <2>5 DEF ForwardsAll, TransfersAll
    <3>3. cacheBuff' = IF canCache THEN client \o Bytes(n) ELSE <<>>
      <4>1. CASE pc = "length" /\ ForwardsAll(n)
        BY <2>2, <2>3, <4>1 DEF ForwardsAll, Copy
      <4>2. CASE pc = "chunks" /\ TransfersAll(n)
        <5>1. Leftover(n) = <<>>
          BY <1>t, <4>2 DEF Leftover, Clean, Placed
        <5>2. client \o Bytes(n) \in Seq(Nat)
          BY <1>t, <2>3, ConcatProperties
        <5>3. (client \o Bytes(n)) \o <<>> = client \o Bytes(n)
          BY <5>2, ConcatEmptySeq
        <5> QED
          BY <2>2, <2>3, <4>2, <5>1, <5>3 DEF TransfersAll
      <4> QED
        BY <2>5, <4>1, <4>2
    <3> QED
      BY <2>1, <2>2, <3>1, <3>2, <3>3
  <2> QED
    BY <2>1, <2>4, <2>5
<1>6. CASE Store
  <2>1. /\ pc = "store" /\ pc' = "done" /\ UNCHANGED <<client, cacheBuff, failed>>
        /\ canCache \/ kept' = kept
    BY <1>6 DEF Store
  <2> QED
    BY <1>t, <2>1 DEF Transfers
<1> QED
  BY <1>1, <1>2, <1>3, <1>4, <1>5, <1>6, Kinds

-----------------------------------------------------------------------------
(* What is left, if nothing has gone wrong *)

\* What has gone wrong stays wrong.
LEMMA UndisturbedBefore ==
  ASSUME Typed, Untouched, [Next]_vars, Undisturbed'
  PROVE  Undisturbed
<1>t. /\ arrived \in Nat /\ resp.bytes \in Nat /\ arrived <= resp.bytes /\ UNCHANGED resp
      /\ failed \in BOOLEAN /\ late \in BOOLEAN /\ taken \in Nat /\ buf \in Seq(Nat)
  BY Sizes, RespStays DEF Typed
<1>1. CASE Quiet
  BY <1>1, <1>t, QuietFacts, QuietRest DEF Undisturbed
<1>2. CASE InitialRead
  BY <1>2, <1>t, InitialReadFacts DEF Undisturbed, origin
<1>3. CASE NoResponse
  BY <1>3, <1>t DEF NoResponse, WriteAll, WriteFails, Undisturbed, origin
<1>4. CASE Parse \/ Store
  BY <1>4, <1>t DEF Parse, Store, Undisturbed, origin
<1>5. CASE Answer \/ ForwardEverything
  <2>1. UNCHANGED <<arrived, closed, late>> /\ (failed' = failed \/ failed')
    BY <1>5, AnswerFacts DEF WriteAll, WriteFails
  <2> QED
    BY <1>t, <2>1 DEF Undisturbed
<1>6. CASE ForwardRead \/ ChunksRead
  <2>1. UNCHANGED <<arrived, closed, late>> /\ (failed' = failed \/ failed')
    BY <1>6, RelayFacts DEF ForwardsAll, TransfersAll, Fails, WriteAll, WriteFails
  <2> QED
    BY <1>t, <2>1 DEF Undisturbed
<1> QED
  BY <1>1, <1>2, <1>3, <1>4, <1>5, <1>6, Kinds

\* The end of the stream is the end of the response, unless the origin closed early.
LEMMA StreamEnd ==
  ASSUME Typed, EndOfStream, closed => arrived = resp.bytes
  PROVE  taken = resp.bytes
  BY Sizes DEF EndOfStream, Available

\* The steps change what is left as much as what was read.
LEMMA LeftStep ==
  ASSUME Typed, Untouched, Placed, Left, [Next]_vars
  PROVE  Left'
<1>t. /\ taken \in Nat /\ arrived \in Nat /\ taken <= arrived /\ arrived <= resp.bytes
      /\ resp.bytes \in Nat /\ Grace # 0 /\ UNCHANGED <<mode, resp, rest>>
      /\ bodyLeft \in Nat /\ relayed \in Nat /\ late \in BOOLEAN
  BY Sizes, RespStays DEF Typed
<1>u. Undisturbed' => Undisturbed
  BY UndisturbedBefore
<1>1. CASE Connect
  BY <1>1, <1>t DEF Connect, Left
<1>2. CASE Poll
  <2>1. /\ pc' = pc /\ pc \in {"initial", "chunks"} /\ UNCHANGED taken
        /\ Available = 0 /\ (~late' => ~(grace' = 0 /\ arrived < resp.bytes))
    BY <1>2 DEF Poll
  <2>2. ~late' /\ grace' = 0 => taken = resp.bytes
    BY <1>t, <2>1 DEF Available
  <2> QED
    BY <1>t, <2>1, <2>2 DEF Left
<1>3. CASE ReadFails
  BY <1>3, <1>t DEF ReadFails, Left
<1>4. CASE InitialDone
  <2>1. /\ pc = "initial" /\ pc' \in {"parse", "compare"} /\ UNCHANGED <<taken, late>>
        /\ grace = 0 \/ ~InitialRoom \/ EndOfStream
    BY <1>4 DEF InitialDone
  <2>2. Undisturbed' => ~InitialRoom \/ taken = resp.bytes
    <3> SUFFICES ASSUME Undisturbed PROVE ~InitialRoom \/ taken = resp.bytes
      BY <1>u
    <3> QED
      BY <2>1, StreamEnd DEF Undisturbed, Left
  <2> QED
    BY <1>t, <2>1, <2>2 DEF Left, InitialRoom
<1>5. CASE HeadersIncomplete \/ NotModified \/ ForwardEnds \/ ChunksEnd \/ Store
  <2>1. pc' \in {"crashed", "cached", "store", "done"}
    BY <1>5 DEF HeadersIncomplete, NotModified, ForwardEnds, ChunksEnd, Store
  <2> QED
    BY <2>1 DEF Left
<1>6. CASE NoResponse
  BY <1>6 DEF NoResponse, Left
<1>7. CASE Arrive \/ OriginCloses \/ UNCHANGED vars
  <2>1. UNCHANGED <<pc, taken, grace, late, bodyLeft, relayed>>
    BY <1>7 DEF Arrive, OriginCloses, vars, progress
  <2>2. InitialRoom' <=> InitialRoom
    BY <2>1 DEF InitialRoom
  <2>3. Textual' <=> Textual
    BY <1>t DEF Textual
  <2> QED
    BY <1>t, <1>u, <2>1, <2>2, <2>3 DEF Left
<1>8. CASE InitialRead
  <2>1. pc' = "initial" /\ grace' > 0
    BY <1>8 DEF InitialRead
  <2> QED
    BY <2>1, <1>8, Sizes DEF Left, InitialRead
<1>9. CASE Parse
  <2>1. /\ pc = "parse" /\ pc' = "answer" /\ bodyLeft' = Parsed /\ UNCHANGED taken
        /\ resp.headers <= Len(buf)
    BY <1>9 DEF Parse
  <2>2. Textual /\ resp.framing = "length" =>
          Parsed = IF taken = resp.headers THEN 0 ELSE resp.bytes - taken
    BY <2>1, BodyLeftFacts DEF Untouched, Before
  <2>3. (InitialRoom' <=> InitialRoom) /\ (Textual' <=> Textual)
    BY <1>t, <2>1 DEF InitialRoom, Textual
  <2> QED
    BY <1>t, <1>u, <2>1, <2>2, <2>3 DEF Left
<1>10. CASE Answer \/ ForwardEverything
  <2>1. UNCHANGED <<taken, bodyLeft, relayed>> /\ relayed = 0
    BY <1>10, AnswerFacts DEF Untouched, Before
  <2>2. CASE grace' = Grace /\ pc' # "length" /\ pc' \in {"chunks", "store"}
    BY <1>t, <2>2 DEF Left
  <2>3. CASE pc' = "done"
    BY <2>3 DEF Left
  <2>4. CASE pc' = "length" /\ pc = "answer" /\ resp.framing = "length" /\ bodyLeft > 0
    <3>1. Textual => bodyLeft = resp.bytes - taken
      BY <2>4 DEF Left
    <3>2. Textual' <=> Textual
      BY <1>t DEF Textual
    <3> QED
      BY <1>t, <2>1, <2>4, <3>1, <3>2 DEF Left
  <2>5. CASE pc = "answer" /\ AfterHeaders /\ grace' = Grace
    BY <2>2, <2>4, <2>5 DEF AfterHeaders
  <2> QED
    BY <1>10, <2>2, <2>3, <2>5, AnswerFacts
<1>11. CASE ForwardRead \/ ChunksRead
  <2>1. PICK n \in Nat :
          /\ taken' = taken + n /\ UNCHANGED <<grace, bodyLeft>>
          /\ \/ pc = "length" /\ (ForwardsAll(n) \/ Fails(n))
             \/ pc = "chunks" /\ grace > 0 /\ (TransfersAll(n) \/ Fails(n))
    BY <1>11, RelayFacts
  <2>2. CASE Fails(n)
    BY <2>2 DEF Fails, Left
  <2>3. CASE pc = "length" /\ ForwardsAll(n)
    <3>1. pc' = "length" /\ relayed' = relayed + n
      BY <2>3 DEF ForwardsAll
    <3>2. Textual => bodyLeft - relayed = resp.bytes - taken
      BY <2>3 DEF Left
    <3>3. Textual => bodyLeft' - relayed' = resp.bytes - taken'
      BY <1>t, <2>1, <3>1, <3>2
    <3> QED
      BY <1>t, <3>1, <3>3 DEF Left, Textual
  <2>4. CASE pc = "chunks" /\ grace > 0 /\ TransfersAll(n)
    <3>1. pc' \in {"chunks", "overrun"} /\ grace' > 0
      BY <2>1, <2>4 DEF TransfersAll
    <3> QED
      BY <3>1, Sizes DEF Left
  <2> QED
    BY <2>1, <2>2, <2>3, <2>4
<1> QED
  BY <1>1, <1>2, <1>3, <1>4, <1>5, <1>6, <1>7, <1>8, <1>9, <1>10, <1>11, Kinds DEF Quiet

\* With nothing left, all of it has been read, and the client has what was read.
LEMMA SentStep ==
  ASSUME Typed, Untouched, Placed, Relayed, Left, Sent, [Next]_vars
  PROVE  Sent'
<1> SUFFICES ASSUME Expected', UNCHANGED <<mode, resp, rest>>
             PROVE  /\ pc' = "store" => taken' = resp.bytes
                    /\ pc' = "done" /\ taken' > 0 => Whole(client')
  BY RespStays DEF Sent, Whole, Numbered
<1>t. /\ Expected /\ Undisturbed /\ Textual /\ ~failed /\ ~failed'
      /\ closed => arrived = resp.bytes
      /\ taken \in Nat /\ arrived \in Nat /\ taken <= arrived /\ arrived <= resp.bytes
      /\ resp.bytes \in Nat /\ bodyLeft \in Nat /\ relayed \in Nat
      /\ resp.headers < RESPONSE_HEADER_SIZE - BUFSIZE /\ Shortest < resp.headers
      /\ resp.headers <= resp.bytes /\ resp.headers \in Nat
      /\ Shortest \in Nat /\ RESPONSE_HEADER_SIZE \in Nat /\ BUFSIZE \in Nat
  <2>1. Undisturbed /\ Undisturbed' /\ Textual /\ Announced
        /\ resp.headers < RESPONSE_HEADER_SIZE - BUFSIZE
    BY UndisturbedBefore DEF Expected, Textual, Announced
  <2> QED
    BY <2>1, Sizes DEF Typed, Expected, Undisturbed
<1>s. /\ pc = "store" => taken = resp.bytes
      /\ pc = "done" /\ taken > 0 => Whole(client)
  BY <1>t DEF Sent
<1>e. EndOfStream => taken = resp.bytes
  BY <1>t, StreamEnd
<1>1. CASE Connect
  BY <1>1, <1>t DEF Connect, Untouched
<1>2. CASE ReadFails
  BY <1>2, <1>t DEF ReadFails
<1>3. CASE Poll \/ Arrive \/ OriginCloses \/ UNCHANGED vars
  BY <1>3, <1>s DEF Poll, Arrive, OriginCloses, vars
<1>4. CASE InitialDone \/ HeadersIncomplete \/ NotModified \/ InitialRead \/ Parse
  <2>1. pc' \in {"parse", "compare", "crashed", "cached", "initial", "answer"}
    BY <1>4 DEF InitialDone, HeadersIncomplete, NotModified, InitialRead, Parse
  <2> QED
    BY <2>1
<1>5. CASE ForwardEnds
  <2>1. pc = "length" /\ Over /\ pc' = "store" /\ taken' = taken
    BY <1>5 DEF ForwardEnds
  <2>2. bodyLeft - relayed = resp.bytes - taken
    BY <1>t, <2>1 DEF Left
  <2>3. taken = resp.bytes
    BY <1>t, <1>e, <2>1, <2>2 DEF Over
  <2> QED
    BY <2>1, <2>3
<1>6. CASE ChunksEnd
  <2>1. pc = "chunks" /\ (grace = 0 \/ EndOfStream) /\ pc' = "store" /\ taken' = taken
    BY <1>6 DEF ChunksEnd
  <2>2. taken = resp.bytes
    BY <1>t, <1>e, <2>1 DEF Left, Undisturbed
  <2> QED
    BY <2>1, <2>2
<1>7. CASE NoResponse
  <2>1. pc = "parse" /\ taken <= Shortest
    BY <1>7 DEF NoResponse, Untouched, Before
  <2>2. ~InitialRoom \/ taken = resp.bytes
    BY <1>t, <2>1 DEF Left
  <2> QED
    BY <1>t, <2>1, <2>2 DEF InitialRoom
<1>8. CASE Answer \/ ForwardEverything
  <2>1. UNCHANGED taken /\ (pc' = "store" => pc = "answer" /\ AfterHeaders)
    BY <1>8, AnswerFacts DEF AfterHeaders
  <2>2. pc' # "done"
    BY <1>8, <1>t, AnswerFacts DEF WriteFails, AfterHeaders
  <2>3. ASSUME pc' = "store" PROVE taken = resp.bytes
    <3>1. pc = "answer" /\ resp.framing # "chunked" /\ ~(resp.framing = "length" /\ bodyLeft > 0)
      BY <2>1, <2>3 DEF AfterHeaders
    <3>2. resp.framing = "length" /\ bodyLeft = 0
      <4>1. resp.framing \in {"length", "chunked", "close"}
        BY Sizes DEF ResponseType
      <4>2. mode = "forward" /\ Announced
        BY <1>t, <3>1 DEF Placed, Expected
      <4> QED
        BY <1>t, <3>1, <4>1, <4>2 DEF Announced
    <3>3. bodyLeft = IF taken = resp.headers THEN 0 ELSE resp.bytes - taken
      BY <1>t, <3>1, <3>2 DEF Left
    <3>4. ~InitialRoom \/ taken = resp.bytes
      BY <1>t, <3>1 DEF Left
    <3> QED
      BY <1>t, <3>2, <3>3, <3>4 DEF InitialRoom
  <2> QED
    BY <2>1, <2>2, <2>3
<1>9. CASE ForwardRead \/ ChunksRead
  <2>1. PICK n \in Nat : pc \in Transfers /\ (ForwardsAll(n) \/ TransfersAll(n) \/ Fails(n))
    BY <1>9, RelayFacts DEF Transfers
  <2>2. pc' \in {"length", "chunks", "overrun"}
    BY <1>t, <2>1 DEF ForwardsAll, TransfersAll, Fails, WriteFails, Transfers
  <2> QED
    BY <2>2
<1>10. CASE Store
  <2>1. pc = "store" /\ UNCHANGED <<taken, client>> /\ pc' = "done"
    BY <1>10 DEF Store
  <2>2. Numbered(client) /\ Len(client) = taken /\ taken = resp.bytes
    BY <1>t, <1>s, <2>1 DEF Relayed
  <2> QED
    BY <2>1, <2>2 DEF Whole
<1> QED
  BY <1>1, <1>2, <1>3, <1>4, <1>5, <1>6, <1>7, <1>8, <1>9, <1>10, Kinds DEF Quiet

-----------------------------------------------------------------------------
(* What holds in every state *)

\* A step keeps the invariant.
LEMMA InvStep == IInv /\ [Next]_vars => IInv'
  BY TypedStep, UntouchedStep, PlacedStep, RelayedStep, RoomStep, CopiedStep, LeftStep, SentStep
     DEF IInv

\* In every state: what was read, what the client has, what is kept of it and what is left
\* are as far as each other.
THEOREM Invariance == Spec => []IInv
  BY InvInit, InvStep, PTL DEF Spec

\* Every variable keeps its type.
THEOREM TypeCorrect == Spec => []TypeOK
<1>1. IInv => TypeOK
  <2> SUFFICES ASSUME Typed PROVE TypeOK
    BY DEF IInv
  <2>1. <<cacheBuff>> \in Seq(Seq(Nat)) /\ <<>> \in Seq(Seq(Nat))
    BY DEF Typed
  <2> QED
    BY <2>1 DEF Typed, TypeOK
<1> QED
  BY Invariance, <1>1, PTL

\* Whatever is read at a time and whatever fails, the client of a text response has a
\* beginning of it.
THEOREM InOrder == Spec => []RelayedInOrder
<1>1. IInv => RelayedInOrder
  BY DEF IInv, Relayed, RelayedInOrder
<1> QED
  BY Invariance, <1>1, PTL

\* put() gets a beginning of what the client was sent.
THEOREM KeptRelayed == Spec => []KeptWasRelayed
<1>1. IInv => KeptWasRelayed
  <2> SUFFICES ASSUME IInv, Clean, NEW i \in DOMAIN kept PROVE IsPrefix(kept[i], client)
    BY DEF KeptWasRelayed, Clean
  <2>1. kept = <<cacheBuff>> /\ kept # <<>>
    BY DEF IInv, Typed
  <2>2. kept[i] = cacheBuff
    BY <2>1
  <2> QED
    BY <2>1, <2>2 DEF IInv, Copied
<1> QED
  BY Invariance, <1>1, PTL

\* bufferedForward() never writes beyond its buffer; transferChunks() does only with more
\* than the buffer takes, or with what is left of the request.
THEOREM Fits == Spec => []BufferFits
<1>1. IInv => BufferFits
  <2> SUFFICES ASSUME IInv PROVE BufferFits
    OBVIOUS
  <2>1. /\ Len(cacheBuff) \in Nat /\ cap \in Nat /\ taken \in Nat /\ RESPONSE_HEADER_SIZE \in Nat
    BY Sizes DEF IInv, Typed
  <2>2. pc = "answer" => cacheBuff = <<>> /\ size = 0 /\ Len(cacheBuff) = 0
    BY DEF IInv, Untouched
  <2> QED
    BY <2>1, <2>2 DEF IInv, Room, BufferFits
<1> QED
  BY Invariance, <1>1, PTL

\* If nothing goes wrong, all of a text response of announced length is sent, and kept.
THEOREM WholeSent == Spec => []WholeResponse
<1>1. IInv => WholeResponse
  <2> SUFFICES ASSUME IInv, pc = "done", taken > 0, Expected
               PROVE  Whole(client) /\ (kept # <<>> /\ ~rest => Whole(kept[1]))
    BY DEF WholeResponse, Expected
  <2>1. Whole(client) /\ ~failed
    BY DEF IInv, Sent, Expected, Undisturbed
  <2>2. ASSUME kept # <<>>, ~rest PROVE Whole(kept[1])
    <3>1. kept = <<cacheBuff>> /\ cacheBuff = client
      BY <2>1, <2>2 DEF IInv, Typed, Copied, Clean, Expected
    <3> QED
      BY <2>1, <3>1
  <2> QED
    BY <2>1, <2>2
<1> QED
  BY Invariance, <1>1, PTL

-----------------------------------------------------------------------------
(* What a failed write leaves in the cache *)

\* Of a response that could not be written to the client, nothing is kept but what
\* bufferedForward() copied: it alone leaves canCache as it was.
FailedNotKept ==
  failed /\ ((pc = "store" /\ canCache) \/ kept # <<>>) =>
    mode = "forward" /\ resp.framing = "length"

\* A step keeps it so.
LEMMA FailedNotKeptStep ==
  ASSUME IInv, FailedNotKept, [Next]_vars
  PROVE  FailedNotKept'
<1> USE DEF FailedNotKept
<1>a. Typed /\ Untouched /\ Placed /\ UNCHANGED <<mode, resp>>
  BY RespStays DEF IInv
<1>1. CASE Quiet
  <2>1. UNCHANGED <<kept, failed>>
    BY <1>1, QuietFacts
  <2>2. pc' = "store" /\ canCache' => (pc = "store" /\ canCache) \/ ~failed
    BY <1>1, <1>a, QuietFacts DEF Placed
  <2> QED
    BY <2>1, <2>2, <1>a
<1>2. CASE InitialRead \/ Parse
  BY <1>2, <1>a DEF InitialRead, Parse, Placed, caching
<1>3. CASE NoResponse
  BY <1>3, <1>a DEF NoResponse, Placed, caching
<1>4. CASE Answer \/ ForwardEverything
  <2>1. kept = <<>> /\ ~failed
    BY <1>4, <1>a DEF Answer, ForwardEverything, Placed, Untouched, Before
  <2>2. kept' = kept
    BY <1>4 DEF Answer, ForwardEverything, StartRelay, caching
  <2>3. failed' = failed \/ pc' = "done"
    BY <1>4 DEF Answer, ForwardEverything, WriteAll
  <2> QED
    BY <2>1, <2>2, <2>3
<1>5. CASE ForwardRead
  <2>1. mode = "forward" /\ resp.framing = "length"
    BY <1>5, <1>a DEF ForwardRead, Placed
  <2> QED
    BY <2>1, <1>a
<1>6. CASE ChunksRead
  <2>1. kept = <<>> /\ kept' = kept /\ (pc' # "store" \/ ~canCache')
    BY <1>6, <1>a DEF ChunksRead, Placed
  <2> QED
    BY <2>1
<1>7. CASE Store
  <2>1. pc' = "done" /\ failed' = failed /\ (kept' # <<>> => canCache \/ kept # <<>>)
    BY <1>7 DEF Store
  <2> QED
    BY <2>1, <1>7, <1>a DEF Store
<1> QED
  BY <1>1, <1>2, <1>3, <1>4, <1>5, <1>6, <1>7, Kinds

\* After a failed write a response is kept only if its length is announced and it is not
\* the answer to a revalidation: elsewhere KeptOnlyIfWritten, which the code breaks, holds.
THEOREM KeptIfWrittenElsewhere ==
  Spec => [](mode = "refill" \/ resp.framing # "length" => KeptOnlyIfWritten)
<1>1. Init => FailedNotKept
  BY DEF Init, FailedNotKept
<1>2. IInv /\ FailedNotKept /\ [Next]_vars => FailedNotKept'
  BY FailedNotKeptStep
<1>3. IInv /\ FailedNotKept => (mode = "refill" \/ resp.framing # "length" => KeptOnlyIfWritten)
  BY DEF FailedNotKept, KeptOnlyIfWritten
<1> QED
  BY <1>1, <1>2, <1>3, Invariance, PTL DEF Spec

-----------------------------------------------------------------------------
(* Why a request ends *)

\* How many stages a request still has before it.
Stage ==
  CASE pc = "connect" -> 6 [] pc = "initial" -> 5 [] pc \in {"parse", "compare"} -> 4
    [] pc = "answer" -> 3 [] pc \in Transfers -> 2 [] pc = "store" -> 1
    [] OTHER -> 0

\* A step goes on to a later stage, or reads, or uses up one of the polls of a stage; or
\* it is one of the origin, that has so many bytes to send and closes once.
Advances ==
  \/ Stage' < Stage
  \/ Stage' = Stage /\ taken < taken' /\ taken' <= resp.bytes
  \/ Stage' = Stage /\ taken' = taken /\ grace' < grace
  \/ /\ UNCHANGED <<pc, taken, grace>>
     /\ (arrived < arrived' /\ arrived' <= resp.bytes) \/ (~closed /\ closed')

\* Every step advances.
LEMMA AdvancesStep ==
  ASSUME IInv, Next
  PROVE  Advances
<1> USE DEF Advances
<1>a. Typed /\ Placed
  BY DEF IInv
<1>1. CASE Connect
  BY <1>1 DEF Connect, Stage, Transfers
<1>2. CASE Poll
  <2>1. pc' = pc /\ taken' = taken /\ grace' < grace
    BY <1>2, Sizes, <1>a DEF Poll, PollsLeft
  <2> QED
    BY <2>1 DEF Stage
<1>3. CASE ReadFails
  <2>1. \/ pc = "initial" /\ pc' = "done"
        \/ pc \in Transfers /\ pc' = "store"
    BY <1>3 DEF ReadFails, Transfers
  <2> QED
    BY <2>1 DEF Stage, Transfers
<1>4. CASE InitialDone
  <2>1. pc = "initial" /\ pc' \in {"parse", "compare"}
    BY <1>4 DEF InitialDone
  <2> QED
    BY <2>1 DEF Stage, Transfers
<1>5. CASE NoResponse \/ HeadersIncomplete \/ NotModified
  <2>1. pc \in {"parse", "compare"} /\ pc' \in {"done", "crashed", "cached"}
    BY <1>5 DEF NoResponse, HeadersIncomplete, NotModified
  <2> QED
    BY <2>1 DEF Stage, Transfers
<1>6. CASE Parse
  BY <1>6 DEF Parse, Stage, Transfers
<1>7. CASE ForwardEnds \/ ChunksEnd \/ Store
  <2>1. \/ pc \in Transfers /\ pc' = "store"
        \/ pc = "store" /\ pc' = "done"
    BY <1>7 DEF ForwardEnds, ChunksEnd, Store, Transfers
  <2> QED
    BY <2>1 DEF Stage, Transfers
<1>8. CASE InitialRead
  <2>1. PICK n \in Nat : n > 0 /\ taken' = taken + n /\ taken + n <= arrived /\ pc' = pc
    BY <1>8, <1>a, InitialReadFacts
  <2> QED
    BY <2>1, <1>a, Sizes DEF Stage
<1>9. CASE Answer
  <2>1. pc = "answer" /\ pc' \in {"length", "chunks", "store", "done"}
    BY <1>9 DEF Answer, StartRelay
  <2> QED
    BY <2>1 DEF Stage, Transfers
<1>10. CASE ForwardEverything
  <2>1. pc = "compare" /\ pc' \in {"chunks", "done"}
    BY <1>10 DEF ForwardEverything, StartRelay
  <2> QED
    BY <2>1 DEF Stage, Transfers
<1>11. CASE ForwardRead \/ ChunksRead
  <2>1. PICK n \in Nat : n > 0 /\ taken' = taken + n /\ taken + n <= arrived
    BY <1>11, <1>a, RelayFacts
  <2>2. pc \in Transfers /\ (pc' = pc \/ pc' \in {"store", "overrun"})
    BY <1>11 DEF ForwardRead, ChunksRead, Transfers
  <2>3. Stage' <= Stage /\ Stage \in Nat /\ Stage' \in Nat
    BY <2>2 DEF Stage, Transfers
  <2> QED
    BY <2>1, <2>3, <1>a, Sizes
<1>12. CASE Arrive \/ OriginCloses
  BY <1>12, <1>a, Sizes DEF Arrive, OriginCloses
<1> QED
  BY <1>1, <1>2, <1>3, <1>4, <1>5, <1>6, <1>7, <1>8, <1>9, <1>10, <1>11, <1>12
  DEF Next, Proxy

\* No request goes on for ever, whatever the response and the order of events: each step
\* leaves less to do.
THEOREM NeverSpins == Spec => [][Advances]_vars
<1>1. IInv /\ [Next]_vars => [Advances]_vars
  BY AdvancesStep
<1> QED
  BY <1>1, Invariance, PTL DEF Spec

\* The guards of the steps of Proxy.
CanGo ==
  \/ pc \in {"connect", "answer", "store"}
  \/ pc = "compare" /\ (Says304 \/ ~Says304)
  \/ pc = "initial" /\ \/ grace > 0 /\ InitialRoom /\ (Available > 0 \/ (Available = 0 /\ ~closed))
                       \/ grace = 0 \/ ~InitialRoom \/ EndOfStream
  \/ pc = "parse" /\ \/ Len(buf) <= Shortest
                     \/ Shortest < Len(buf) /\ Len(buf) < resp.headers
                     \/ resp.headers <= Len(buf)
  \/ pc = "length" /\ ((relayed < bodyLeft /\ Available > 0) \/ Over)
  \/ pc = "chunks" /\ \/ grace > 0 /\ (Available > 0 \/ (Available = 0 /\ ~closed))
                      \/ grace = 0 \/ EndOfStream

\* Nor does it wait in vain, if the response is text: until it has ended, the proxy can go
\* on or the origin has bytes that have not come.
THEOREM NeverStuck ==
  Spec => [](Textual /\ pc \notin {"done", "cached", "crashed", "overrun"} =>
               CanGo \/ (~closed /\ arrived < resp.bytes))
<1> DEFINE P == Textual /\ pc \notin {"done", "cached", "crashed", "overrun"} =>
                  CanGo \/ (~closed /\ arrived < resp.bytes)
<1>1. IInv => P
  <2> SUFFICES ASSUME IInv, Textual, pc \notin {"done", "cached", "crashed", "overrun"},
                      closed \/ arrived >= resp.bytes
               PROVE  CanGo
    BY Sizes DEF IInv
  <2>1. /\ taken \in Nat /\ arrived \in Nat /\ taken <= arrived /\ arrived <= resp.bytes
        /\ resp.bytes \in Nat /\ grace \in Nat /\ relayed \in Nat /\ bodyLeft \in Nat
        /\ Available = arrived - taken /\ resp.headers \in Nat /\ Shortest \in Nat
    BY Sizes DEF IInv, Typed, Available
  <2>2. pc \in {"connect", "initial", "parse", "compare", "answer", "length", "chunks", "store"}
    BY DEF IInv, Typed
  <2>3. Available > 0 \/ Available = 0
    BY <2>1
  <2>4. CASE pc \in {"connect", "compare", "answer", "store"}
    BY <2>4 DEF CanGo
  <2>5. CASE pc = "initial"
    BY <2>1, <2>3, <2>5 DEF CanGo, EndOfStream
  <2>6. CASE pc = "chunks"
    BY <2>1, <2>3, <2>6 DEF CanGo, EndOfStream
  <2>7. CASE pc = "parse"
    <3>1. Len(buf) \in Nat
      BY DEF IInv, Typed
    <3> QED
      BY <2>1, <2>7, <3>1 DEF CanGo
  <2>8. CASE pc = "length"
    <3>1. bodyLeft - relayed = resp.bytes - taken
      BY <2>8 DEF IInv, Left
    <3> QED
      BY <2>1, <2>3, <2>8, <3>1 DEF CanGo, Over, EndOfStream
  <2> QED
    BY <2>2, <2>4, <2>5, <2>6, <2>7, <2>8
<1> QED
  BY <1>1, Invariance, PTL
=============================================================================
