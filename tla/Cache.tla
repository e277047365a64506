-------------------------------- MODULE Cache --------------------------------
(***************************************************************************)
(* The in-memory cache of cache.c and the pool threads that use it.        *)
(*                                                                         *)
(* cacheable() and getRevalidation() walk the lists and follow the         *)
(* pointers of a node without cacheLock; only put() takes it, and it frees *)
(* what it replaces.  So the memory is modelled: what a thread copies is a *)
(* pointer, and a step that follows a freed one sends the thread to        *)
(* "undefined", from where anything could happen; there the model stops    *)
(* following it.  malloc never hands out an address twice.                 *)
(* gmtime() and localtime() return the same static struct, which the       *)
(* threads share, too: a thread that copies another's time, whole or torn, *)
(* goes to "mistimed" and is not followed either.                          *)
(*                                                                         *)
(* The origin's data for a URI is its version number; an ETag names the    *)
(* version it came with.  A step is one access to shared memory that       *)
(* another thread's access can precede or follow.                          *)
(***************************************************************************)
EXTENDS Integers, Sequences, SequencesExt

CONSTANTS
  Threads,       \* the pool threads
  Nobody,        \* the owner of a free mutex
  URIs,
  Bytes,         \* the bytes of each URI
  NUM_BUCKETS,
  Policies,      \* the cache headers of responses: [store, reval, ttl, tag]
  MaxResponses,  \* bound: responses that are kept for caching
  MaxVersion,    \* bound: versions of each URI's data at the origin
  MaxTime        \* bound: the clock

NULL == 0
Never == MaxTime + 1       \* expiryTime = NULL: not reached by the clock

\* ttl = 0 stands for a response without max-age.
ASSUME CacheAssumption ==
  /\ Nobody \notin Threads
  /\ Bytes \in [URIs -> Seq(0 .. 255)] /\ NUM_BUCKETS \in Nat \ {0}
  /\ \A p \in Policies : /\ p.store \in BOOLEAN /\ p.reval \in BOOLEAN
                         /\ p.tag \in BOOLEAN /\ p.ttl \in Nat
  /\ MaxResponses \in Nat /\ MaxVersion \in [URIs -> Nat] /\ MaxTime \in Nat

\* char is signed, and so is the remainder: beyond ASCII the index may be
\* negative.
Char(byte) == IF byte < 128 THEN byte ELSE byte - 256

\* Mutant: the remainder is left out.
indexOfUnreduced(key) == FoldSeq(LAMBDA byte, sum : sum + Char(byte), 0, key)

indexOf(key) ==
  LET hashVal == FoldSeq(LAMBDA byte, sum : sum + Char(byte), 0, key)
  IN  IF hashVal >= 0 THEN hashVal % NUM_BUCKETS ELSE -((-hashVal) % NUM_BUCKETS)

Bucket == [u \in URIs |-> indexOf(Bytes[u])]
InMAP(u) == Bucket[u] \in 0 .. NUM_BUCKETS - 1
Buckets == {Bucket[u] : u \in {v \in URIs : InMAP(v)}}   \* the others stay empty

VARIABLES
  MAP,      \* the list of each bucket: the addresses of its nodes, head first
  nodes, vals, infos, tags,   \* the memory: what malloc returned, by address
  freed,    \* the addresses that were freed, each with its kind
  cacheLock,
  pc,       \* where each thread is in serving its request
  req,      \* the locals of each request
  origin,   \* the version of each URI at the origin server
  now,
  tm,       \* the time in the static struct
  shared    \* URIs for which two requests have been served at the same time

lists  == <<MAP, nodes>>
memory == <<vals, infos, tags>>
world  == <<origin, now>>
vars == <<lists, memory, freed, cacheLock, pc, req, world, tm, shared>>

\* uri; node: resultNode; data: cachedData; tag: eTag; val, info, newTag: what
\* is going into the cache.  asked and confirmed record, for
\* the properties, when the entry was tested and which version a 304 confirmed.
Blank(u) == [uri |-> u, node |-> NULL, data |-> NULL, tag |-> NULL, val |-> NULL,
             info |-> NULL, newTag |-> NULL, refill |-> FALSE, asked |-> 0,
             confirmed |-> 0]

Init ==
  /\ MAP = [b \in Buckets |-> <<>>]
  /\ nodes = <<>> /\ vals = <<>> /\ infos = <<>> /\ tags = <<>>
  /\ freed = {}
  /\ cacheLock = Nobody
  /\ pc = [t \in Threads |-> "idle"]
  /\ req = [t \in Threads |-> Blank(NULL)]
  /\ origin = [u \in URIs |-> 0]
  /\ now = 0
  /\ tm = 0 /\ shared = {}

Live(kind, p) == <<kind, p>> \notin freed
Free(S) == freed' = freed \cup {f \in S : f[2] # NULL}
Goto(t, l) == pc' = [pc EXCEPT ![t] = l]
\* Go on at l, unless the step has followed a freed pointer.
GotoIf(t, safe, l) == Goto(t, IF safe THEN l ELSE "undefined")
Finish(t) == Goto(t, "idle") /\ req' = [req EXCEPT ![t] = Blank(NULL)]

\* Mutant: the bucket is found, the key is not compared.
getNodeNoCompare(key) == IF MAP[Bucket[key]] = <<>> THEN NULL ELSE Head(MAP[Bucket[key]])

\* getNode: the first node of the bucket's list with the key.
getNode(key) ==
  LET list == MAP[Bucket[key]]
      i == SelectInSeq(list, LAMBDA n : nodes[n].key = key)
  IN  IF i = 0 THEN NULL ELSE list[i]

Node(t) == nodes[req[t].node]

\* A buffer with a response: which URI's, and, for the properties, which version
\* it is and what its own headers say.
Until(p) == IF p.ttl = 0 THEN Never ELSE now + p.ttl
Response(u, p) == [uri |-> u, version |-> origin[u], until |-> Until(p),
                   reval |-> p.reval, store |-> p.store]
\* An ETag names a version; each object records, for the properties, its URI.
Tag(u) == [uri |-> u, version |-> origin[u]]

-----------------------------------------------------------------------------
(* cacheable() *)

\* parseRequest() asks for the local time on the way.
Request(t, u) ==
  /\ pc[t] = "idle"
  /\ shared' = shared \cup {v \in {u} : \E s \in Threads : pc[s] # "idle" /\ req[s].uri = v}
  /\ tm' = now
  /\ Goto(t, "lookup")
  /\ req' = [req EXCEPT ![t] = Blank(u)]
  /\ UNCHANGED <<lists, memory, freed, cacheLock, world>>

\* An index that is not in MAP leads anywhere.
Lookup(t) ==
  /\ pc[t] = "lookup"
  /\ IF InMAP(req[t].uri)
     THEN LET n == getNode(req[t].uri) IN
            /\ req' = [req EXCEPT ![t].node = n]
            /\ Goto(t, IF n = NULL THEN "forward" ELSE "clock")
     ELSE Goto(t, "outside") /\ UNCHANGED req
  /\ UNCHANGED <<lists, memory, freed, cacheLock, world, tm, shared>>

\* getCurrentTime(): gmtime(), then the copy.
GetTime(t) ==
  /\ pc[t] = "clock"
  /\ tm' = now
  /\ req' = [req EXCEPT ![t].asked = now]
  /\ Goto(t, "time")
  /\ UNCHANGED <<lists, memory, freed, cacheLock, world, shared>>

CopyTime(t) ==
  /\ pc[t] = "time"
  /\ Goto(t, IF tm = req[t].asked THEN "expiry" ELSE "mistimed")
  /\ UNCHANGED <<lists, memory, freed, cacheLock, req, world, tm, shared>>

\* Mutant: expired only after the expiry time.
ExpiredLate(t) == req[t].asked > infos[Node(t).info].until

\* timeAgtB(currentTime, expiryTime) >= 0
Expired(t) == req[t].asked >= infos[Node(t).info].until

TestExpiry(t) ==
  /\ pc[t] = "expiry"
  /\ GotoIf(t, Live("info", Node(t).info), IF Expired(t) THEN "forward" ELSE "reval")
  /\ UNCHANGED <<lists, memory, freed, cacheLock, req, world, tm, shared>>

TestReval(t) ==
  /\ pc[t] = "reval"
  /\ GotoIf(t, Live("info", Node(t).info),
            IF infos[Node(t).info].reval THEN "copy" ELSE "hit")
  /\ UNCHANGED <<lists, memory, freed, cacheLock, req, world, tm, shared>>

\* *cacheData = result->val: a pointer, for HIT as for REVALIDATE.
CopyPointer(t) ==
  /\ pc[t] \in {"hit", "copy"}
  /\ req' = [req EXCEPT ![t].data = Node(t).val]
  /\ Goto(t, IF pc[t] = "hit" THEN "send" ELSE "tag")
  /\ UNCHANGED <<lists, memory, freed, cacheLock, world, tm, shared>>

\* writeall() of the cached data, for a HIT or after a 304.
Send(t) ==
  /\ pc[t] \in {"send", "resend"}
  /\ IF Live("val", req[t].data)
     THEN Finish(t)
     ELSE Goto(t, "undefined") /\ UNCHANGED req
  /\ UNCHANGED <<lists, memory, freed, cacheLock, world, tm, shared>>

-----------------------------------------------------------------------------
(* getRevalidation() *)

\* Without an ETag the request is forwarded as it is.
ReadTag(t) ==
  /\ pc[t] = "tag"
  /\ LET tag == infos[Node(t).info].tag IN
       /\ req' = [req EXCEPT ![t].tag = tag]
       /\ GotoIf(t, Live("info", Node(t).info),
                 IF tag = NULL THEN "forward" ELSE "ask")
  /\ UNCHANGED <<lists, memory, freed, cacheLock, world, tm, shared>>

\* The conditional request; the origin may answer 304 only when the version the
\* ETag names is its own.
NotModified(t) ==
  /\ pc[t] = "ask" /\ Live("tag", req[t].tag)
  /\ tags[req[t].tag].version = origin[req[t].uri]
  /\ req' = [req EXCEPT ![t].confirmed = origin[req[t].uri]]
  /\ Goto(t, "resend")
  /\ UNCHANGED <<lists, memory, freed, cacheLock, world, tm, shared>>

\* Any other answer is forwarded and kept, whatever its headers say, with its
\* ETag if it has one; only the buffer and the ETag are new.
Modified(t, p) ==
  /\ pc[t] = "ask" /\ Live("tag", req[t].tag)
  /\ Len(vals) < MaxResponses
  /\ LET u == req[t].uri IN
       /\ vals' = Append(vals, Response(u, p))
       /\ tags' = IF p.tag THEN Append(tags, Tag(u)) ELSE tags
       /\ req' = [req EXCEPT ![t].val = Len(vals'),
                             ![t].newTag = IF p.tag THEN Len(tags') ELSE NULL,
                             ![t].refill = TRUE]
  /\ Goto(t, "replace")
  /\ UNCHANGED <<lists, infos, freed, cacheLock, world, tm, shared>>

ReadsFreedTag(t) ==
  /\ pc[t] = "ask" /\ ~Live("tag", req[t].tag)
  /\ Goto(t, "undefined")
  /\ UNCHANGED <<lists, memory, freed, cacheLock, req, world, tm, shared>>

\* free(resultNode->info->eTag) and the new one, both without the lock.
ReplaceTag(t) ==
  /\ pc[t] = "replace"
  /\ LET i == Node(t).info
         old == infos[i].tag
     IN  IF req[t].newTag = NULL
         THEN /\ Goto(t, "args")
              /\ UNCHANGED <<infos, freed>>
         ELSE /\ GotoIf(t, Live("info", i) /\ Live("tag", old), "args")
              /\ infos' = [infos EXCEPT ![i].tag = req[t].newTag]
              /\ Free({<<"tag", old>>})
  /\ UNCHANGED <<lists, vals, tags, cacheLock, req, world, tm, shared>>

\* The arguments of put(): the info the node has now.
EvalArgs(t) ==
  /\ pc[t] = "args"
  /\ req' = [req EXCEPT ![t].info = Node(t).info]
  /\ Goto(t, "put")
  /\ UNCHANGED <<lists, memory, freed, cacheLock, world, tm, shared>>

-----------------------------------------------------------------------------
(* forwardRequest(): MISS, EXPIRED, and REVALIDATE without an ETag *)

\* With max-age, gmtime() of the time of expiry.
Fetch(t, p) ==
  /\ pc[t] = "forward" /\ p.store
  /\ Len(vals) < MaxResponses
  /\ LET u == req[t].uri IN
       /\ vals' = Append(vals, Response(u, p))
       /\ tags' = IF p.tag THEN Append(tags, Tag(u)) ELSE tags
       /\ infos' = Append(infos, [uri |-> u, reval |-> p.reval, until |-> Until(p),
                                  tag |-> IF p.tag THEN Len(tags') ELSE NULL])
       /\ req' = [req EXCEPT ![t].val = Len(vals'), ![t].info = Len(infos')]
  /\ IF p.ttl = 0
     THEN Goto(t, "put") /\ UNCHANGED tm
     ELSE Goto(t, "age") /\ tm' = Until(p)
  /\ UNCHANGED <<lists, freed, cacheLock, world, shared>>

\* getTimeFromExpiry(): the copy.
CopyExpiry(t) ==
  /\ pc[t] = "age"
  /\ Goto(t, IF tm = infos[req[t].info].until THEN "put" ELSE "mistimed")
  /\ UNCHANGED <<lists, memory, freed, cacheLock, req, world, tm, shared>>

\* The origin forbids caching, or the origin or the client fails.
NotKept(t) ==
  /\ pc[t] = "forward" \/ (pc[t] = "ask" /\ Live("tag", req[t].tag))
  /\ Finish(t)
  /\ UNCHANGED <<lists, memory, freed, cacheLock, world, tm, shared>>

-----------------------------------------------------------------------------
(* put() *)

\* Mutant: put() trusts the lookup made before it had the lock.
TargetBefore(t) == req[t].node

Target(t) == getNode(req[t].uri)

PutLock(t) ==
  /\ pc[t] = "put" /\ cacheLock = Nobody
  /\ cacheLock' = t
  /\ req' = [req EXCEPT ![t].node = Target(t)]
  /\ Goto(t, IF Target(t) = NULL THEN "insert" ELSE "update")
  /\ UNCHANGED <<lists, memory, freed, world, tm, shared>>

\* Mutant: info stays NULL.
makeNodeNoInfo(t) == [key |-> req[t].uri, val |-> req[t].val, info |-> NULL]

makeNode(t) == [key |-> req[t].uri, val |-> req[t].val, info |-> req[t].info]

\* Mutant: the new node does not point to the old head.
WithHeadAlone(n, list) == <<n>>

WithHead(n, list) == <<n>> \o list

Insert(t) ==
  /\ pc[t] = "insert"
  /\ nodes' = Append(nodes, makeNode(t))
  /\ MAP' = [MAP EXCEPT ![Bucket[req[t].uri]] = WithHead(Len(nodes'), @)]
  /\ cacheLock' = Nobody
  /\ Finish(t)
  /\ UNCHANGED <<memory, freed, world, tm, shared>>

\* Mutant: a key that is present keeps its value.
UpdateValNever(t) ==
  /\ pc[t] = "update"
  /\ Goto(t, "swap")
  /\ UNCHANGED <<lists, memory, freed, cacheLock, req, world, tm, shared>>

UpdateVal(t) ==
  /\ pc[t] = "update"
  /\ nodes' = [nodes EXCEPT ![req[t].node].val = req[t].val]
  /\ Free({<<"val", Node(t).val>>})
  /\ GotoIf(t, Live("val", Node(t).val), "swap")
  /\ UNCHANGED <<MAP, memory, cacheLock, req, world, tm, shared>>

\* Mutant: the old info is freed even when it is also the new one.
NeverSameInfo(t) == FALSE

SameInfo(t) == Node(t).info = req[t].info

\* When the info differs the old one is freed; its eTag and expiryTime leak.
UpdateInfo(t) ==
  /\ pc[t] = "swap"
  /\ IF SameInfo(t) \/ Live("info", Node(t).info)
     THEN Finish(t) /\ cacheLock' = Nobody
     ELSE Goto(t, "undefined") /\ UNCHANGED <<req, cacheLock>>
  /\ IF SameInfo(t)
     THEN UNCHANGED <<nodes, freed>>
     ELSE /\ Free({<<"info", Node(t).info>>})
          /\ nodes' = [nodes EXCEPT ![req[t].node].info = req[t].info]
  /\ UNCHANGED <<MAP, memory, world, tm, shared>>

-----------------------------------------------------------------------------
(* The world outside *)

Publish(u) ==
  /\ origin[u] < MaxVersion[u]
  /\ origin' = [origin EXCEPT ![u] = @ + 1]
  /\ UNCHANGED <<lists, memory, freed, cacheLock, pc, req, now, tm, shared>>

Tick ==
  /\ now < MaxTime
  /\ now' = now + 1
  /\ UNCHANGED <<lists, memory, freed, cacheLock, pc, req, origin, tm, shared>>

Serve(t) ==
  \/ \E u \in URIs : Request(t, u)
  \/ Lookup(t) \/ GetTime(t) \/ CopyTime(t) \/ TestExpiry(t) \/ TestReval(t)
  \/ CopyPointer(t) \/ Send(t)
  \/ ReadTag(t) \/ NotModified(t) \/ ReadsFreedTag(t) \/ ReplaceTag(t) \/ EvalArgs(t)
  \/ NotKept(t)
  \/ \E p \in Policies : Modified(t, p) \/ Fetch(t, p)
  \/ CopyExpiry(t)
  \/ PutLock(t) \/ Insert(t) \/ UpdateVal(t) \/ UpdateInfo(t)

Next == (\E t \in Threads : Serve(t)) \/ (\E u \in URIs : Publish(u)) \/ Tick

Spec == Init /\ [][Next]_vars

-----------------------------------------------------------------------------
(* What holds *)

PCs == {"idle", "lookup", "clock", "time", "expiry", "reval", "hit", "copy", "send",
        "tag", "ask", "age", "resend", "replace", "args", "forward", "put", "insert", "update", "swap",
        "undefined", "mistimed", "outside"}

Pointer(mem) == DOMAIN mem \cup {NULL}

\* Every pointer is NULL or an address of an object of its kind.
TypeOK ==
  /\ \A b \in Buckets : \A i \in DOMAIN MAP[b] : MAP[b][i] \in DOMAIN nodes
  /\ \A n \in DOMAIN nodes : /\ nodes[n].key \in URIs
                             /\ nodes[n].val \in DOMAIN vals
                             /\ nodes[n].info \in DOMAIN infos
  /\ \A i \in DOMAIN infos : infos[i].tag \in Pointer(tags)
  /\ cacheLock \in Threads \cup {Nobody}
  /\ pc \in [Threads -> PCs]
  /\ \A t \in Threads : /\ pc[t] # "idle" => req[t].uri \in URIs
                        /\ req[t].node \in Pointer(nodes)
                        /\ {req[t].data, req[t].val} \subseteq Pointer(vals)
                        /\ {req[t].tag, req[t].newTag} \subseteq Pointer(tags)
                        /\ req[t].info \in Pointer(infos)
  /\ DOMAIN origin = URIs /\ \A u \in URIs : origin[u] \in 0 .. MaxVersion[u]
  /\ now \in 0 .. MaxTime
  /\ tm \in Nat /\ shared \subseteq URIs

\* Racing puts never give a URI two nodes, lose one, or put it in the list of
\* another bucket: put() looks the key up again under the lock.
OneNodePerKey ==
  /\ \A n \in DOMAIN nodes :
       \E i \in DOMAIN MAP[Bucket[nodes[n].key]] : MAP[Bucket[nodes[n].key]][i] = n
  /\ \A m, n \in DOMAIN nodes : nodes[m].key = nodes[n].key => m = n

\* No node ever leaves its list or changes its place before another: a lookup
\* that walks a list without the lock does not lose its way.
ListsOnlyGrow ==
  [][\A b \in Buckets : IsSuffix(MAP[b], MAP'[b])]_vars

\* The lists and what hangs off them are a map, as Store says: whatever the
\* threads do at once, an entry is only ever replaced, by a response that was
\* fetched for its URI.
Entry(u) ==
  IF InMAP(u) /\ getNode(u) # NULL THEN {vals[nodes[getNode(u)].val]} ELSE {}
S == INSTANCE Store WITH
  fetched <- Range(vals), entry <- [u \in URIs |-> Entry(u)]
ImplementsStore == S!Spec

\* indexOf() leads out of MAP for no URI of ASCII only; for others it may.
LeavesMAPBeyondASCII ==
  \A t \in Threads : pc[t] = "outside" =>
    \E i \in DOMAIN Bytes[req[t].uri] : Bytes[req[t].uri][i] >= 128

\* Requests for a URI that were never served at the same time are safe from all
\* that requests for other URIs do at once, in the same bucket or not.
Alone(t) == req[t].uri \notin shared

\* No step reads or frees memory that was freed.
NoFreedMemoryUsed == \A t \in Threads : pc[t] = "undefined" => ~Alone(t)

\* A HIT sends a response that the origin allowed to be kept and to be used
\* without asking, and that had not expired when the entry was tested.
HitIsFresh ==
  \A t \in Threads : pc[t] = "send" /\ Alone(t) =>
    LET v == vals[req[t].data]
    IN  v.uri = req[t].uri /\ v.store /\ ~v.reval /\ req[t].asked < v.until

\* The data at hand when the origin answers 304 is what the origin meant: it is
\* still there, and it is the version whose ETag was sent.
Usable(t) ==
  /\ Live("val", req[t].data)
  /\ vals[req[t].data].version = req[t].confirmed
UsableIfAlone == \A t \in Threads : pc[t] = "resend" /\ Alone(t) => Usable(t)

\* What replaces a cached response is never older than it.
RefillIsNewer ==
  [][\A n \in DOMAIN nodes : nodes[n].key \notin shared' =>
       vals[nodes[n].val].version <= vals[nodes'[n].val].version]_vars

-----------------------------------------------------------------------------
(* What the comments say and the code does not do *)

\* The data at hand when the origin answers 304 can be used, always.
CachedResultUsable == \A t \in Threads : pc[t] = "resend" => Usable(t)

\* After a revalidation the new response is kept only if it may be.
OnlyStorableKept == \A n \in DOMAIN nodes : vals[nodes[n].val].store
=============================================================================
