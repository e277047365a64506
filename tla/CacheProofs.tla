----------------------------- MODULE CacheProofs -----------------------------
(***************************************************************************)
(* Theorems about the cache, for any number of threads, URIs, responses    *)
(* and versions, and every interleaving.                                   *)
(*                                                                         *)
(* Memory only grows, and an object never comes to belong to another URI   *)
(* (Grows); so what a thread holds stays what it is, whatever the others   *)
(* do (HeldBy).  The lists are a map because only the owner of cacheLock   *)
(* changes them (Locked).                                                  *)
(***************************************************************************)
EXTENDS Cache, SequenceLemmas

ResponseType == [uri: URIs, version: Nat, until: Nat, reval: BOOLEAN, store: BOOLEAN]
NodeType == [key: URIs, val: Nat, info: Nat]
InfoType == [uri: URIs, reval: BOOLEAN, until: Nat, tag: Nat]
TagType == [uri: URIs, version: Nat]
Locals ==
  [uri: URIs \cup {NULL}, node: Nat, data: Nat, tag: Nat, val: Nat, info: Nat,
   newTag: Nat, refill: BOOLEAN, asked: Nat, confirmed: Nat]

MemoryTyped ==
  /\ MAP \in [Buckets -> Seq(Nat)]
  /\ nodes \in Seq(NodeType) /\ vals \in Seq(ResponseType)
  /\ infos \in Seq(InfoType) /\ tags \in Seq(TagType)
ThreadsTyped ==
  /\ pc \in [Threads -> PCs] /\ req \in [Threads -> Locals]
  /\ cacheLock \in Threads \cup {Nobody}
WorldTyped ==
  /\ origin \in [URIs -> Nat] /\ \A u \in URIs : origin[u] <= MaxVersion[u]
  /\ now \in 0 .. MaxTime /\ tm \in Nat /\ shared \subseteq URIs
Typed == MemoryTyped /\ ThreadsTyped /\ WorldTyped

\* What the objects refer to.
Linked ==
  /\ \A b \in Buckets : \A i \in DOMAIN MAP[b] : MAP[b][i] \in DOMAIN nodes
  /\ \A n \in DOMAIN nodes : /\ InMAP(nodes[n].key)
                             /\ nodes[n].val \in DOMAIN vals
                             /\ vals[nodes[n].val].uri = nodes[n].key
                             /\ nodes[n].info \in DOMAIN infos
                             /\ infos[nodes[n].info].uri = nodes[n].key
  /\ \A i \in DOMAIN infos : infos[i].tag # NULL =>
       infos[i].tag \in DOMAIN tags /\ tags[infos[i].tag].uri = infos[i].uri

\* Where the locals of a thread are set, and for its URI.
NodePcs == {"clock", "time", "expiry", "reval", "hit", "copy", "send", "tag", "ask",
            "resend", "replace", "args", "update", "swap"}
DataPcs == {"send", "tag", "ask", "resend"}
ValPcs  == {"replace", "args", "age", "put", "insert", "update", "swap"}
InfoPcs == {"age", "put", "insert", "update", "swap"}
HeldBy(t) ==
  /\ pc[t] # "idle" => req[t].uri \in URIs
  /\ pc[t] \notin {"idle", "lookup", "outside"} => InMAP(req[t].uri)
  /\ pc[t] \in NodePcs => req[t].node \in DOMAIN nodes /\ nodes[req[t].node].key = req[t].uri
  /\ pc[t] \in DataPcs => req[t].data \in DOMAIN vals /\ vals[req[t].data].uri = req[t].uri
  /\ pc[t] \in ValPcs => req[t].val \in DOMAIN vals /\ vals[req[t].val].uri = req[t].uri
  /\ pc[t] \in InfoPcs => req[t].info \in DOMAIN infos /\ infos[req[t].info].uri = req[t].uri
  /\ pc[t] = "ask" => req[t].tag \in DOMAIN tags /\ tags[req[t].tag].uri = req[t].uri
  /\ pc[t] = "replace" /\ req[t].newTag # NULL =>
       req[t].newTag \in DOMAIN tags /\ tags[req[t].newTag].uri = req[t].uri
  /\ req[t].node \in Pointer(nodes)
  /\ {req[t].data, req[t].val} \subseteq Pointer(vals)
  /\ {req[t].tag, req[t].newTag} \subseteq Pointer(tags)
  /\ req[t].info \in Pointer(infos)
Held == \A t \in Threads : HeldBy(t)

\* Who is where under cacheLock, and what it has found out there.
Locked ==
  \A t \in Threads :
    /\ pc[t] \in {"insert", "update", "swap"} => cacheLock = t
    /\ pc[t] = "insert" => \A n \in DOMAIN nodes : nodes[n].key # req[t].uri

-----------------------------------------------------------------------------
(* Types *)

\* The memory and the lists are sequences, indexed by address.
LEMMA Domains ==
  ASSUME Typed
  PROVE  /\ DOMAIN nodes = 1 .. Len(nodes) /\ Len(nodes) \in Nat
         /\ DOMAIN vals = 1 .. Len(vals) /\ Len(vals) \in Nat
         /\ DOMAIN infos = 1 .. Len(infos) /\ Len(infos) \in Nat
         /\ DOMAIN tags = 1 .. Len(tags) /\ Len(tags) \in Nat
         /\ \A b \in Buckets : DOMAIN MAP[b] = 1 .. Len(MAP[b]) /\ Len(MAP[b]) \in Nat
  BY DEF Typed, MemoryTyped

\* What getNode() returns is NULL or a node with the key; NULL only if the list has
\* no such node.
LEMMA GetNode ==
  ASSUME Typed, Linked, NEW u \in URIs, InMAP(u)
  PROVE  \/ /\ getNode(u) = NULL
            /\ \A i \in DOMAIN MAP[Bucket[u]] : nodes[MAP[Bucket[u]][i]].key # u
         \/ getNode(u) \in DOMAIN nodes /\ nodes[getNode(u)].key = u
<1> DEFINE list == MAP[Bucket[u]]
           I == {i \in 1 .. Len(list) : nodes[list[i]].key = u}
<1>1. Bucket[u] \in Buckets
  BY DEF Buckets
<1>2. DOMAIN list = 1 .. Len(list) /\ \A i \in DOMAIN list : list[i] \in DOMAIN nodes
  BY <1>1, Domains DEF Linked
<1>3. getNode(u) = IF (IF I # {} THEN Min(I) ELSE 0) = 0 THEN NULL
                   ELSE list[IF I # {} THEN Min(I) ELSE 0]
  BY DEF getNode, SelectInSeq
<1>4. CASE I = {}
  BY <1>2, <1>3, <1>4
<1>5. CASE I # {}
  <2>1. PICK i \in I : i = Min(I)
    <3>1. I \subseteq Nat
      OBVIOUS
    <3> QED
      BY <1>5, <3>1, MinIsMember
  <2>2. i \in 1 .. Len(list) /\ nodes[list[i]].key = u
    OBVIOUS
  <2>3. getNode(u) = list[i]
    <3> HIDE DEF I, list
    <3> QED
      BY <1>3, <1>5, <2>1, <2>2
  <2> QED
    BY <1>2, <2>2, <2>3
<1> QED
  BY <1>4, <1>5

\* As every node is in the list of its key's bucket, getNode() finds it.
LEMMA GetNodeFinds ==
  ASSUME Typed, Linked, OneNodePerKey, NEW u \in URIs, InMAP(u)
  PROVE  \/ getNode(u) = NULL /\ \A n \in DOMAIN nodes : nodes[n].key # u
         \/ getNode(u) \in DOMAIN nodes /\ nodes[getNode(u)].key = u
  BY GetNode DEF OneNodePerKey

\* At the start nothing is allocated, and every local is unset.
LEMMA TypedInit == Init => Typed
<1> SUFFICES ASSUME Init PROVE Typed
  OBVIOUS
<1>1. pc \in [Threads -> PCs] /\ req \in [Threads -> Locals]
  BY DEF Init, PCs, Blank, Locals, NULL
<1>2. origin \in [URIs -> Nat] /\ \A u \in URIs : origin[u] <= MaxVersion[u]
  BY CacheAssumption DEF Init
<1> QED
  BY <1>1, <1>2, CacheAssumption DEF Init, Typed, MemoryTyped, ThreadsTyped, WorldTyped

\* What a thread that holds a node knows of it.
LEMMA AtNode ==
  ASSUME Typed, Linked, Held, NEW t \in Threads, pc[t] \in NodePcs
  PROVE  /\ req[t].uri \in URIs /\ InMAP(req[t].uri)
         /\ req[t].node \in DOMAIN nodes /\ Node(t) = nodes[req[t].node]
         /\ Node(t) \in NodeType /\ Node(t).key = req[t].uri
         /\ Node(t).val \in DOMAIN vals /\ vals[Node(t).val].uri = req[t].uri
         /\ Node(t).info \in DOMAIN infos /\ infos[Node(t).info] \in InfoType
         /\ infos[Node(t).info].uri = req[t].uri
         /\ infos[Node(t).info].tag # NULL =>
              /\ infos[Node(t).info].tag \in DOMAIN tags
              /\ tags[infos[Node(t).info].tag].uri = req[t].uri
<1>1. /\ req[t].uri \in URIs /\ InMAP(req[t].uri)
      /\ req[t].node \in DOMAIN nodes /\ nodes[req[t].node].key = req[t].uri
  <2>1. HeldBy(t) /\ pc[t] \notin {"idle", "lookup", "outside"}
    BY DEF Held, NodePcs
  <2> QED
    BY <2>1 DEF HeldBy
<1>2. nodes[req[t].node] \in NodeType
  BY <1>1, Domains DEF Typed, MemoryTyped
<1>3. \A i \in DOMAIN infos : infos[i] \in InfoType
  BY Domains DEF Typed, MemoryTyped
<1> QED
  BY <1>1, <1>2, <1>3 DEF Node, Linked

\* The locals are typed.
LEMMA LocalsTyped ==
  ASSUME Typed, NEW t \in Threads
  PROVE  /\ req[t] \in Locals /\ req[t].uri \in URIs \cup {NULL}
         /\ {req[t].node, req[t].data, req[t].tag, req[t].val, req[t].info,
             req[t].newTag, req[t].asked, req[t].confirmed} \subseteq Nat
         /\ req[t].refill \in BOOLEAN
  BY DEF Typed, ThreadsTyped, Locals


\* What a thread allocates is typed and of the URI it serves.
LEMMA NewObjects ==
  ASSUME Typed, NEW u \in URIs, NEW p \in Policies
  PROVE  /\ Response(u, p) \in ResponseType /\ Response(u, p).uri = u
         /\ Tag(u) \in TagType /\ Tag(u).uri = u
         /\ Until(p) \in Nat /\ p.reval \in BOOLEAN /\ p.tag \in BOOLEAN
<1>1. now \in Nat
  BY CacheAssumption DEF Typed, WorldTyped
<1> QED
  BY <1>1, CacheAssumption
  DEF Response, Until, Never, Tag, ResponseType, TagType, Typed, WorldTyped

\* Every step keeps the types.
LEMMA TypedStep == Typed /\ Linked /\ Held /\ [Next]_vars => Typed'
<1> SUFFICES ASSUME Typed, Linked, Held, [Next]_vars PROVE Typed'
  OBVIOUS
<1> USE DEF lists, memory, world, Goto, GotoIf, Finish, Typed
<1>d. /\ Len(nodes) \in Nat /\ Len(vals) \in Nat /\ Len(infos) \in Nat /\ Len(tags) \in Nat
      /\ DOMAIN nodes \subseteq Nat /\ DOMAIN infos \subseteq Nat
  BY Domains
<1>m. UNCHANGED <<lists, memory>> => MemoryTyped'
  BY DEF MemoryTyped
<1>w. UNCHANGED <<world, shared>> /\ tm' \in Nat => WorldTyped'
  BY DEF WorldTyped
<1>h. \A t \in Threads : pc[t] \notin {"idle", "lookup", "outside"} => req[t].uri \in URIs /\ InMAP(req[t].uri)
  BY DEF Held, HeldBy
<1>i. \A t \in Threads : pc[t] = "lookup" => req[t].uri \in URIs
  BY DEF Held, HeldBy
<1>n. now \in Nat /\ tm \in Nat
  BY CacheAssumption DEF WorldTyped
<1>1. ASSUME NEW t \in Threads, NEW u \in URIs, Request(t, u) PROVE Typed'
  <2>1. ThreadsTyped'
    BY <1>1 DEF Request, Blank, ThreadsTyped, PCs, Locals, NULL
  <2>2. MemoryTyped' /\ WorldTyped'
    BY <1>1, <1>m, <1>n DEF Request, WorldTyped
  <2> QED
    BY <2>1, <2>2
<1>2. ASSUME NEW t \in Threads, Lookup(t) PROVE Typed'
  <2>1. InMAP(req[t].uri) => getNode(req[t].uri) \in Nat
    BY <1>2, <1>d, <1>i, GetNode DEF Lookup, NULL
  <2>2. ThreadsTyped'
    BY <1>2, <2>1 DEF Lookup, ThreadsTyped, PCs, Locals, NULL
  <2>3. MemoryTyped' /\ WorldTyped'
    BY <1>2, <1>m, <1>n, <1>w DEF Lookup
  <2> QED
    BY <2>2, <2>3
<1>3. ASSUME NEW t \in Threads, GetTime(t) PROVE Typed'
  <2>1. ThreadsTyped'
    BY <1>3, <1>n DEF GetTime, ThreadsTyped, PCs, Locals, NULL
  <2>2. MemoryTyped' /\ WorldTyped'
    BY <1>3, <1>m, <1>n, <1>w DEF GetTime
  <2> QED
    BY <2>1, <2>2
<1>4. ASSUME NEW t \in Threads, CopyTime(t) PROVE Typed'
  <2>1. ThreadsTyped'
    BY <1>4 DEF CopyTime, ThreadsTyped, PCs, Locals, NULL
  <2>2. MemoryTyped' /\ WorldTyped'
    BY <1>4, <1>m, <1>n, <1>w DEF CopyTime
  <2> QED
    BY <2>1, <2>2
<1>5. ASSUME NEW t \in Threads, TestExpiry(t) PROVE Typed'
  <2>1. ThreadsTyped'
    BY <1>5 DEF TestExpiry, ThreadsTyped, PCs, Locals, NULL
  <2>2. MemoryTyped' /\ WorldTyped'
    BY <1>5, <1>m, <1>n, <1>w DEF TestExpiry
  <2> QED
    BY <2>1, <2>2
<1>6. ASSUME NEW t \in Threads, TestReval(t) PROVE Typed'
  <2>1. ThreadsTyped'
    BY <1>6 DEF TestReval, ThreadsTyped, PCs, Locals, NULL
  <2>2. MemoryTyped' /\ WorldTyped'
    BY <1>6, <1>m, <1>n, <1>w DEF TestReval
  <2> QED
    BY <2>1, <2>2
<1>7. ASSUME NEW t \in Threads, CopyPointer(t) PROVE Typed'
  <2>1. Node(t).val \in Nat
    BY <1>7, AtNode DEF CopyPointer, NodePcs, NodeType
  <2>2. ThreadsTyped'
    BY <1>7, <2>1 DEF CopyPointer, ThreadsTyped, PCs, Locals, NULL
  <2>3. MemoryTyped' /\ WorldTyped'
    BY <1>7, <1>m, <1>n, <1>w DEF CopyPointer
  <2> QED
    BY <2>2, <2>3
<1>8. ASSUME NEW t \in Threads, Send(t) PROVE Typed'
  <2>1. ThreadsTyped'
    <3>1. CASE Live("val", req[t].data)
      <4>1. Finish(t) /\ cacheLock' = cacheLock
        BY <1>8, <3>1 DEF Send
      <4> QED
        BY <4>1 DEF ThreadsTyped, PCs, Locals, NULL, Blank
    <3>2. CASE ~Live("val", req[t].data)
      BY <1>8, <3>2 DEF Send, ThreadsTyped, PCs
    <3> QED
      BY <3>1, <3>2
  <2>2. MemoryTyped' /\ WorldTyped'
    BY <1>8, <1>m, <1>n, <1>w DEF Send
  <2> QED
    BY <2>1, <2>2
<1>9. ASSUME NEW t \in Threads, ReadTag(t) PROVE Typed'
  <2>1. infos[Node(t).info].tag \in Nat
    BY <1>9, AtNode DEF ReadTag, NodePcs, InfoType
  <2>2. ThreadsTyped'
    BY <1>9, <2>1 DEF ReadTag, ThreadsTyped, PCs, Locals, NULL
  <2>3. MemoryTyped' /\ WorldTyped'
    BY <1>9, <1>m, <1>n, <1>w DEF ReadTag
  <2> QED
    BY <2>2, <2>3
<1>10. ASSUME NEW t \in Threads, NotModified(t) PROVE Typed'
  <2>1. origin[req[t].uri] \in Nat
    BY <1>10 DEF NotModified, Held, HeldBy, WorldTyped
  <2>2. ThreadsTyped'
    BY <1>10, <2>1 DEF NotModified, ThreadsTyped, PCs, Locals, NULL
  <2>3. MemoryTyped' /\ WorldTyped'
    BY <1>10, <1>m, <1>n, <1>w DEF NotModified
  <2> QED
    BY <2>2, <2>3
<1>11. ASSUME NEW t \in Threads, NEW p \in Policies, Modified(t, p) PROVE Typed'
  <2>1. req[t].uri \in URIs
    BY <1>11 DEF Modified, Held, HeldBy
  <2>2. /\ Response(req[t].uri, p) \in ResponseType /\ Tag(req[t].uri) \in TagType
        /\ Until(p) \in Nat /\ p.reval \in BOOLEAN /\ p.tag \in BOOLEAN
    BY <2>1, NewObjects
  <2>3. vals' \in Seq(ResponseType) /\ tags' \in Seq(TagType)
        /\ Len(vals') \in Nat /\ Len(tags') \in Nat
    BY <1>11, <2>2, AppendFacts DEF Modified, MemoryTyped
  <2>4. ThreadsTyped'
    <3>1. req' \in [Threads -> Locals]
      <4>1. req' = [req EXCEPT ![t] = [@ EXCEPT !.val = Len(vals'), !.refill = TRUE,
                                  !.newTag = IF p.tag THEN Len(tags') ELSE NULL]]
        BY <1>11, <2>3 DEF Modified, ThreadsTyped, Locals
      <4>2. [req[t] EXCEPT !.val = Len(vals'), !.refill = TRUE,
              !.newTag = IF p.tag THEN Len(tags') ELSE NULL] \in Locals
        BY <2>2, <2>3, LocalsTyped DEF Locals, NULL
      <4> QED
        BY <4>1, <4>2 DEF ThreadsTyped
    <3>2. pc' \in [Threads -> PCs]
      BY <1>11 DEF Modified, ThreadsTyped, PCs
    <3> QED
      BY <1>11, <3>1, <3>2 DEF Modified, ThreadsTyped
  <2>5. MemoryTyped' /\ WorldTyped'
    BY <1>11, <2>3, <1>n, <1>w DEF Modified, MemoryTyped
  <2> QED
    BY <2>4, <2>5
<1>12. ASSUME NEW t \in Threads, ReadsFreedTag(t) PROVE Typed'
  <2>1. ThreadsTyped'
    BY <1>12 DEF ReadsFreedTag, ThreadsTyped, PCs, Locals, NULL
  <2>2. MemoryTyped' /\ WorldTyped'
    BY <1>12, <1>m, <1>n, <1>w DEF ReadsFreedTag
  <2> QED
    BY <2>1, <2>2
<1>13. ASSUME NEW t \in Threads, ReplaceTag(t) PROVE Typed'
  <2>1. MemoryTyped'
    <3>1. Node(t).info \in DOMAIN infos /\ req[t].newTag \in Nat
      BY <1>13, AtNode, LocalsTyped DEF ReplaceTag, NodePcs
    <3>2. infos \in Seq(InfoType) /\ [infos[Node(t).info] EXCEPT !.tag = req[t].newTag] \in InfoType
      BY <3>1, AtNode, <1>13 DEF ReplaceTag, NodePcs, InfoType, MemoryTyped
    <3>3. infos' \in Seq(InfoType)
      BY <1>13, <3>1, <3>2 DEF ReplaceTag
    <3> QED
      BY <1>13, <3>3 DEF ReplaceTag, MemoryTyped
  <2>2. ThreadsTyped'
    BY <1>13 DEF ReplaceTag, ThreadsTyped, PCs, Locals, NULL
  <2>3. MemoryTyped' /\ WorldTyped'
    BY <1>13, <2>1, <1>n, <1>w DEF ReplaceTag
  <2> QED
    BY <2>2, <2>3
<1>14. ASSUME NEW t \in Threads, EvalArgs(t) PROVE Typed'
  <2>1. Node(t).info \in Nat
    BY <1>14, AtNode DEF EvalArgs, NodePcs, NodeType
  <2>2. ThreadsTyped'
    BY <1>14, <2>1 DEF EvalArgs, ThreadsTyped, PCs, Locals, NULL
  <2>3. MemoryTyped' /\ WorldTyped'
    BY <1>14, <1>m, <1>n, <1>w DEF EvalArgs
  <2> QED
    BY <2>2, <2>3
<1>15. ASSUME NEW t \in Threads, NotKept(t) PROVE Typed'
  <2>1. ThreadsTyped'
    BY <1>15 DEF NotKept, ThreadsTyped, PCs, Locals, NULL, Blank
  <2>2. MemoryTyped' /\ WorldTyped'
    BY <1>15, <1>m, <1>n, <1>w DEF NotKept
  <2> QED
    BY <2>1, <2>2
<1>16. ASSUME NEW t \in Threads, NEW p \in Policies, Fetch(t, p) PROVE Typed'
  <2>1. req[t].uri \in URIs
    BY <1>16 DEF Fetch, Held, HeldBy
  <2>2. /\ Response(req[t].uri, p) \in ResponseType /\ Tag(req[t].uri) \in TagType
        /\ Until(p) \in Nat /\ p.reval \in BOOLEAN /\ p.tag \in BOOLEAN
    BY <2>1, NewObjects
  <2>3. vals' \in Seq(ResponseType) /\ tags' \in Seq(TagType)
        /\ Len(vals') \in Nat /\ Len(tags') \in Nat
    BY <1>16, <2>2, AppendFacts DEF Fetch, MemoryTyped
  <2>4. [uri |-> req[t].uri, reval |-> p.reval, until |-> Until(p),
         tag |-> IF p.tag THEN Len(tags') ELSE NULL] \in InfoType
    BY <2>1, <2>2, <2>3 DEF InfoType, NULL
  <2>5. infos' \in Seq(InfoType) /\ Len(infos') \in Nat
    BY <1>16, <2>4, AppendFacts DEF Fetch, MemoryTyped
  <2>6. ThreadsTyped'
    <3>1. req' \in [Threads -> Locals]
      <4>1. req' = [req EXCEPT ![t] = [@ EXCEPT !.val = Len(vals'), !.info = Len(infos')]]
        BY <1>16, <2>3 DEF Fetch, ThreadsTyped, Locals
      <4>2. [req[t] EXCEPT !.val = Len(vals'), !.info = Len(infos')] \in Locals
        BY <2>3, <2>5, LocalsTyped DEF Locals
      <4> QED
        BY <4>1, <4>2 DEF ThreadsTyped
    <3>2. pc' \in [Threads -> PCs]
      BY <1>16 DEF Fetch, ThreadsTyped, PCs
    <3> QED
      BY <1>16, <3>1, <3>2 DEF Fetch, ThreadsTyped
  <2>7. MemoryTyped' /\ WorldTyped'
    BY <1>16, <2>2, <2>3, <2>5, <1>n, <1>w DEF Fetch, MemoryTyped
  <2> QED
    BY <2>6, <2>7
<1>17. ASSUME NEW t \in Threads, CopyExpiry(t) PROVE Typed'
  <2>1. ThreadsTyped'
    BY <1>17 DEF CopyExpiry, ThreadsTyped, PCs, Locals, NULL
  <2>2. MemoryTyped' /\ WorldTyped'
    BY <1>17, <1>m, <1>n, <1>w DEF CopyExpiry
  <2> QED
    BY <2>1, <2>2
<1>18. ASSUME NEW t \in Threads, PutLock(t) PROVE Typed'
  <2>1. Target(t) \in Nat
    BY <1>18, <1>d, <1>h, GetNode DEF PutLock, Target, NULL
  <2>2. ThreadsTyped'
    BY <1>18, <2>1 DEF PutLock, ThreadsTyped, PCs, Locals, NULL
  <2>3. MemoryTyped' /\ WorldTyped'
    BY <1>18, <1>m, <1>n, <1>w DEF PutLock
  <2> QED
    BY <2>2, <2>3
<1>19. ASSUME NEW t \in Threads, Insert(t) PROVE Typed'
  <2>1. MemoryTyped'
    <3>1. makeNode(t) \in NodeType
      BY <1>19, <1>h, LocalsTyped DEF Insert, makeNode, NodeType
    <3>2. nodes' \in Seq(NodeType) /\ Len(nodes') \in Nat
      BY <1>19, <3>1, AppendFacts DEF Insert, MemoryTyped
    <3>3. MAP' \in [Buckets -> Seq(Nat)]
      <4>1. \A b \in Buckets : <<Len(nodes')>> \o MAP[b] \in Seq(Nat)
        BY <3>2 DEF MemoryTyped
      <4> QED
        BY <1>19, <4>1 DEF Insert, WithHead, MemoryTyped
    <3> QED
      BY <1>19, <3>2, <3>3 DEF Insert, MemoryTyped
  <2>2. ThreadsTyped'
    BY <1>19 DEF Insert, ThreadsTyped, PCs, Locals, NULL, Blank
  <2>3. MemoryTyped' /\ WorldTyped'
    BY <1>19, <2>1, <1>n, <1>w DEF Insert
  <2> QED
    BY <2>2, <2>3
<1>20. ASSUME NEW t \in Threads, UpdateVal(t) PROVE Typed'
  <2>1. MemoryTyped'
    <3>1. /\ [nodes[req[t].node] EXCEPT !.val = req[t].val] \in NodeType
          /\ req[t].node \in DOMAIN nodes
      BY <1>20, AtNode, LocalsTyped DEF UpdateVal, NodePcs, NodeType
    <3>2. nodes' = nodes \/
          nodes' = [nodes EXCEPT ![req[t].node] = [nodes[req[t].node] EXCEPT !.val = req[t].val]]
      BY <1>20 DEF UpdateVal
    <3>3. [nodes EXCEPT ![req[t].node] = [nodes[req[t].node] EXCEPT !.val = req[t].val]] \in Seq(NodeType)
      BY <3>1 DEF MemoryTyped
    <3>4. nodes' \in Seq(NodeType)
      BY <3>2, <3>3 DEF MemoryTyped
    <3> QED
      BY <1>20, <3>4 DEF UpdateVal, MemoryTyped
  <2>2. ThreadsTyped'
    BY <1>20 DEF UpdateVal, ThreadsTyped, PCs, Locals, NULL
  <2>3. MemoryTyped' /\ WorldTyped'
    BY <1>20, <2>1, <1>n, <1>w DEF UpdateVal
  <2> QED
    BY <2>2, <2>3
<1>21. ASSUME NEW t \in Threads, UpdateInfo(t) PROVE Typed'
  <2>1. MemoryTyped'
    <3>1. /\ [nodes[req[t].node] EXCEPT !.info = req[t].info] \in NodeType
          /\ req[t].node \in DOMAIN nodes
      BY <1>21, AtNode, LocalsTyped DEF UpdateInfo, NodePcs, NodeType
    <3>2. nodes' = nodes \/
          nodes' = [nodes EXCEPT ![req[t].node] = [nodes[req[t].node] EXCEPT !.info = req[t].info]]
      BY <1>21 DEF UpdateInfo
    <3>3. [nodes EXCEPT ![req[t].node] = [nodes[req[t].node] EXCEPT !.info = req[t].info]] \in Seq(NodeType)
      BY <3>1 DEF MemoryTyped
    <3>4. nodes' \in Seq(NodeType)
      BY <3>2, <3>3 DEF MemoryTyped
    <3> QED
      BY <1>21, <3>4 DEF UpdateInfo, MemoryTyped
  <2>2. ThreadsTyped'
    <3>1. CASE SameInfo(t) \/ Live("info", Node(t).info)
      <4>1. Finish(t) /\ cacheLock' = Nobody
        BY <1>21, <3>1 DEF UpdateInfo
      <4> QED
        BY <4>1 DEF ThreadsTyped, PCs, Locals, NULL, Blank
    <3>2. CASE ~(SameInfo(t) \/ Live("info", Node(t).info))
      BY <1>21, <3>2 DEF UpdateInfo, ThreadsTyped, PCs
    <3> QED
      BY <3>1, <3>2
  <2>3. MemoryTyped' /\ WorldTyped'
    BY <1>21, <2>1, <1>n, <1>w DEF UpdateInfo
  <2> QED
    BY <2>2, <2>3
<1>22. ASSUME NEW u \in URIs, Publish(u) PROVE Typed'
  <2>1. WorldTyped'
    <3>1. origin' \in [URIs -> Nat] /\ origin'[u] <= MaxVersion[u]
      <4>1. MaxVersion[u] \in Nat /\ origin[u] \in Nat /\ origin[u] < MaxVersion[u]
        BY <1>22, CacheAssumption DEF Publish, WorldTyped
      <4>2. origin' = [origin EXCEPT ![u] = origin[u] + 1]
        BY <1>22 DEF Publish
      <4> QED
        BY <4>1, <4>2 DEF WorldTyped
    <3>2. \A v \in URIs \ {u} : origin'[v] = origin[v]
      BY <1>22 DEF Publish, WorldTyped
    <3> QED
      BY <1>22, <3>1, <3>2 DEF Publish, WorldTyped
  <2>2. MemoryTyped' /\ ThreadsTyped'
    BY <1>22, <1>m DEF Publish, ThreadsTyped
  <2> QED
    BY <2>1, <2>2
<1>23. ASSUME Tick PROVE Typed'
  <2>1. WorldTyped'
    BY <1>23, CacheAssumption DEF Tick, WorldTyped
  <2>2. MemoryTyped' /\ ThreadsTyped'
    BY <1>23, <1>m DEF Tick, ThreadsTyped
  <2> QED
    BY <2>1, <2>2
<1>24. ASSUME UNCHANGED vars PROVE Typed'
  BY <1>24 DEF vars, MemoryTyped, ThreadsTyped, WorldTyped
<1> QED
  BY <1>1, <1>2, <1>3, <1>4, <1>5, <1>6, <1>7, <1>8, <1>9, <1>10, <1>11, <1>12, <1>13,
     <1>14, <1>15, <1>16, <1>17, <1>18, <1>19, <1>20, <1>21, <1>22, <1>23, <1>24
  DEF Next, Serve

-----------------------------------------------------------------------------
(* What a step of a thread does to the others and to the memory *)

Looks(t) ==
  \/ \E u \in URIs : Request(t, u)
  \/ Lookup(t) \/ GetTime(t) \/ CopyTime(t) \/ TestExpiry(t) \/ TestReval(t)
  \/ CopyPointer(t) \/ Send(t)
  \/ ReadTag(t) \/ NotModified(t) \/ ReadsFreedTag(t) \/ EvalArgs(t)
  \/ NotKept(t) \/ CopyExpiry(t) \/ PutLock(t)
Writes(t) ==
  \/ \E p \in Policies : Modified(t, p) \/ Fetch(t, p)
  \/ ReplaceTag(t) \/ Insert(t) \/ UpdateVal(t) \/ UpdateInfo(t)

\* A step of a thread reads memory or writes to it.
LEMMA LooksOrWrites == ASSUME NEW t, Serve(t) PROVE Looks(t) \/ Writes(t)
  BY DEF Serve, Looks, Writes

\* A look changes nothing that threads share but the static time and the lock.
LEMMA LooksOnly == ASSUME NEW t, Looks(t) PROVE UNCHANGED <<lists, memory, freed, world>>
  BY DEF Looks, Request, Lookup, GetTime, CopyTime, TestExpiry, TestReval, CopyPointer, Send,
         ReadTag, NotModified, ReadsFreedTag, EvalArgs, NotKept, CopyExpiry, PutLock

\* A thread moves nobody else.
LEMMA OthersStay ==
  ASSUME ThreadsTyped, NEW t \in Threads, Serve(t), NEW s \in Threads, s # t
  PROVE  pc'[s] = pc[s] /\ req'[s] = req[s]
<1> USE DEF Goto, GotoIf, Finish, ThreadsTyped
<1>1. CASE Looks(t)
  BY <1>1 DEF Looks, Request, Lookup, GetTime, CopyTime, TestExpiry, TestReval, CopyPointer,
     Send, ReadTag, NotModified, ReadsFreedTag, EvalArgs, NotKept, CopyExpiry, PutLock
<1>2. CASE Writes(t)
  BY <1>2 DEF Writes, Modified, Fetch, ReplaceTag, Insert, UpdateVal, UpdateInfo
<1> QED
  BY <1>1, <1>2, LooksOrWrites

\* Memory only grows; of an object that is there, its URI stays, and all of a
\* response and of an ETag.
Grows ==
  /\ DOMAIN nodes \subseteq DOMAIN nodes'
  /\ \A n \in DOMAIN nodes : nodes'[n].key = nodes[n].key
  /\ DOMAIN vals \subseteq DOMAIN vals' /\ \A i \in DOMAIN vals : vals'[i] = vals[i]
  /\ DOMAIN infos \subseteq DOMAIN infos'
  /\ \A i \in DOMAIN infos : /\ infos'[i].uri = infos[i].uri
                             /\ infos'[i].reval = infos[i].reval
                             /\ infos'[i].until = infos[i].until
  /\ DOMAIN tags \subseteq DOMAIN tags' /\ \A i \in DOMAIN tags : tags'[i] = tags[i]
  /\ freed \subseteq freed'

\* Nothing changes but what belongs to URI u.
Keeps(u) ==
  /\ \A n \in DOMAIN nodes' : nodes'[n].key # u => n \in DOMAIN nodes /\ nodes'[n] = nodes[n]
  /\ \A i \in DOMAIN vals' : vals'[i].uri # u => i \in DOMAIN vals
  /\ \A i \in DOMAIN infos' : infos'[i].uri # u => i \in DOMAIN infos /\ infos'[i] = infos[i]
  /\ \A i \in DOMAIN tags' : tags'[i].uri # u => i \in DOMAIN tags
  /\ \A f \in freed' \ freed :
       \/ f[1] = "val" /\ f[2] \in DOMAIN vals /\ vals[f[2]].uri = u
       \/ f[1] = "info" /\ f[2] \in DOMAIN infos /\ infos[f[2]].uri = u
       \/ f[1] = "tag" /\ f[2] \in DOMAIN tags /\ tags[f[2]].uri = u


\* A thread leaves alone what does not belong to its URI.
LEMMA Effect ==
  ASSUME Typed, Linked, Held, NEW t \in Threads, Serve(t)
  PROVE  Grows /\ Keeps(req[t].uri)
<1> DEFINE u == req[t].uri
<1> USE DEF lists, memory, world
<1>d. /\ DOMAIN nodes = 1 .. Len(nodes) /\ Len(nodes) \in Nat
      /\ DOMAIN vals = 1 .. Len(vals) /\ Len(vals) \in Nat
      /\ DOMAIN infos = 1 .. Len(infos) /\ Len(infos) \in Nat
      /\ DOMAIN tags = 1 .. Len(tags) /\ Len(tags) \in Nat
  BY Domains
<1>m. nodes \in Seq(NodeType) /\ vals \in Seq(ResponseType) /\ infos \in Seq(InfoType)
      /\ tags \in Seq(TagType)
  BY DEF Typed, MemoryTyped
<1>1. CASE Looks(t)
  BY <1>1, LooksOnly DEF Grows, Keeps
<1>2. ASSUME NEW p \in Policies, Modified(t, p) PROVE Grows /\ Keeps(u)
  <2>1. u \in URIs
    BY <1>2 DEF Modified, Held, HeldBy
  <2>2. /\ vals' = Append(vals, Response(u, p))
        /\ tags' = IF p.tag THEN Append(tags, Tag(u)) ELSE tags
        /\ UNCHANGED <<nodes, infos, freed>>
    BY <1>2 DEF Modified
  <2>3. /\ DOMAIN vals' = 1 .. Len(vals) + 1 /\ vals'[Len(vals) + 1].uri = u
        /\ \A i \in DOMAIN vals : vals'[i] = vals[i]
    BY <1>d, <1>m, <2>1, <2>2, NewObjects, AppendFacts
  <2>4. /\ DOMAIN tags' = 1 .. Len(tags) \/ DOMAIN tags' = 1 .. Len(tags) + 1
        /\ \A i \in DOMAIN tags' : i \in DOMAIN tags \/ tags'[i].uri = u
        /\ \A i \in DOMAIN tags : tags'[i] = tags[i]
    BY <1>d, <1>m, <2>1, <2>2, NewObjects, AppendFacts
  <2> QED
    BY <2>2, <2>3, <2>4, <1>d DEF Grows, Keeps
<1>3. ASSUME NEW p \in Policies, Fetch(t, p) PROVE Grows /\ Keeps(u)
  <2>1. u \in URIs
    BY <1>3 DEF Fetch, Held, HeldBy
  <2> DEFINE info == [uri |-> u, reval |-> p.reval, until |-> Until(p),
                      tag |-> IF p.tag THEN Len(tags') ELSE NULL]
  <2>2. /\ vals' = Append(vals, Response(u, p))
        /\ tags' = IF p.tag THEN Append(tags, Tag(u)) ELSE tags
        /\ infos' = Append(infos, info)
        /\ UNCHANGED <<nodes, freed>>
    BY <1>3 DEF Fetch
  <2>3. /\ DOMAIN vals' = 1 .. Len(vals) + 1 /\ vals'[Len(vals) + 1].uri = u
        /\ \A i \in DOMAIN vals : vals'[i] = vals[i]
    BY <1>d, <1>m, <2>1, <2>2, NewObjects, AppendFacts
  <2>4. /\ DOMAIN tags' = 1 .. Len(tags) \/ DOMAIN tags' = 1 .. Len(tags) + 1
        /\ Len(tags') \in Nat
        /\ \A i \in DOMAIN tags' : i \in DOMAIN tags \/ tags'[i].uri = u
        /\ \A i \in DOMAIN tags : tags'[i] = tags[i]
    BY <1>d, <1>m, <2>1, <2>2, NewObjects, AppendFacts
  <2>5. info \in InfoType
    BY <2>1, <2>4, NewObjects DEF InfoType, NULL
  <2>6. /\ DOMAIN infos' = 1 .. Len(infos) + 1 /\ infos'[Len(infos) + 1].uri = u
        /\ \A i \in DOMAIN infos : infos'[i] = infos[i]
    <3>1. info.uri = u
      OBVIOUS
    <3> HIDE DEF info
    <3> QED
      BY <1>d, <1>m, <2>2, <2>5, <3>1, AppendFacts
  <2> QED
    BY <2>2, <2>3, <2>4, <2>6, <1>d DEF Grows, Keeps
<1>4. CASE ReplaceTag(t)
  <2>1. /\ Node(t).info \in DOMAIN infos /\ infos[Node(t).info] \in InfoType
        /\ infos[Node(t).info].uri = u
        /\ infos[Node(t).info].tag # NULL =>
             infos[Node(t).info].tag \in DOMAIN tags /\ tags[infos[Node(t).info].tag].uri = u
    BY <1>4, AtNode DEF ReplaceTag, NodePcs
  <2>2. /\ infos' = infos \/
           infos' = [infos EXCEPT ![Node(t).info] = [infos[Node(t).info] EXCEPT !.tag = req[t].newTag]]
        /\ freed' = freed \/
           freed' = freed \cup {f \in {<<"tag", infos[Node(t).info].tag>>} : f[2] # NULL}
        /\ UNCHANGED <<nodes, vals, tags>>
    BY <1>4 DEF ReplaceTag, Free
  <2>3. /\ DOMAIN infos' = DOMAIN infos
        /\ \A i \in DOMAIN infos : i # Node(t).info => infos'[i] = infos[i]
        /\ infos'[Node(t).info].uri = u
        /\ infos'[Node(t).info].reval = infos[Node(t).info].reval
        /\ infos'[Node(t).info].until = infos[Node(t).info].until
    BY <2>1, <2>2 DEF InfoType
  <2>4. freed \subseteq freed' /\ \A f \in freed' \ freed :
          f[1] = "tag" /\ f[2] \in DOMAIN tags /\ tags[f[2]].uri = u
    BY <2>1, <2>2
  <2> QED
    BY <2>1, <2>2, <2>3, <2>4 DEF Grows, Keeps
<1>5. CASE Insert(t)
  <2>1. u \in URIs /\ makeNode(t) \in NodeType /\ makeNode(t).key = u
    BY <1>5, LocalsTyped DEF Insert, makeNode, NodeType, Held, HeldBy
  <2>2. nodes' = Append(nodes, makeNode(t)) /\ UNCHANGED <<memory, freed>>
    BY <1>5 DEF Insert
  <2>3. /\ DOMAIN nodes' = 1 .. Len(nodes) + 1 /\ nodes'[Len(nodes) + 1].key = u
        /\ \A i \in DOMAIN nodes : nodes'[i] = nodes[i]
    BY <1>d, <1>m, <2>1, <2>2, AppendFacts
  <2> QED
    BY <2>2, <2>3, <1>d DEF Grows, Keeps
<1>6. CASE UpdateVal(t)
  <2>1. /\ req[t].node \in DOMAIN nodes /\ Node(t) \in NodeType /\ Node(t).key = u
        /\ Node(t) = nodes[req[t].node]
        /\ Node(t).val \in DOMAIN vals /\ vals[Node(t).val].uri = u
    BY <1>6, AtNode DEF UpdateVal, NodePcs
  <2>2. /\ nodes' = [nodes EXCEPT ![req[t].node] = [Node(t) EXCEPT !.val = req[t].val]]
        /\ freed' = freed \cup {f \in {<<"val", Node(t).val>>} : f[2] # NULL}
        /\ UNCHANGED memory
    BY <1>6 DEF UpdateVal, Free, Node
  <2>3. /\ DOMAIN nodes' = DOMAIN nodes /\ nodes'[req[t].node].key = u
        /\ \A i \in DOMAIN nodes : i # req[t].node => nodes'[i] = nodes[i]
    BY <2>1, <2>2 DEF NodeType
  <2>4. freed \subseteq freed' /\ \A f \in freed' \ freed :
          f[1] = "val" /\ f[2] \in DOMAIN vals /\ vals[f[2]].uri = u
    BY <2>1, <2>2
  <2> QED
    BY <2>1, <2>2, <2>3, <2>4 DEF Grows, Keeps
<1>7. CASE UpdateInfo(t)
  <2>1. /\ req[t].node \in DOMAIN nodes /\ Node(t) \in NodeType /\ Node(t).key = u
        /\ Node(t) = nodes[req[t].node]
        /\ Node(t).info \in DOMAIN infos /\ infos[Node(t).info].uri = u
    BY <1>7, AtNode DEF UpdateInfo, NodePcs
  <2>2. /\ nodes' = nodes \/
           nodes' = [nodes EXCEPT ![req[t].node] = [Node(t) EXCEPT !.info = req[t].info]]
        /\ freed' = freed \/
           freed' = freed \cup {f \in {<<"info", Node(t).info>>} : f[2] # NULL}
        /\ UNCHANGED memory
    BY <1>7 DEF UpdateInfo, Free, Node
  <2>3. /\ DOMAIN nodes' = DOMAIN nodes /\ nodes'[req[t].node].key = u
        /\ \A i \in DOMAIN nodes : i # req[t].node => nodes'[i] = nodes[i]
    BY <2>1, <2>2 DEF NodeType
  <2>4. freed \subseteq freed' /\ \A f \in freed' \ freed :
          f[1] = "info" /\ f[2] \in DOMAIN infos /\ infos[f[2]].uri = u
    BY <2>1, <2>2
  <2> QED
    BY <2>1, <2>2, <2>3, <2>4 DEF Grows, Keeps
<1> QED
  BY <1>1, <1>2, <1>3, <1>4, <1>5, <1>6, <1>7, LooksOrWrites DEF Writes

-----------------------------------------------------------------------------
(* Pointers *)

\* What the memory refers to stays of the right kind and URI.
LEMMA LinkedStep ==
  ASSUME Typed, Typed', Linked, Held, NEW t \in Threads, Serve(t)
  PROVE  Linked'
<1> USE DEF lists, memory
<1>g. Grows
  BY Effect
<1>n. \A n \in DOMAIN nodes : /\ InMAP(nodes[n].key)
                              /\ nodes[n].val \in DOMAIN vals'
                              /\ vals'[nodes[n].val].uri = nodes[n].key
                              /\ nodes[n].info \in DOMAIN infos'
                              /\ infos'[nodes[n].info].uri = nodes[n].key
  BY <1>g DEF Grows, Linked
<1>i. \A i \in DOMAIN infos : infos[i].tag # NULL =>
        infos[i].tag \in DOMAIN tags' /\ tags'[infos[i].tag].uri = infos'[i].uri
  BY <1>g DEF Grows, Linked
<1>d. /\ DOMAIN nodes = 1 .. Len(nodes) /\ Len(nodes) \in Nat
      /\ DOMAIN infos = 1 .. Len(infos) /\ Len(infos) \in Nat
      /\ DOMAIN tags = 1 .. Len(tags) /\ Len(tags) \in Nat
  BY Domains
<1>m. nodes \in Seq(NodeType) /\ vals \in Seq(ResponseType) /\ infos \in Seq(InfoType)
      /\ tags \in Seq(TagType)
  BY DEF Typed, MemoryTyped
<1>1. CASE Looks(t)
  BY <1>1, LooksOnly DEF Linked
<1>2. ASSUME NEW p \in Policies, Modified(t, p) PROVE Linked'
  <2>1. UNCHANGED <<MAP, nodes, infos>>
    BY <1>2 DEF Modified
  <2> QED
    BY <2>1, <1>n, <1>i DEF Linked
<1>3. ASSUME NEW p \in Policies, Fetch(t, p) PROVE Linked'
  <2> DEFINE u == req[t].uri
             info == [uri |-> u, reval |-> p.reval, until |-> Until(p),
                      tag |-> IF p.tag THEN Len(tags') ELSE NULL]
  <2>1. u \in URIs
    BY <1>3 DEF Fetch, Held, HeldBy
  <2>2. /\ tags' = IF p.tag THEN Append(tags, Tag(u)) ELSE tags
        /\ infos' = Append(infos, info)
        /\ UNCHANGED <<MAP, nodes>>
    BY <1>3 DEF Fetch
  <2>3. info.tag # NULL => info.tag \in DOMAIN tags' /\ tags'[info.tag].uri = u
    <3>1. CASE p.tag
      BY <1>d, <1>m, <2>1, <2>2, <3>1, NewObjects, AppendFacts
    <3> QED
      BY <3>1, <2>1, NewObjects DEF NULL
  <2>4. info \in InfoType /\ info.uri = u
    <3>1. Len(tags') \in Nat
      BY Domains DEF Typed, MemoryTyped
    <3> QED
      BY <2>1, <3>1, NewObjects DEF InfoType, NULL
  <2>5. /\ DOMAIN infos' = 1 .. Len(infos) + 1 /\ infos'[Len(infos) + 1] = info
        /\ \A i \in DOMAIN infos : infos'[i] = infos[i]
    <3> HIDE DEF info
    <3> QED
      BY <1>d, <1>m, <2>2, <2>4, AppendFacts
  <2> HIDE DEF info
  <2>6. \A i \in DOMAIN infos' : infos'[i].tag # NULL =>
          infos'[i].tag \in DOMAIN tags' /\ tags'[infos'[i].tag].uri = infos'[i].uri
    BY <1>d, <1>i, <2>3, <2>4, <2>5
  <2> QED
    BY <2>2, <2>6, <1>n DEF Linked
<1>4. CASE ReplaceTag(t)
  <2>1. /\ Node(t).info \in DOMAIN infos /\ infos[Node(t).info] \in InfoType
        /\ infos[Node(t).info].uri = req[t].uri
    BY <1>4, AtNode DEF ReplaceTag, NodePcs
  <2>2. req[t].newTag # NULL => req[t].newTag \in DOMAIN tags /\ tags[req[t].newTag].uri = req[t].uri
    BY <1>4 DEF ReplaceTag, Held, HeldBy
  <2>3. /\ infos' = infos \/
           infos' = [infos EXCEPT ![Node(t).info] = [infos[Node(t).info] EXCEPT !.tag = req[t].newTag]]
        /\ UNCHANGED <<lists, vals, tags>>
    BY <1>4 DEF ReplaceTag
  <2>4. \A i \in DOMAIN infos' : infos'[i].tag # NULL =>
          infos'[i].tag \in DOMAIN tags' /\ tags'[infos'[i].tag].uri = infos'[i].uri
    BY <1>i, <2>1, <2>2, <2>3 DEF InfoType
  <2> QED
    BY <2>3, <2>4, <1>n DEF Linked
<1>5. CASE Insert(t)
  <2>1. /\ req[t].uri \in URIs /\ InMAP(req[t].uri)
        /\ req[t].val \in DOMAIN vals /\ vals[req[t].val].uri = req[t].uri
        /\ req[t].info \in DOMAIN infos /\ infos[req[t].info].uri = req[t].uri
    BY <1>5 DEF Insert, Held, HeldBy, ValPcs, InfoPcs
  <2>2. makeNode(t) \in NodeType
    BY <2>1, LocalsTyped DEF makeNode, NodeType
  <2>3. /\ nodes' = Append(nodes, makeNode(t)) /\ UNCHANGED <<memory, freed>>
        /\ MAP' = [MAP EXCEPT ![Bucket[req[t].uri]] = <<Len(nodes')>> \o MAP[Bucket[req[t].uri]]]
    BY <1>5 DEF Insert, WithHead
  <2>4. /\ Len(nodes') = Len(nodes) + 1 /\ nodes'[Len(nodes) + 1] = makeNode(t)
        /\ DOMAIN nodes' = 1 .. Len(nodes) + 1 /\ \A i \in DOMAIN nodes : nodes'[i] = nodes[i]
    BY <1>d, <1>m, <2>2, <2>3, AppendFacts
  <2>5. \A n \in DOMAIN nodes' : /\ InMAP(nodes'[n].key)
                                 /\ nodes'[n].val \in DOMAIN vals
                                 /\ vals[nodes'[n].val].uri = nodes'[n].key
                                 /\ nodes'[n].info \in DOMAIN infos
                                 /\ infos[nodes'[n].info].uri = nodes'[n].key
    BY <2>1, <2>3, <2>4, <1>d, <1>n DEF makeNode
  <2>6. \A b \in Buckets : \A i \in DOMAIN MAP'[b] : MAP'[b][i] \in DOMAIN nodes'
    <3> SUFFICES ASSUME NEW b \in Buckets, NEW i \in DOMAIN MAP'[b]
                 PROVE  MAP'[b][i] \in DOMAIN nodes'
      OBVIOUS
    <3>1. MAP[b] \in Seq(Nat) /\ \A j \in DOMAIN MAP[b] : MAP[b][j] \in DOMAIN nodes'
      BY <1>d, <2>4 DEF Typed, MemoryTyped, Linked
    <3>2. MAP'[b] = MAP[b] \/ MAP'[b] = <<Len(nodes) + 1>> \o MAP[b]
      BY <2>3, <2>4 DEF Typed, MemoryTyped
    <3>3. CASE MAP'[b] = <<Len(nodes) + 1>> \o MAP[b]
      <4>1. <<Len(nodes) + 1>> \in Seq(Nat)
        BY <1>d
      <4>2. i = 1 \/ (i - 1 \in DOMAIN MAP[b] /\ MAP'[b][i] = MAP[b][i - 1])
        BY <3>1, <3>3, <4>1
      <4>3. i = 1 => MAP'[b][i] = Len(nodes) + 1
        BY <3>1, <3>3, <4>1
      <4> QED
        BY <4>2, <4>3, <3>1, <2>4, <1>d
    <3> QED
      BY <3>1, <3>2, <3>3
  <2> QED
    BY <2>3, <2>5, <2>6, <1>i DEF Linked
<1>6. CASE UpdateVal(t)
  <2>1. /\ req[t].node \in DOMAIN nodes /\ Node(t) \in NodeType /\ Node(t).key = req[t].uri
        /\ Node(t) = nodes[req[t].node]
    BY <1>6, AtNode DEF UpdateVal, NodePcs
  <2>2. req[t].val \in DOMAIN vals /\ vals[req[t].val].uri = req[t].uri
    BY <1>6 DEF UpdateVal, Held, HeldBy, ValPcs
  <2>3. /\ nodes' = [nodes EXCEPT ![req[t].node] = [Node(t) EXCEPT !.val = req[t].val]]
        /\ UNCHANGED <<MAP, memory>>
    BY <1>6 DEF UpdateVal, Node
  <2>4. \A n \in DOMAIN nodes' : /\ InMAP(nodes'[n].key)
                                 /\ nodes'[n].val \in DOMAIN vals
                                 /\ vals[nodes'[n].val].uri = nodes'[n].key
                                 /\ nodes'[n].info \in DOMAIN infos
                                 /\ infos[nodes'[n].info].uri = nodes'[n].key
    BY <2>1, <2>2, <2>3, <1>n DEF NodeType
  <2> QED
    BY <2>3, <2>4, <1>i DEF Linked
<1>7. CASE UpdateInfo(t)
  <2>1. /\ req[t].node \in DOMAIN nodes /\ Node(t) \in NodeType /\ Node(t).key = req[t].uri
        /\ Node(t) = nodes[req[t].node]
    BY <1>7, AtNode DEF UpdateInfo, NodePcs
  <2>2. req[t].info \in DOMAIN infos /\ infos[req[t].info].uri = req[t].uri
    BY <1>7 DEF UpdateInfo, Held, HeldBy, InfoPcs
  <2>3. /\ nodes' = nodes \/
           nodes' = [nodes EXCEPT ![req[t].node] = [Node(t) EXCEPT !.info = req[t].info]]
        /\ UNCHANGED <<MAP, memory>>
    BY <1>7 DEF UpdateInfo, Node
  <2>4. \A n \in DOMAIN nodes' : /\ InMAP(nodes'[n].key)
                                 /\ nodes'[n].val \in DOMAIN vals
                                 /\ vals[nodes'[n].val].uri = nodes'[n].key
                                 /\ nodes'[n].info \in DOMAIN infos
                                 /\ infos[nodes'[n].info].uri = nodes'[n].key
    BY <2>1, <2>2, <2>3, <1>n DEF NodeType
  <2> QED
    BY <2>3, <2>4, <1>i DEF Linked
<1> QED
  BY <1>1, <1>2, <1>3, <1>4, <1>5, <1>6, <1>7, LooksOrWrites DEF Writes

\* What a thread holds, the others do not take from it.
LEMMA HeldStays ==
  ASSUME Grows, NEW s \in Threads, HeldBy(s), pc'[s] = pc[s], req'[s] = req[s]
  PROVE  HeldBy(s)'
<1>1. /\ pc[s] # "idle" => req[s].uri \in URIs
      /\ pc[s] \notin {"idle", "lookup", "outside"} => InMAP(req[s].uri)
  BY DEF HeldBy
<1>2. /\ pc[s] \in NodePcs => req[s].node \in DOMAIN nodes' /\ nodes'[req[s].node].key = req[s].uri
      /\ pc[s] \in DataPcs => req[s].data \in DOMAIN vals' /\ vals'[req[s].data].uri = req[s].uri
      /\ pc[s] \in ValPcs => req[s].val \in DOMAIN vals' /\ vals'[req[s].val].uri = req[s].uri
      /\ pc[s] \in InfoPcs => req[s].info \in DOMAIN infos' /\ infos'[req[s].info].uri = req[s].uri
  BY DEF HeldBy, Grows
<1>3. /\ pc[s] = "ask" => req[s].tag \in DOMAIN tags' /\ tags'[req[s].tag].uri = req[s].uri
      /\ pc[s] = "replace" /\ req[s].newTag # NULL =>
           req[s].newTag \in DOMAIN tags' /\ tags'[req[s].newTag].uri = req[s].uri
  BY DEF HeldBy, Grows
<1>4. /\ req[s].node \in Pointer(nodes')
      /\ {req[s].data, req[s].val} \subseteq Pointer(vals')
      /\ {req[s].tag, req[s].newTag} \subseteq Pointer(tags')
      /\ req[s].info \in Pointer(infos')
  BY DEF HeldBy, Grows, Pointer
<1> QED
  BY <1>1, <1>2, <1>3, <1>4 DEF HeldBy

\* A step of a thread keeps what each thread knows of its own pointers.
LEMMA HeldStep ==
  ASSUME Typed, Typed', Linked, Held, NEW t \in Threads, Serve(t)
  PROVE  Held'
<1> USE DEF lists, memory, Goto, GotoIf, Finish
<1>g. Grows
  BY Effect
<1>o. \A s \in Threads \ {t} : HeldBy(s)'
  BY <1>g, HeldStays, OthersStay DEF Held, Typed
<1> SUFFICES HeldBy(t)'
  BY <1>o DEF Held
<1>h. HeldBy(t)
  BY DEF Held
<1>t. pc \in [Threads -> PCs] /\ req \in [Threads -> Locals] /\ req[t] \in Locals
  BY DEF Typed, ThreadsTyped
<1>b. ASSUME pc'[t] = "idle", req'[t] = Blank(NULL) PROVE HeldBy(t)'
  BY <1>b DEF HeldBy, Blank, Pointer, NodePcs, DataPcs, ValPcs, InfoPcs, NULL
<1>p. /\ req[t].node \in Pointer(nodes')
      /\ {req[t].data, req[t].val} \subseteq Pointer(vals')
      /\ {req[t].tag, req[t].newTag} \subseteq Pointer(tags')
      /\ req[t].info \in Pointer(infos')
  BY <1>g, <1>h DEF Grows, HeldBy, Pointer
<1>1. ASSUME NEW u \in URIs, Request(t, u) PROVE HeldBy(t)'
  <2>1. pc'[t] = "lookup" /\ req'[t] = Blank(u)
    BY <1>1, <1>t DEF Request
  <2> QED
    BY <2>1 DEF HeldBy, Blank, Pointer, NodePcs, DataPcs, ValPcs, InfoPcs, NULL
<1>2. CASE Lookup(t)
  <2>1. CASE InMAP(req[t].uri)
    <3>1. /\ pc'[t] = IF getNode(req[t].uri) = NULL THEN "forward" ELSE "clock"
          /\ req'[t] = [req[t] EXCEPT !.node = getNode(req[t].uri)]
          /\ UNCHANGED <<nodes, vals, infos, tags>>
      BY <1>2, <2>1, <1>t DEF Lookup, Locals
    <3>2. req[t].uri \in URIs
      BY <1>2, <1>h DEF Lookup, HeldBy
    <3>3. getNode(req[t].uri) = NULL \/
          (getNode(req[t].uri) \in DOMAIN nodes /\ nodes[getNode(req[t].uri)].key = req[t].uri)
      BY <2>1, <3>2, GetNode
    <3>4. NULL \notin DOMAIN nodes
      BY Domains DEF NULL
    <3> QED
      BY <1>t, <1>p, <2>1, <3>1, <3>2, <3>3, <3>4
      DEF HeldBy, Locals, Pointer, NodePcs, DataPcs, ValPcs, InfoPcs
  <2>2. CASE ~InMAP(req[t].uri)
    <3>1. pc'[t] = "outside" /\ req'[t] = req[t] /\ UNCHANGED <<nodes, vals, infos, tags>>
      BY <1>2, <2>2, <1>t DEF Lookup
    <3>2. req[t].uri \in URIs
      BY <1>2, <1>h DEF Lookup, HeldBy
    <3> QED
      BY <1>p, <3>1, <3>2 DEF HeldBy, NodePcs, DataPcs, ValPcs, InfoPcs
  <2> QED
    BY <2>1, <2>2
<1>3. CASE GetTime(t)
  <2>1. pc'[t] = "time" /\ req'[t] = [req[t] EXCEPT !.asked = now] /\ UNCHANGED <<nodes, vals, infos, tags>>
    BY <1>3, <1>t DEF GetTime, Locals
  <2> QED
    BY <1>3, <1>h, <1>p, <2>1 DEF GetTime, HeldBy, NodePcs, DataPcs, ValPcs, InfoPcs
<1>4. CASE CopyTime(t)
  <2>1. pc'[t] \in {"expiry", "mistimed"} /\ req'[t] = req[t] /\ UNCHANGED <<nodes, vals, infos, tags>>
    BY <1>4, <1>t DEF CopyTime, Locals
  <2> QED
    BY <1>4, <1>h, <1>p, <2>1 DEF CopyTime, HeldBy, NodePcs, DataPcs, ValPcs, InfoPcs
<1>5. CASE TestExpiry(t)
  <2>1. pc'[t] \in {"forward", "reval", "undefined"} /\ req'[t] = req[t] /\ UNCHANGED <<nodes, vals, infos, tags>>
    BY <1>5, <1>t DEF TestExpiry, Locals
  <2> QED
    BY <1>5, <1>h, <1>p, <2>1 DEF TestExpiry, HeldBy, NodePcs, DataPcs, ValPcs, InfoPcs
<1>6. CASE TestReval(t)
  <2>1. pc'[t] \in {"copy", "hit", "undefined"} /\ req'[t] = req[t] /\ UNCHANGED <<nodes, vals, infos, tags>>
    BY <1>6, <1>t DEF TestReval, Locals
  <2> QED
    BY <1>6, <1>h, <1>p, <2>1 DEF TestReval, HeldBy, NodePcs, DataPcs, ValPcs, InfoPcs
<1>7. CASE CopyPointer(t)
  <2>1. /\ pc'[t] \in {"send", "tag"} /\ req'[t] = [req[t] EXCEPT !.data = Node(t).val]
        /\ UNCHANGED <<nodes, vals, infos, tags>>
    BY <1>7, <1>t DEF CopyPointer, Locals
  <2>2. /\ req[t].uri \in URIs /\ InMAP(req[t].uri)
        /\ req[t].node \in DOMAIN nodes /\ nodes[req[t].node].key = req[t].uri
        /\ Node(t).val \in DOMAIN vals /\ vals[Node(t).val].uri = req[t].uri
    BY <1>7, AtNode DEF CopyPointer, NodePcs
  <2> QED
    BY <1>p, <1>t, <2>1, <2>2
    DEF HeldBy, Locals, Pointer, NodePcs, DataPcs, ValPcs, InfoPcs
<1>8. CASE Send(t)
  <2>1. CASE Live("val", req[t].data)
    <3>1. Finish(t)
      BY <1>8, <2>1 DEF Send
    <3> QED
      BY <3>1, <1>b, <1>t
  <2>2. CASE ~Live("val", req[t].data)
    <3>1. pc'[t] = "undefined" /\ req'[t] = req[t]
      BY <1>8, <2>2, <1>t DEF Send
    <3> QED
      BY <1>8, <1>h, <1>p, <3>1 DEF Send, HeldBy, NodePcs, DataPcs, ValPcs, InfoPcs
  <2> QED
    BY <2>1, <2>2
<1>9. CASE ReadTag(t)
  <2>1. /\ pc'[t] \in {"forward", "ask", "undefined"}
        /\ pc'[t] = "ask" => infos[Node(t).info].tag # NULL
        /\ req'[t] = [req[t] EXCEPT !.tag = infos[Node(t).info].tag]
        /\ UNCHANGED <<nodes, vals, infos, tags>>
    BY <1>9, <1>t DEF ReadTag, Locals
  <2>2. /\ infos[Node(t).info].tag \in Pointer(tags)
        /\ infos[Node(t).info].tag # NULL => tags[infos[Node(t).info].tag].uri = req[t].uri
    BY <1>9, AtNode DEF ReadTag, NodePcs, Pointer
  <2>3. /\ req[t].uri \in URIs /\ InMAP(req[t].uri)
        /\ req[t].node \in DOMAIN nodes /\ nodes[req[t].node].key = req[t].uri
        /\ req[t].data \in DOMAIN vals /\ vals[req[t].data].uri = req[t].uri
    BY <1>9, <1>h DEF ReadTag, HeldBy, NodePcs, DataPcs
  <2> QED
    BY <1>p, <1>t, <2>1, <2>2, <2>3
    DEF HeldBy, Locals, Pointer, NodePcs, DataPcs, ValPcs, InfoPcs
<1>10. CASE NotModified(t)
  <2>1. pc'[t] = "resend" /\ req'[t] = [req[t] EXCEPT !.confirmed = origin[req[t].uri]] /\ UNCHANGED <<nodes, vals, infos, tags>>
    BY <1>10, <1>t DEF NotModified, Locals
  <2> QED
    BY <1>10, <1>h, <1>p, <2>1 DEF NotModified, HeldBy, NodePcs, DataPcs, ValPcs, InfoPcs
<1>11. CASE ReadsFreedTag(t)
  <2>1. pc'[t] = "undefined" /\ req'[t] = req[t] /\ UNCHANGED <<nodes, vals, infos, tags>>
    BY <1>11, <1>t DEF ReadsFreedTag, Locals
  <2> QED
    BY <1>11, <1>h, <1>p, <2>1 DEF ReadsFreedTag, HeldBy, NodePcs, DataPcs, ValPcs, InfoPcs
<1>12. CASE EvalArgs(t)
  <2>1. /\ pc'[t] = "put" /\ req'[t] = [req[t] EXCEPT !.info = Node(t).info]
        /\ UNCHANGED <<nodes, vals, infos, tags>>
    BY <1>12, <1>t DEF EvalArgs, Locals
  <2>2. Node(t).info \in DOMAIN infos /\ infos[Node(t).info].uri = req[t].uri
    BY <1>12, AtNode DEF EvalArgs, NodePcs
  <2>3. /\ req[t].uri \in URIs /\ InMAP(req[t].uri)
        /\ req[t].val \in DOMAIN vals /\ vals[req[t].val].uri = req[t].uri
    BY <1>12, <1>h DEF EvalArgs, HeldBy, ValPcs
  <2> QED
    BY <1>p, <1>t, <2>1, <2>2, <2>3
    DEF HeldBy, Locals, Pointer, NodePcs, DataPcs, ValPcs, InfoPcs
<1>13. CASE NotKept(t)
  BY <1>13, <1>b, <1>t DEF NotKept
<1>14. CASE CopyExpiry(t)
  <2>1. pc'[t] \in {"put", "mistimed"} /\ req'[t] = req[t] /\ UNCHANGED <<nodes, vals, infos, tags>>
    BY <1>14, <1>t DEF CopyExpiry, Locals
  <2> QED
    BY <1>14, <1>h, <1>p, <2>1 DEF CopyExpiry, HeldBy, NodePcs, DataPcs, ValPcs, InfoPcs
<1>15. CASE PutLock(t)
  <2>1. /\ pc'[t] = IF Target(t) = NULL THEN "insert" ELSE "update"
        /\ req'[t] = [req[t] EXCEPT !.node = Target(t)]
        /\ UNCHANGED <<nodes, vals, infos, tags>>
    BY <1>15, <1>t DEF PutLock, Locals
  <2>2. /\ req[t].uri \in URIs /\ InMAP(req[t].uri)
        /\ req[t].val \in DOMAIN vals /\ vals[req[t].val].uri = req[t].uri
        /\ req[t].info \in DOMAIN infos /\ infos[req[t].info].uri = req[t].uri
    BY <1>15, <1>h DEF PutLock, HeldBy, ValPcs, InfoPcs
  <2>3. Target(t) = NULL \/ (Target(t) \in DOMAIN nodes /\ nodes[Target(t)].key = req[t].uri)
    BY <2>2, GetNode DEF Target
  <2> QED
    BY <1>p, <1>t, <2>1, <2>2, <2>3
    DEF HeldBy, Locals, Pointer, NodePcs, DataPcs, ValPcs, InfoPcs
<1>16. ASSUME NEW p \in Policies, Modified(t, p) PROVE HeldBy(t)'
  <2> DEFINE u == req[t].uri
             tag == IF p.tag THEN Len(tags') ELSE NULL
  <2>1. /\ u \in URIs /\ InMAP(u)
        /\ req[t].node \in DOMAIN nodes /\ nodes[req[t].node].key = u
    BY <1>16, <1>h DEF Modified, HeldBy, NodePcs
  <2>2. /\ vals' = Append(vals, Response(u, p))
        /\ tags' = IF p.tag THEN Append(tags, Tag(u)) ELSE tags
        /\ UNCHANGED <<nodes, infos>>
        /\ pc'[t] = "replace"
    BY <1>16, <1>t DEF Modified
  <2>3. req'[t] = [req[t] EXCEPT !.val = Len(vals'), !.newTag = tag, !.refill = TRUE]
    BY <1>16, <1>t DEF Modified, Locals
  <2>m. vals \in Seq(ResponseType) /\ tags \in Seq(TagType)
    BY DEF Typed, MemoryTyped
  <2>4. Len(vals') \in DOMAIN vals' /\ vals'[Len(vals')].uri = u
    BY <2>1, <2>2, <2>m, NewObjects, AppendFacts
  <2>5. tag # NULL => tag \in DOMAIN tags' /\ tags'[tag].uri = u
    <3>1. CASE p.tag
      BY <2>1, <2>2, <2>m, <3>1, NewObjects, AppendFacts
    <3> QED
      BY <3>1, <2>1, NewObjects
  <2> HIDE DEF tag
  <2>6. /\ req'[t].uri = u /\ req'[t].node = req[t].node /\ req'[t].data = req[t].data
        /\ req'[t].tag = req[t].tag /\ req'[t].info = req[t].info
        /\ req'[t].val = Len(vals') /\ req'[t].newTag = tag
    BY <2>3, <1>t DEF Locals
  <2> QED
    BY <1>p, <2>1, <2>2, <2>4, <2>5, <2>6 DEF HeldBy, Pointer, NodePcs, DataPcs, ValPcs, InfoPcs
<1>17. ASSUME NEW p \in Policies, Fetch(t, p) PROVE HeldBy(t)'
  <2> DEFINE u == req[t].uri
             info == [uri |-> u, reval |-> p.reval, until |-> Until(p),
                      tag |-> IF p.tag THEN Len(tags') ELSE NULL]
  <2>1. u \in URIs /\ InMAP(u)
    BY <1>17, <1>h DEF Fetch, HeldBy
  <2>2. /\ vals' = Append(vals, Response(u, p)) /\ infos' = Append(infos, info)
        /\ pc'[t] \in {"put", "age"}
    BY <1>17, <1>t DEF Fetch
  <2>3. req'[t] = [req[t] EXCEPT !.val = Len(vals'), !.info = Len(infos')]
    BY <1>17, <1>t DEF Fetch, Locals
  <2>m. vals \in Seq(ResponseType) /\ infos \in Seq(InfoType) /\ Len(tags') \in Nat
    BY Domains DEF Typed, MemoryTyped
  <2>4. Len(vals') \in DOMAIN vals' /\ vals'[Len(vals')].uri = u
    BY <2>1, <2>2, <2>m, NewObjects, AppendFacts
  <2>5. info \in InfoType /\ info.uri = u
    BY <2>1, <2>m, NewObjects DEF InfoType, NULL
  <2> HIDE DEF info
  <2>6. Len(infos') \in DOMAIN infos' /\ infos'[Len(infos')].uri = u
    BY <2>2, <2>m, <2>5, AppendFacts
  <2>7. /\ req'[t].uri = u /\ req'[t].node = req[t].node /\ req'[t].data = req[t].data
        /\ req'[t].tag = req[t].tag /\ req'[t].newTag = req[t].newTag
        /\ req'[t].info = Len(infos') /\ req'[t].val = Len(vals')
    BY <2>3, <1>t DEF Locals
  <2> QED
    BY <1>p, <2>1, <2>2, <2>4, <2>6, <2>7 DEF HeldBy, Pointer, NodePcs, DataPcs, ValPcs, InfoPcs
<1>18. CASE ReplaceTag(t)
  <2>1. pc'[t] \in {"args", "undefined"} /\ req'[t] = req[t]
    BY <1>18, <1>t DEF ReplaceTag
  <2>2. /\ req[t].uri \in URIs /\ InMAP(req[t].uri)
        /\ req[t].node \in DOMAIN nodes /\ nodes[req[t].node].key = req[t].uri
        /\ req[t].val \in DOMAIN vals /\ vals[req[t].val].uri = req[t].uri
    BY <1>18, <1>h DEF ReplaceTag, HeldBy, NodePcs, ValPcs
  <2> QED
    BY <1>g, <1>p, <2>1, <2>2 DEF Grows, HeldBy, NodePcs, DataPcs, ValPcs, InfoPcs
<1>19. CASE Insert(t)
  BY <1>19, <1>b, <1>t DEF Insert
<1>20. CASE UpdateVal(t)
  <2>1. pc'[t] \in {"swap", "undefined"} /\ req'[t] = req[t]
    BY <1>20, <1>t DEF UpdateVal
  <2>2. /\ req[t].uri \in URIs /\ InMAP(req[t].uri)
        /\ req[t].node \in DOMAIN nodes /\ nodes[req[t].node].key = req[t].uri
        /\ req[t].val \in DOMAIN vals /\ vals[req[t].val].uri = req[t].uri
        /\ req[t].info \in DOMAIN infos /\ infos[req[t].info].uri = req[t].uri
    BY <1>20, <1>h DEF UpdateVal, HeldBy, NodePcs, ValPcs, InfoPcs
  <2> QED
    BY <1>g, <1>p, <2>1, <2>2 DEF Grows, HeldBy, NodePcs, DataPcs, ValPcs, InfoPcs
<1>21. CASE UpdateInfo(t)
  <2>1. \/ pc'[t] = "idle" /\ req'[t] = Blank(NULL)
        \/ pc'[t] = "undefined" /\ req'[t] = req[t]
    BY <1>21, <1>t DEF UpdateInfo
  <2>2. req[t].uri \in URIs /\ InMAP(req[t].uri)
    BY <1>21, <1>h DEF UpdateInfo, HeldBy
  <2>3. CASE pc'[t] = "undefined" /\ req'[t] = req[t]
    BY <1>g, <1>p, <2>2, <2>3 DEF Grows, HeldBy, NodePcs, DataPcs, ValPcs, InfoPcs
  <2> QED
    BY <2>1, <2>3, <1>b
<1> QED
  BY <1>1, <1>2, <1>3, <1>4, <1>5, <1>6, <1>7, <1>8, <1>9, <1>10, <1>11, <1>12, <1>13,
     <1>14, <1>15, <1>16, <1>17, <1>18, <1>19, <1>20, <1>21
  DEF Serve

-----------------------------------------------------------------------------
(* The lock and the lists *)

\* Only Insert adds a node or changes a list.
LEMMA OnlyInsert ==
  ASSUME Typed, Linked, Held, NEW t \in Threads, Serve(t), ~Insert(t)
  PROVE  /\ MAP' = MAP /\ DOMAIN nodes' = DOMAIN nodes
         /\ \A n \in DOMAIN nodes : nodes'[n].key = nodes[n].key
<1>1. \A n \in DOMAIN nodes : nodes'[n].key = nodes[n].key
  BY Effect DEF Grows
<1>2. CASE Looks(t)
  BY <1>2, LooksOnly DEF lists
<1>3. CASE Writes(t)
  <2>1. /\ MAP' = MAP
        /\ \/ nodes' = nodes
           \/ nodes' = [nodes EXCEPT ![req[t].node].val = req[t].val]
           \/ nodes' = [nodes EXCEPT ![req[t].node].info = req[t].info]
    BY <1>3 DEF Writes, Modified, Fetch, ReplaceTag, UpdateVal, UpdateInfo, lists
  <2> QED
    BY <1>1, <2>1
<1> QED
  BY <1>1, <1>2, <1>3, LooksOrWrites

\* Only put() takes or gives back the lock.
LEMMA LockChanges ==
  ASSUME NEW t, Serve(t)
  PROVE  \/ cacheLock' = cacheLock
         \/ pc[t] = "put" /\ cacheLock = Nobody /\ cacheLock' = t
         \/ pc[t] \in {"insert", "swap"} /\ cacheLock' = Nobody
<1>1. CASE Looks(t)
  BY <1>1 DEF Looks, Request, Lookup, GetTime, CopyTime, TestExpiry, TestReval, CopyPointer,
     Send, ReadTag, NotModified, ReadsFreedTag, EvalArgs, NotKept, CopyExpiry, PutLock
<1>2. CASE Writes(t)
  BY <1>2 DEF Writes, Modified, Fetch, ReplaceTag, Insert, UpdateVal, UpdateInfo
<1> QED
  BY <1>1, <1>2, LooksOrWrites

\* How a thread comes under the lock, and to where.
LEMMA EntersByPutLock ==
  ASSUME ThreadsTyped, NEW t \in Threads, Serve(t), pc'[t] \in {"insert", "update", "swap"}
  PROVE  PutLock(t) \/ (UpdateVal(t) /\ pc'[t] = "swap")
<1> USE DEF Goto, GotoIf, Finish, ThreadsTyped
<1>1. CASE Looks(t)
  BY <1>1 DEF Looks, Request, Lookup, GetTime, CopyTime, TestExpiry, TestReval, CopyPointer,
     Send, ReadTag, NotModified, ReadsFreedTag, EvalArgs, NotKept, CopyExpiry
<1>2. CASE Writes(t)
  BY <1>2 DEF Writes, Modified, Fetch, ReplaceTag, Insert, UpdateVal, UpdateInfo
<1> QED
  BY <1>1, <1>2, LooksOrWrites

\* Who changes the lists has the lock, and has looked the key up since taking it.
LEMMA LockedStep ==
  ASSUME Typed, Linked, Held, Locked, OneNodePerKey, NEW t \in Threads, Serve(t)
  PROVE  Locked'
<1> SUFFICES ASSUME NEW s \in Threads, pc'[s] \in {"insert", "update", "swap"}
             PROVE  /\ cacheLock' = s
                    /\ pc'[s] = "insert" => \A n \in DOMAIN nodes' : nodes'[n].key # req'[s].uri
  BY DEF Locked
<1>1. CASE s # t
  <2>1. pc[s] = pc'[s] /\ req'[s] = req[s]
    BY <1>1, OthersStay DEF Typed
  <2>2. cacheLock = s /\ s # Nobody
    BY <2>1, CacheAssumption DEF Locked
  <2>3. pc[t] \notin {"insert", "update", "swap"}
    BY <1>1, <2>2 DEF Locked
  <2>4. cacheLock' = s /\ ~Insert(t)
    BY <2>2, <2>3, LockChanges DEF Insert
  <2> QED
    BY <2>1, <2>4, OnlyInsert DEF Locked
<1>2. CASE s = t
  <2>1. CASE PutLock(t)
    <3>1. /\ cacheLock' = t /\ UNCHANGED nodes
          /\ req'[t] = [req[t] EXCEPT !.node = Target(t)]
          /\ pc'[t] = IF Target(t) = NULL THEN "insert" ELSE "update"
      BY <2>1 DEF PutLock, Goto, lists, Typed, ThreadsTyped, Locals
    <3>2. req[t].uri \in URIs /\ InMAP(req[t].uri) /\ req'[t].uri = req[t].uri
      BY <2>1, <3>1 DEF PutLock, Held, HeldBy, Typed, ThreadsTyped, Locals
    <3>3. pc'[t] = "insert" => \A n \in DOMAIN nodes : nodes[n].key # req[t].uri
      BY <3>1, <3>2, GetNodeFinds, Domains DEF Target, NULL
    <3> QED
      BY <1>2, <3>1, <3>2, <3>3
  <2>2. CASE UpdateVal(t) /\ pc'[t] = "swap"
    BY <1>2, <2>2 DEF UpdateVal, Locked
  <2> QED
    BY <1>2, <2>1, <2>2, EntersByPutLock DEF Typed
<1> QED
  BY <1>1, <1>2

\* The node that Insert makes is the first of its list, and the only new one.
LEMMA Inserted ==
  ASSUME Typed, Linked, Held, NEW t \in Threads, Insert(t)
  PROVE  LET u == req[t].uri
             n == Len(nodes) + 1
         IN  /\ u \in URIs /\ InMAP(u) /\ Bucket[u] \in Buckets
             /\ DOMAIN nodes = 1 .. Len(nodes) /\ DOMAIN nodes' = 1 .. n
             /\ n \in Nat /\ n \notin DOMAIN nodes
             /\ \A m \in DOMAIN nodes : nodes'[m] = nodes[m]
             /\ nodes'[n] = makeNode(t) /\ nodes'[n].key = u
             /\ \A b \in Buckets : b # Bucket[u] => MAP'[b] = MAP[b]
             /\ MAP'[Bucket[u]] = <<n>> \o MAP[Bucket[u]]
<1>1. req[t].uri \in URIs /\ InMAP(req[t].uri)
  BY DEF Insert, Held, HeldBy
<1>2. makeNode(t) \in NodeType /\ makeNode(t).key = req[t].uri
  BY <1>1, LocalsTyped DEF makeNode, NodeType
<1>3. /\ nodes' = Append(nodes, makeNode(t))
      /\ MAP' = [MAP EXCEPT ![Bucket[req[t].uri]] = <<Len(nodes')>> \o MAP[Bucket[req[t].uri]]]
  BY DEF Insert, WithHead
<1>4. /\ DOMAIN nodes = 1 .. Len(nodes) /\ DOMAIN nodes' = 1 .. Len(nodes) + 1
      /\ Len(nodes) \in Nat /\ Len(nodes') = Len(nodes) + 1
      /\ nodes'[Len(nodes) + 1] = makeNode(t)
      /\ \A m \in DOMAIN nodes : nodes'[m] = nodes[m]
  BY <1>2, <1>3, AppendFacts DEF Typed, MemoryTyped
<1>5. Bucket[req[t].uri] \in Buckets
  BY <1>1 DEF Buckets
<1>6. MAP \in [Buckets -> Seq(Nat)]
  BY DEF Typed, MemoryTyped
<1> QED
  BY <1>1, <1>2, <1>3, <1>4, <1>5, <1>6

\* A key still has one node, and each node is in its list.
LEMMA OneNodeStep ==
  ASSUME Typed, Linked, Held, Locked, OneNodePerKey, NEW t \in Threads, Serve(t)
  PROVE  OneNodePerKey'
<1>1. CASE Insert(t)
  <2> DEFINE u == req[t].uri
             k == Len(nodes) + 1
  <2>1. /\ Bucket[u] \in Buckets /\ k \in Nat /\ k \notin DOMAIN nodes
        /\ DOMAIN nodes = 1 .. Len(nodes) /\ DOMAIN nodes' = 1 .. k
        /\ \A m \in DOMAIN nodes : nodes'[m] = nodes[m]
        /\ nodes'[k].key = u
        /\ \A b \in Buckets : b # Bucket[u] => MAP'[b] = MAP[b]
        /\ MAP'[Bucket[u]] = <<k>> \o MAP[Bucket[u]]
    BY <1>1, Inserted
  <2>2. \A n \in DOMAIN nodes : nodes[n].key # u /\ Bucket[nodes[n].key] \in Buckets
    <3>1. \A n \in DOMAIN nodes : nodes[n] \in NodeType
      BY Domains DEF Typed, MemoryTyped
    <3> QED
      BY <1>1, <3>1 DEF Insert, Locked, Linked, NodeType, Buckets
  <2>3. DOMAIN nodes' = DOMAIN nodes \cup {k}
    BY <2>1
  <2>4. MAP[Bucket[u]] \in Seq(Nat) /\ <<k>> \in Seq(Nat)
    BY <2>1 DEF Typed, MemoryTyped
  <2>5. /\ 1 \in DOMAIN MAP'[Bucket[u]] /\ MAP'[Bucket[u]][1] = k
        /\ \A i \in DOMAIN MAP[Bucket[u]] :
             i + 1 \in DOMAIN MAP'[Bucket[u]] /\ MAP'[Bucket[u]][i + 1] = MAP[Bucket[u]][i]
    <3> HIDE DEF u, k
    <3> DEFINE list == MAP[Bucket[u]]
               longer == MAP'[Bucket[u]]
    <3>1. list \in Seq(Nat) /\ k \in Nat /\ longer = <<k>> \o list
      BY <2>1, <2>4
    <3> HIDE DEF list, longer
    <3>2. /\ Len(<<k>> \o list) = Len(list) + 1 /\ Len(list) \in Nat
          /\ DOMAIN list = 1 .. Len(list) /\ DOMAIN (<<k>> \o list) = 1 .. Len(list) + 1
          /\ (<<k>> \o list)[1] = k
          /\ \A i \in DOMAIN list : (<<k>> \o list)[i + 1] = list[i]
      BY <3>1, PrependFacts
    <3>3. /\ 1 \in DOMAIN longer /\ longer[1] = k
          /\ \A i \in DOMAIN list : i + 1 \in DOMAIN longer /\ longer[i + 1] = list[i]
      BY <3>1, <3>2
    <3> QED
      BY <3>3 DEF list, longer
  <2> HIDE DEF u, k
  <2>6. ASSUME NEW n \in DOMAIN nodes'
        PROVE  \E i \in DOMAIN MAP'[Bucket[nodes'[n].key]] : MAP'[Bucket[nodes'[n].key]][i] = n
    <3>1. CASE n = k
      BY <3>1, <2>1, <2>5
    <3>2. CASE n \in DOMAIN nodes
      <4>1. PICK i \in DOMAIN MAP[Bucket[nodes[n].key]] : MAP[Bucket[nodes[n].key]][i] = n
        BY <3>2 DEF OneNodePerKey
      <4>2. nodes'[n] = nodes[n] /\ Bucket[nodes[n].key] \in Buckets
        BY <3>2, <2>1, <2>2
      <4>3. CASE Bucket[nodes[n].key] = Bucket[u]
        BY <4>1, <4>2, <4>3, <2>5
      <4>4. CASE Bucket[nodes[n].key] # Bucket[u]
        BY <4>1, <4>2, <4>4, <2>1
      <4> QED
        BY <4>3, <4>4
    <3> QED
      BY <3>1, <3>2, <2>3
  <2>7. \A m, n \in DOMAIN nodes' : nodes'[m].key = nodes'[n].key => m = n
    BY <2>1, <2>2, <2>3 DEF OneNodePerKey
  <2> QED
    BY <2>6, <2>7 DEF OneNodePerKey
<1>2. CASE ~Insert(t)
  BY <1>2, OnlyInsert DEF OneNodePerKey
<1> QED
  BY <1>1, <1>2

-----------------------------------------------------------------------------
(* The invariant *)

Inv == Typed /\ Linked /\ Held /\ Locked /\ OneNodePerKey

\* The invariant holds at the start.
LEMMA InvInit == Init => Inv
<1> SUFFICES ASSUME Init PROVE Inv
  OBVIOUS
<1>1. Linked /\ OneNodePerKey
  BY DEF Init, Linked, OneNodePerKey
<1>2. Held
  BY DEF Init, Held, HeldBy, Blank, Pointer, NodePcs, DataPcs, ValPcs, InfoPcs, NULL
<1>3. Locked
  BY DEF Init, Locked
<1> QED
  BY <1>1, <1>2, <1>3, TypedInit DEF Inv

\* Every step keeps it.
LEMMA InvStep == Inv /\ [Next]_vars => Inv'
<1> SUFFICES ASSUME Inv, [Next]_vars PROVE Inv'
  OBVIOUS
<1>1. Typed'
  BY TypedStep DEF Inv
<1>2. ASSUME NEW t \in Threads, Serve(t) PROVE Inv'
  BY <1>1, <1>2, LinkedStep, HeldStep, LockedStep, OneNodeStep DEF Inv
<1>3. ASSUME (\E u \in URIs : Publish(u)) \/ Tick \/ UNCHANGED vars PROVE Inv'
  <2>1. UNCHANGED <<MAP, nodes, vals, infos, tags, pc, req, cacheLock>>
    BY <1>3 DEF Publish, Tick, vars, lists, memory
  <2>2. Linked' /\ OneNodePerKey'
    BY <2>1 DEF Inv, Linked, OneNodePerKey
  <2>3. Held' /\ Locked'
    BY <2>1 DEF Inv, Held, HeldBy, Locked
  <2> QED
    BY <1>1, <2>2, <2>3 DEF Inv
<1> QED
  BY <1>2, <1>3 DEF Next

\* In every state: memory is typed and linked, the threads hold what their place in the code
\* says, the lock excludes, and get() finds at most one node for a URI.
THEOREM Invariant == Spec => []Inv
  BY InvInit, InvStep, PTL DEF Spec

\* The types that the run checks follow from those of the invariant.
LEMMA TypedTypeOK == Inv => TypeOK
<1> SUFFICES ASSUME Inv PROVE TypeOK
  OBVIOUS
<1>1. /\ pc \in [Threads -> PCs] /\ cacheLock \in Threads \cup {Nobody}
      /\ DOMAIN origin = URIs /\ \A u \in URIs : origin[u] \in 0 .. MaxVersion[u]
      /\ now \in 0 .. MaxTime /\ tm \in Nat /\ shared \subseteq URIs
  BY CacheAssumption DEF Inv, Typed, ThreadsTyped, WorldTyped
<1>2. \A n \in DOMAIN nodes : nodes[n].key \in URIs
  <2>1. \A n \in DOMAIN nodes : nodes[n] \in NodeType
    BY Domains DEF Inv, Typed, MemoryTyped
  <2> QED
    BY <2>1 DEF NodeType
<1> QED
  BY <1>1, <1>2 DEF Inv, TypeOK, Linked, Held, HeldBy, Pointer

\* Every pointer, whoever holds it, is NULL or an address of an object of its kind.
THEOREM TypeCorrect == Spec => []TypeOK
  BY Invariant, TypedTypeOK, PTL

\* Racing puts never give a URI two nodes, lose one, or put it in another bucket's list.
THEOREM OneNode == Spec => []OneNodePerKey
<1>1. Inv => OneNodePerKey
  BY DEF Inv
<1> QED
  BY Invariant, <1>1, PTL

\* No node ever leaves its list or changes its place before another.
THEOREM ListsGrow == Spec => ListsOnlyGrow
<1>1. ASSUME Inv, [Next]_vars PROVE \A b \in Buckets : IsSuffix(MAP[b], MAP'[b])
  <2> SUFFICES ASSUME NEW b \in Buckets PROVE IsSuffix(MAP[b], MAP'[b])
    OBVIOUS
  <2>1. MAP[b] \in Seq(Nat)
    BY <1>1 DEF Inv, Typed, MemoryTyped
  <2>2. CASE MAP'[b] = MAP[b]
    BY <2>1, <2>2, SuffixOfItself
  <2>3. CASE \E t \in Threads : Serve(t)
    <3>1. PICK t \in Threads : Serve(t)
      BY <2>3
    <3>2. CASE Insert(t)
      <4>1. Len(nodes) + 1 \in Nat /\ (MAP'[b] = MAP[b] \/ MAP'[b] = <<Len(nodes) + 1>> \o MAP[b])
        BY <1>1, <3>2, Inserted DEF Inv
      <4> QED
        BY <2>1, <2>2, <4>1, SuffixOfLonger
    <3>3. CASE ~Insert(t)
      BY <1>1, <2>2, <3>1, <3>3, OnlyInsert DEF Inv
    <3> QED
      BY <3>2, <3>3
  <2>4. CASE ~(\E t \in Threads : Serve(t))
    BY <1>1, <2>2, <2>4 DEF Next, Publish, Tick, vars, lists
  <2> QED
    BY <2>3, <2>4
<1> QED
  BY <1>1, Invariant, PTL DEF Spec, ListsOnlyGrow

-----------------------------------------------------------------------------
(* The index of a bucket *)

\* How indexOf() takes the sum over the places of a URI, as a fold over sets of them.
Place(s) == CHOOSE i \in s : TRUE
Sums(key, f, sets) ==
  f = [s \in sets |-> IF s = {} THEN 0 ELSE f[s \ {Place(s)}] + Char(key[Place(s)])]

\* The sum is that of a function which adds up the places of each set.
LEMMA SumIsFold ==
  ASSUME NEW key
  PROVE  FoldSeq(LAMBDA byte, sum : sum + Char(byte), 0, key) =
           (CHOOSE f : Sums(key, f, SUBSET DOMAIN key))[DOMAIN key]
  BY Zenon DEF FoldSeq, FoldFunction, FoldFunctionOnSet, MapThenFoldSet, Sums, Place

\* There is one, built up from the smaller sets.
LEMMA SumsExist ==
  ASSUME NEW key \in Seq(0 .. 255)
  PROVE  \E f : Sums(key, f, SUBSET DOMAIN key)
<1> DEFINE n == Len(key)
           D == 1 .. n
           UpTo(k) == {s \in SUBSET D : Cardinality(s) <= k}
           None == {k \in Nat : \A f : ~Sums(key, f, UpTo(k))}
<1>1. n \in Nat /\ DOMAIN key = D
  BY LenProperties
<1>f. IsFiniteSet(D) /\ Cardinality(D) = n
  BY <1>1, FS_Interval
<1>2. ASSUME NEW s \in SUBSET D
      PROVE  /\ IsFiniteSet(s) /\ Cardinality(s) \in Nat /\ Cardinality(s) <= n
             /\ Cardinality(s) = 0 <=> s = {}
  <2> HIDE DEF D, n
  <2>1. IsFiniteSet(s) /\ Cardinality(s) <= n
    BY <1>f, FS_Subset
  <2> QED
    BY <2>1, FS_EmptySet, FS_CardinalityType
<1>3. None = {}
  <2> SUFFICES ASSUME None # {} PROVE FALSE
    OBVIOUS
  <2>1. PICK m \in None : \A k \in None : m <= k
    <3>1. None \subseteq Nat
      OBVIOUS
    <3> HIDE DEF None
    <3> QED
      BY <3>1, LeastMember
  <2>2. m \in Nat /\ \A f : ~Sums(key, f, UpTo(m))
    OBVIOUS
  <2>3. CASE m = 0
    <3>1. UpTo(0) = {{}}
      BY <1>2, FS_EmptySet
    <3>2. Sums(key, [s \in UpTo(0) |-> 0], UpTo(0))
      BY <3>1 DEF Sums
    <3> QED
      BY <3>2, <2>2, <2>3
  <2>4. CASE m # 0
    <3>1. m - 1 \in Nat /\ m - 1 \notin None
      <4> HIDE DEF None
      <4> QED
        BY <2>1, <2>2, <2>4
    <3>2. PICK f : Sums(key, f, UpTo(m - 1))
      BY <3>1
    <3> DEFINE g == [s \in UpTo(m) |-> IF s = {} THEN 0
                                       ELSE f[s \ {Place(s)}] + Char(key[Place(s)])]
    <3>3. ASSUME NEW s \in UpTo(m), s # {}
          PROVE  s \ {Place(s)} \in UpTo(m - 1) /\ s \ {Place(s)} \in UpTo(m)
      <4>1. Place(s) \in s
        BY <3>3 DEF Place
      <4>2. Cardinality(s \ {Place(s)}) = Cardinality(s) - 1
        BY <4>1, <1>2, FS_RemoveElement
      <4>3. Cardinality(s) \in Nat /\ Cardinality(s) <= m /\ s \ {Place(s)} \in SUBSET D
        BY <1>2
      <4> QED
        BY <4>2, <4>3, <2>2
    <3>4. \A s \in UpTo(m - 1) : s \in UpTo(m) /\ g[s] = f[s]
      <4> SUFFICES ASSUME NEW s \in UpTo(m - 1) PROVE s \in UpTo(m) /\ g[s] = f[s]
        OBVIOUS
      <4>1. s \in UpTo(m)
        BY <1>2, <2>2
      <4>2. f[s] = IF s = {} THEN 0 ELSE f[s \ {Place(s)}] + Char(key[Place(s)])
        BY <3>2 DEF Sums
      <4> QED
        BY <4>1, <4>2
    <3>5. \A s \in UpTo(m) : g[s] = IF s = {} THEN 0 ELSE g[s \ {Place(s)}] + Char(key[Place(s)])
      BY <3>3, <3>4
    <3>6. Sums(key, g, UpTo(m))
      <4> DEFINE h == [s \in UpTo(m) |-> IF s = {} THEN 0
                                         ELSE g[s \ {Place(s)}] + Char(key[Place(s)])]
      <4>1. \A s \in UpTo(m) : g[s] = h[s]
        BY <3>5
      <4>2. g = h
        BY <4>1
      <4> QED
        BY <4>2 DEF Sums
    <3> QED
      BY <3>6, <2>2
  <2> QED
    BY <2>3, <2>4
<1>4. UpTo(n) = SUBSET D
  BY <1>2
<1> QED
  BY <1>1, <1>3, <1>4

\* An ASCII letter counts as it is.
LEMMA CharOfASCII == ASSUME NEW byte \in 0 .. 255, byte < 128 PROVE Char(byte) \in Nat
  BY DEF Char

\* The sum over ASCII letters is no negative number.
LEMMA SumOfASCII ==
  ASSUME NEW key \in Seq(0 .. 255), \A i \in DOMAIN key : key[i] < 128
  PROVE  FoldSeq(LAMBDA byte, sum : sum + Char(byte), 0, key) \in Nat
<1> DEFINE D == DOMAIN key
           f == CHOOSE g : Sums(key, g, SUBSET D)
           Wrong == {s \in SUBSET D : f[s] \notin Nat}
<1>1. IsFiniteSet(D)
  BY LenProperties, FS_Interval
<1>2. Sums(key, f, SUBSET D)
  BY SumsExist, Zenon
<1>3. FoldSeq(LAMBDA byte, sum : sum + Char(byte), 0, key) = f[D]
  BY SumIsFold, Zenon
<1>4. ASSUME NEW i \in D PROVE Char(key[i]) \in Nat
  <2>1. key[i] \in 0 .. 255 /\ key[i] < 128
    <3>1. key \in [D -> 0 .. 255]
      BY LenProperties
    <3> QED
      BY <3>1
  <2> QED
    BY <2>1, CharOfASCII
<1> HIDE DEF f
<1>5. f[{}] \in Nat
  <2>1. f[{}] = 0
    BY <1>2 DEF Sums
  <2> QED
    BY <2>1
<1>6. ASSUME NEW s \in SUBSET D, s # {}
      PROVE  f[s] = f[s \ {Place(s)}] + Char(key[Place(s)])
  BY <1>2, <1>6 DEF Sums
<1>7. Wrong = {}
  <2> SUFFICES ASSUME Wrong # {} PROVE FALSE
    OBVIOUS
  <2>1. PICK s \in Wrong : \A r \in Wrong : Cardinality(s) <= Cardinality(r)
    <3>1. Wrong \in SUBSET (SUBSET D)
      OBVIOUS
    <3> HIDE DEF Wrong, D
    <3> QED
      BY <3>1, <1>1, SmallestSet
  <2>2. s \in SUBSET D /\ f[s] \notin Nat
    BY <2>1
  <2>3. s # {}
    <3> HIDE DEF Wrong
    <3> QED
      BY <2>2, <1>5, Zenon
  <2>4. Place(s) \in s
    BY <2>3 DEF Place
  <2>5. s \ {Place(s)} \notin Wrong
    <3> HIDE DEF Wrong, D
    <3>1. IsFiniteSet(s)
      BY <2>2, <1>1, FS_Subset
    <3>2. Cardinality(s \ {Place(s)}) = Cardinality(s) - 1 /\ Cardinality(s) \in Nat
      BY <3>1, <2>4, FS_RemoveElement, FS_CardinalityType
    <3> QED
      BY <3>2, <2>1
  <2>6. f[s \ {Place(s)}] \in Nat
    BY <2>5, <2>2
  <2>7. Char(key[Place(s)]) \in Nat
    <3> HIDE DEF Wrong, D
    <3> QED
      BY <2>2, <2>4, <1>4
  <2>8. \A a, b \in Nat : a + b \in Nat
    OBVIOUS
  <2>9. f[s] \in Nat
    <3>1. f[s \ {Place(s)}] + Char(key[Place(s)]) \in Nat
      BY <2>6, <2>7, <2>8, Zenon
    <3> QED
      BY <3>1, <2>2, <2>3, <1>6, Zenon
  <2> QED
    BY <2>2, <2>9, Zenon
<1> QED
  BY <1>3, <1>7

\* indexOf() leads into MAP for every URI of ASCII only, however long it is.
LEMMA ASCIIInMAP ==
  ASSUME NEW u \in URIs, \A i \in DOMAIN Bytes[u] : Bytes[u][i] < 128
  PROVE  InMAP(u)
<1> DEFINE sum == FoldSeq(LAMBDA byte, sum : sum + Char(byte), 0, Bytes[u])
<1>1. Bytes[u] \in Seq(0 .. 255) /\ NUM_BUCKETS \in Nat \ {0}
  BY CacheAssumption
<1>2. sum \in Nat
  BY <1>1, SumOfASCII
<1>3. indexOf(Bytes[u]) = IF sum >= 0 THEN sum % NUM_BUCKETS ELSE -((-sum) % NUM_BUCKETS)
  BY Zenon DEF indexOf
<1> HIDE DEF sum
<1> QED
  BY <1>1, <1>2, <1>3 DEF InMAP, Bucket

\* Only a lookup finds that an index is not in MAP.
LEMMA LeavesByLookup ==
  ASSUME ThreadsTyped, NEW t \in Threads, Serve(t), pc'[t] = "outside"
  PROVE  ~InMAP(req[t].uri) /\ req' = req
<1> USE DEF Goto, GotoIf, Finish, ThreadsTyped
<1>1. CASE Looks(t)
  <2>1. Lookup(t)
    BY <1>1 DEF Looks, Request, GetTime, CopyTime, TestExpiry, TestReval, CopyPointer,
       Send, ReadTag, NotModified, ReadsFreedTag, EvalArgs, NotKept, CopyExpiry, PutLock
  <2> QED
    BY <2>1 DEF Lookup
<1>2. CASE Writes(t)
  BY <1>2 DEF Writes, Modified, Fetch, ReplaceTag, Insert, UpdateVal, UpdateInfo
<1> QED
  BY <1>1, <1>2, LooksOrWrites

\* A thread that has left MAP had an index outside of it.
Strayed == \A t \in Threads : pc[t] = "outside" => ~InMAP(req[t].uri)

\* Whatever the length of a URI and the number of buckets, and however many requests there
\* are: get() and put() read and write in front of MAP only for a URI with a byte beyond ASCII.
THEOREM LeavesOnlyBeyondASCII == Spec => []LeavesMAPBeyondASCII
<1>1. Init => Strayed
  BY DEF Init, Strayed
<1>2. ASSUME Inv, Strayed, [Next]_vars PROVE Strayed'
  <2>1. ASSUME NEW t \in Threads, Serve(t), NEW s \in Threads, pc'[s] = "outside"
        PROVE  ~InMAP(req'[s].uri)
    <3>1. CASE s = t
      BY <2>1, <3>1, <1>2, LeavesByLookup DEF Inv, Typed
    <3>2. CASE s # t
      BY <2>1, <3>2, <1>2, OthersStay DEF Inv, Typed, Strayed
    <3> QED
      BY <3>1, <3>2
  <2>2. CASE (\E u \in URIs : Publish(u)) \/ Tick \/ UNCHANGED vars
    <3>1. UNCHANGED <<pc, req>>
      BY <2>2 DEF Publish, Tick, vars
    <3> QED
      BY <3>1, <1>2 DEF Strayed
  <2>3. CASE \E t \in Threads : Serve(t)
    BY <2>1, <2>3 DEF Strayed, InMAP
  <2> QED
    BY <1>2, <2>2, <2>3 DEF Next
<1>3. ASSUME Inv, Strayed PROVE LeavesMAPBeyondASCII
  <2> SUFFICES ASSUME NEW t \in Threads, pc[t] = "outside"
               PROVE  \E i \in DOMAIN Bytes[req[t].uri] : Bytes[req[t].uri][i] >= 128
    BY DEF LeavesMAPBeyondASCII
  <2>1. req[t].uri \in URIs
    BY <1>3 DEF Inv, Held, HeldBy
  <2>2. ~InMAP(req[t].uri)
    BY <1>3 DEF Strayed
  <2> DEFINE key == Bytes[req[t].uri]
  <2>3. PICK i \in DOMAIN key : ~(key[i] < 128)
    BY <2>1, <2>2, ASCIIInMAP
  <2>4. key \in Seq(0 .. 255)
    BY <2>1, CacheAssumption
  <2> HIDE DEF key
  <2>5. key[i] \in 0 .. 255
    <3>1. key \in [DOMAIN key -> 0 .. 255]
      BY <2>4, LenProperties
    <3> QED
      BY <3>1
  <2>6. key[i] >= 128
    BY <2>3, <2>5
  <2> QED
    BY <2>6 DEF key
<1> QED
  BY <1>1, <1>2, <1>3, Invariant, PTL DEF Spec

-----------------------------------------------------------------------------
(* The map that Store specifies *)

\* What hangs off the nodes with the key.
View(u) == {vals[nodes[n].val] : n \in {m \in DOMAIN nodes : nodes[m].key = u}}

\* What a lookup finds is all there is.
LEMMA EntryIsView == Inv => \A u \in URIs : Entry(u) = View(u)
<1> SUFFICES ASSUME Inv, NEW u \in URIs PROVE Entry(u) = View(u)
  OBVIOUS
<1>1. CASE \E n \in DOMAIN nodes : nodes[n].key = u
  <2>1. InMAP(u)
    BY <1>1 DEF Inv, Linked
  <2>2. getNode(u) \in DOMAIN nodes /\ nodes[getNode(u)].key = u
    BY <1>1, <2>1, GetNodeFinds DEF Inv
  <2>3. getNode(u) # NULL
    BY <2>2, Domains DEF Inv, NULL
  <2>4. {m \in DOMAIN nodes : nodes[m].key = u} = {getNode(u)}
    BY <2>2 DEF Inv, OneNodePerKey
  <2> QED
    BY <2>1, <2>3, <2>4 DEF Entry, View
<1>2. CASE ~(\E n \in DOMAIN nodes : nodes[n].key = u)
  <2>1. ~InMAP(u) \/ getNode(u) = NULL
    BY <1>2, GetNodeFinds DEF Inv
  <2>2. {m \in DOMAIN nodes : nodes[m].key = u} = {}
    BY <1>2
  <2> QED
    BY <2>1, <2>2 DEF Entry, View
<1> QED
  BY <1>1, <1>2

\* A step maps to the abstract step of the same name, or to none.
LEMMA StoreStep ==
  ASSUME Inv, Inv', [Next]_vars
  PROVE  S!Next \/ UNCHANGED S!vars
<1> DEFINE entry == [u \in URIs |-> Entry(u)]
           view == [u \in URIs |-> View(u)]
<1>e. entry = view /\ entry' = view'
  <2>1. \A u \in URIs : Entry(u)' = View(u)'
    <3>1. (\A u \in URIs : Entry(u) = View(u))'
      BY EntryIsView, PTL
    <3> QED
      BY <3>1
  <2> QED
    BY <2>1, EntryIsView
<1>n. \A n \in DOMAIN nodes : nodes[n].val \in DOMAIN vals
  BY DEF Inv, Linked
<1>t. Typed /\ Linked /\ Held
  BY DEF Inv
<1> HIDE DEF entry, view
<1>1. ASSUME UNCHANGED <<nodes, vals>> PROVE UNCHANGED S!vars
  <2>1. view' = view
    BY <1>1 DEF view, View
  <2> QED
    BY <1>1, <1>e, <2>1 DEF S!vars, entry
<1>2. ASSUME NEW t \in Threads, NEW u \in URIs, NEW p \in Policies,
             vals' = Append(vals, Response(u, p)), UNCHANGED nodes
      PROVE  S!Fetch
  <2>1. /\ DOMAIN vals = 1 .. Len(vals) /\ DOMAIN vals' = 1 .. Len(vals) + 1
        /\ vals'[Len(vals) + 1] = Response(u, p) /\ Response(u, p).uri = u
        /\ Len(vals) \in Nat /\ \A i \in DOMAIN vals : vals'[i] = vals[i]
    BY <1>2, <1>t, NewObjects, AppendFacts DEF Typed, MemoryTyped
  <2>2. Range(vals)' = Range(vals) \cup {Response(u, p)}
    BY <2>1 DEF Range
  <2>3. \A r \in Range(vals) : r.uri \in URIs
    <3>1. \A i \in DOMAIN vals : vals[i] \in ResponseType
      BY <1>t, Domains DEF Typed, MemoryTyped
    <3> QED
      BY <3>1 DEF Range, ResponseType
  <2>4. view' = view
    BY <1>2, <1>n, <2>1 DEF view, View
  <2> QED
    BY <1>e, <2>1, <2>2, <2>3, <2>4 DEF S!Fetch, entry
<1>3. ASSUME NEW u \in URIs, NEW i \in DOMAIN vals, vals[i].uri = u, UNCHANGED vals,
             \A v \in URIs : View(v)' = IF v = u THEN {vals[i]} ELSE View(v)
      PROVE  S!Keep(u)
  <2>1. view' = [view EXCEPT ![u] = {vals[i]}]
    BY <1>3 DEF view
  <2>2. vals[i] \in Range(vals)
    BY DEF Range
  <2> QED
    BY <1>3, <1>e, <2>1, <2>2 DEF S!Keep, entry
<1>4. ASSUME NEW t \in Threads, Insert(t) PROVE S!Next
  <2> DEFINE u == req[t].uri
             k == Len(nodes) + 1
  <2>1. /\ u \in URIs /\ k \notin DOMAIN nodes /\ DOMAIN nodes' = DOMAIN nodes \cup {k}
        /\ \A m \in DOMAIN nodes : nodes'[m] = nodes[m]
        /\ nodes'[k].val = req[t].val /\ nodes'[k].key = u
    <3>1. /\ u \in URIs /\ k \in Nat /\ DOMAIN nodes = 1 .. Len(nodes) /\ DOMAIN nodes' = 1 .. k
          /\ \A m \in DOMAIN nodes : nodes'[m] = nodes[m]
          /\ nodes'[k] = makeNode(t)
      BY <1>4, <1>t, Inserted
    <3>2. Len(nodes) \in Nat
      BY <1>t, Domains
    <3> QED
      BY <3>1, <3>2 DEF makeNode
  <2>2. \A n \in DOMAIN nodes : nodes[n].key # u
    BY <1>4 DEF Insert, Inv, Locked
  <2>3. req[t].val \in DOMAIN vals /\ vals[req[t].val].uri = u
    BY <1>4, <1>t DEF Insert, Held, HeldBy, ValPcs
  <2>4. UNCHANGED vals
    BY <1>4 DEF Insert, memory
  <2> HIDE DEF u, k
  <2>5. ASSUME NEW v \in URIs PROVE View(v)' = IF v = u THEN {vals[req[t].val]} ELSE View(v)
    <3>1. CASE v = u
      <4>1. {m \in DOMAIN nodes' : nodes'[m].key = u} = {k}
        BY <2>1, <2>2
      <4> QED
        BY <2>1, <2>4, <3>1, <4>1 DEF View
    <3>2. CASE v # u
      <4>1. {m \in DOMAIN nodes' : nodes'[m].key = v} = {m \in DOMAIN nodes : nodes[m].key = v}
        BY <2>1, <3>2
      <4> QED
        BY <2>1, <2>4, <3>2, <4>1 DEF View
    <3> QED
      BY <3>1, <3>2
  <2> QED
    BY <1>3, <2>1, <2>3, <2>4, <2>5 DEF S!Next
<1>5. ASSUME NEW t \in Threads, UpdateVal(t) PROVE S!Next
  <2> DEFINE u == req[t].uri
  <2>1. /\ u \in URIs /\ req[t].node \in DOMAIN nodes /\ Node(t).key = u
        /\ Node(t) = nodes[req[t].node] /\ Node(t) \in NodeType
    BY <1>5, <1>t, AtNode DEF UpdateVal, NodePcs
  <2>2. /\ nodes' = [nodes EXCEPT ![req[t].node] = [Node(t) EXCEPT !.val = req[t].val]]
        /\ UNCHANGED vals
    BY <1>5 DEF UpdateVal, Node, memory
  <2>3. req[t].val \in DOMAIN vals /\ vals[req[t].val].uri = u
    BY <1>5, <1>t DEF UpdateVal, Held, HeldBy, ValPcs
  <2>4. /\ DOMAIN nodes' = DOMAIN nodes /\ \A n \in DOMAIN nodes : nodes'[n].key = nodes[n].key
        /\ \A n \in DOMAIN nodes : n # req[t].node => nodes'[n] = nodes[n]
        /\ nodes'[req[t].node].val = req[t].val
    BY <2>1, <2>2 DEF NodeType
  <2> HIDE DEF u
  <2>5. ASSUME NEW v \in URIs PROVE View(v)' = IF v = u THEN {vals[req[t].val]} ELSE View(v)
    <3>0. {m \in DOMAIN nodes' : nodes'[m].key = v} = {m \in DOMAIN nodes : nodes[m].key = v}
      BY <2>4
    <3>1. CASE v = u
      <4>1. {m \in DOMAIN nodes : nodes[m].key = u} = {req[t].node}
        BY <2>1 DEF Inv, OneNodePerKey
      <4> QED
        BY <2>2, <2>4, <3>0, <3>1, <4>1 DEF View
    <3>2. CASE v # u
      <4> DEFINE M == {m \in DOMAIN nodes : nodes[m].key = v}
      <4>1. \A n \in M : nodes'[n] = nodes[n]
        BY <2>1, <2>4, <3>2
      <4>2. View(v)' = {vals[nodes'[n].val] : n \in M} /\ View(v) = {vals[nodes[n].val] : n \in M}
        BY <2>2, <3>0 DEF View
      <4> HIDE DEF M
      <4> QED
        BY <3>2, <4>1, <4>2
    <3> QED
      BY <3>1, <3>2
  <2> QED
    BY <1>3, <2>1, <2>2, <2>3, <2>5 DEF S!Next
<1>6. ASSUME NEW t \in Threads, UpdateInfo(t) PROVE UNCHANGED S!vars
  <2>1. /\ nodes' = nodes \/ nodes' = [nodes EXCEPT ![req[t].node].info = req[t].info]
        /\ UNCHANGED vals
    BY <1>6 DEF UpdateInfo, memory
  <2>2. \A n \in DOMAIN nodes : nodes[n] \in NodeType
    BY <1>t, Domains DEF Typed, MemoryTyped
  <2>3. /\ DOMAIN nodes' = DOMAIN nodes
        /\ \A n \in DOMAIN nodes : nodes'[n].key = nodes[n].key /\ nodes'[n].val = nodes[n].val
    BY <2>1, <2>2 DEF NodeType
  <2>4. view' = view
    BY <2>1, <2>3 DEF view, View
  <2> QED
    BY <1>e, <2>1, <2>4 DEF S!vars, entry
<1>7. ASSUME NEW t \in Threads, Serve(t) PROVE S!Next \/ UNCHANGED S!vars
  <2>1. CASE Looks(t)
    BY <1>1, <2>1, LooksOnly DEF lists, memory
  <2>2. ASSUME NEW p \in Policies, Modified(t, p) \/ Fetch(t, p) PROVE S!Next
    <3>1. req[t].uri \in URIs
      BY <2>2, <1>t DEF Modified, Fetch, Held, HeldBy
    <3>2. vals' = Append(vals, Response(req[t].uri, p)) /\ UNCHANGED nodes
      BY <2>2 DEF Modified, Fetch, lists
    <3> QED
      BY <1>2, <3>1, <3>2 DEF S!Next
  <2>3. CASE ReplaceTag(t)
    BY <1>1, <2>3 DEF ReplaceTag, lists
  <2> QED
    BY <1>4, <1>5, <1>6, <1>7, <2>1, <2>2, <2>3, LooksOrWrites DEF Writes
<1>8. ASSUME (\E u \in URIs : Publish(u)) \/ Tick \/ UNCHANGED vars PROVE UNCHANGED S!vars
  BY <1>1, <1>8 DEF Publish, Tick, vars, lists, memory
<1> QED
  BY <1>7, <1>8 DEF Next

\* Whatever the threads do at once, the lists are a map whose entries are only ever
\* replaced, by a response that was fetched for the URI.
THEOREM Refinement == Spec => ImplementsStore
<1>1. Init => S!Init
  <2> SUFFICES ASSUME Init PROVE S!Init
    OBVIOUS
  <2>1. Inv
    BY InvInit
  <2>2. DOMAIN nodes = {} /\ DOMAIN vals = {}
    BY DEF Init
  <2>3. \A u \in URIs : Entry(u) = {}
    BY <2>1, <2>2, EntryIsView DEF View
  <2>4. Range(vals) = {}
    BY <2>2 DEF Range
  <2> QED
    BY <2>3, <2>4 DEF S!Init
<1>2. Inv /\ Inv' /\ [Next]_vars => [S!Next]_(S!vars)
  BY StoreStep
<1> QED
  BY <1>1, <1>2, Invariant, PTL DEF Spec, ImplementsStore, S!Spec
=============================================================================
