-------------------------- MODULE CacheSafetyProofs --------------------------
(***************************************************************************)
(* Theorems about what the cache does for URIs whose requests were never   *)
(* served at the same time, whatever is done for the others: no freed      *)
(* memory is used, hits are fresh, a 304 confirms what is at hand, and     *)
(* what is kept never gets older.                                          *)
(*                                                                         *)
(* The argument goes by URI.  A step of a thread leaves alone all that     *)
(* belongs to another URI (Untouched); and for the URI of the step, when   *)
(* it is not shared, the thread is the only one there (Apart), so the node *)
(* can be said to be as good as the point the thread is at leaves it       *)
(* (NodeFit), and the thread to hold what it has found there (Safe).       *)
(*                                                                         *)
(* The last two theorems are about all URIs: who may hold cacheLock, and   *)
(* which step alone puts a response into the cache that may not be stored. *)
(***************************************************************************)
EXTENDS CacheProofs

\* What was freed had been allocated.
Allocated ==
  \A f \in freed : \/ f[1] = "val" /\ f[2] \in DOMAIN vals
                   \/ f[1] = "info" /\ f[2] \in DOMAIN infos
                   \/ f[1] = "tag" /\ f[2] \in DOMAIN tags

\* Nothing is newer than the origin.
Past ==
  /\ \A i \in DOMAIN vals : vals[i].version <= origin[vals[i].uri]
  /\ \A i \in DOMAIN tags : tags[i].version <= origin[tags[i].uri]

\* Two threads that serve one URI have made it shared.
Apart ==
  \A s, t \in Threads :
    s # t /\ pc[s] # "idle" /\ pc[t] # "idle" /\ req[s].uri = req[t].uri => ~Alone(t)

\* The ETag of info i names no version newer than response v.
TagFits(i, v) == infos[i].tag # NULL => tags[infos[i].tag].version <= vals[v].version
\* What info i says without asking holds for response v.
Fits(i, v) ==
  ~infos[i].reval => vals[v].store /\ ~vals[v].reval /\ vals[v].until = infos[i].until
InfoLive(i) == Live("info", i) /\ Live("tag", infos[i].tag)

\* The new ETag is in place and the new data is not; the other way round.
Renewing(t) == pc[t] \in {"args", "put", "update"} /\ req[t].refill
Swapping(t) == pc[t] = "swap"

NodeFit(n, renewing, swapping) ==
  /\ Live("val", nodes[n].val) /\ InfoLive(nodes[n].info)
  /\ ~renewing => TagFits(nodes[n].info, nodes[n].val)
  /\ ~swapping => Fits(nodes[n].info, nodes[n].val)
NodesSafe ==
  \A n \in DOMAIN nodes : nodes[n].key \notin shared =>
    NodeFit(n, \E t \in Threads : req[t].uri = nodes[n].key /\ Renewing(t),
               \E t \in Threads : req[t].uri = nodes[n].key /\ Swapping(t))

\* What a thread has found out about the node it holds.
Looking(t) ==
  LET i == Node(t).info
      v == req[t].data
  IN  /\ pc[t] \in {"reval", "hit"} => req[t].asked < infos[i].until
      /\ pc[t] = "hit" => ~infos[i].reval
      /\ pc[t] \in {"copy", "tag", "ask"} => infos[i].reval
      /\ pc[t] \in DataPcs => v = Node(t).val
      /\ pc[t] = "send" => vals[v].store /\ ~vals[v].reval /\ req[t].asked < vals[v].until
      /\ pc[t] = "ask" => req[t].tag = infos[i].tag /\ req[t].tag # NULL
      /\ pc[t] = "resend" => vals[v].version = req[t].confirmed

\* What a thread has for the cache: for a refill the node's own info, else a new one.
Filling(t) ==
  LET u == req[t].uri
      v == req[t].val
  IN  /\ req[t].refill => pc[t] \in {"replace", "args", "put", "update", "swap"}
      /\ pc[t] \in {"replace", "args"} => req[t].refill
      /\ pc[t] \in ValPcs \ {"swap"} =>
           /\ Live("val", v)
           /\ \A n \in DOMAIN nodes : nodes[n].key = u =>
                nodes[n].val # v /\ vals[nodes[n].val].version <= vals[v].version
      /\ pc[t] = "swap" => Node(t).val = v
      /\ pc[t] = "replace" /\ req[t].newTag # NULL =>
           /\ Live("tag", req[t].newTag) /\ req[t].newTag # infos[Node(t).info].tag
           /\ tags[req[t].newTag].version <= vals[v].version
      /\ req[t].refill =>
           \E n \in DOMAIN nodes :
             /\ nodes[n].key = u /\ infos[nodes[n].info].reval
             /\ pc[t] # "replace" => TagFits(nodes[n].info, v)
             /\ pc[t] \in InfoPcs => req[t].info = nodes[n].info
      /\ pc[t] \in InfoPcs /\ ~req[t].refill =>
           /\ InfoLive(req[t].info) /\ TagFits(req[t].info, v) /\ Fits(req[t].info, v)
           /\ \A n \in DOMAIN nodes : nodes[n].key = u => nodes[n].info # req[t].info

Safe(t) == pc[t] # "undefined" /\ Looking(t) /\ Filling(t)
ThreadsSafe == \A t \in Threads : pc[t] # "idle" /\ Alone(t) => Safe(t)

SafeInv == Allocated /\ Past /\ Apart /\ NodesSafe /\ ThreadsSafe

-----------------------------------------------------------------------------
(* What belongs to other URIs *)

\* All that belongs to URI u stays as it is.
Untouched(u) ==
  /\ \A n \in DOMAIN nodes' : nodes'[n].key = u => n \in DOMAIN nodes /\ nodes[n].key = u
  /\ \A n \in DOMAIN nodes : nodes[n].key = u => n \in DOMAIN nodes' /\ nodes'[n] = nodes[n]
  /\ \A i \in DOMAIN infos : infos[i].uri = u =>
       infos'[i] = infos[i] /\ (Live("info", i) => Live("info", i)')
  /\ \A i \in DOMAIN vals : /\ vals'[i] = vals[i]
                            /\ vals[i].uri = u /\ Live("val", i) => Live("val", i)'
  /\ \A i \in DOMAIN tags : /\ tags'[i] = tags[i]
                            /\ tags[i].uri = u /\ Live("tag", i) => Live("tag", i)'
  /\ Live("tag", NULL) => Live("tag", NULL)'

\* A thread touches only what belongs to the URI it serves, and nothing when it
\* takes a request.
LEMMA Frame ==
  ASSUME Typed, Linked, Held, NEW t \in Threads, Serve(t),
         NEW u, u # req[t].uri \/ pc[t] = "idle"
  PROVE  Untouched(u)
<1>1. CASE u # req[t].uri
  <2>1. Grows /\ Keeps(req[t].uri)
    BY Effect
  <2>2. /\ \A n \in DOMAIN nodes' : nodes'[n].key = u => n \in DOMAIN nodes /\ nodes[n].key = u
        /\ \A n \in DOMAIN nodes : nodes[n].key = u => n \in DOMAIN nodes' /\ nodes'[n] = nodes[n]
        /\ \A i \in DOMAIN infos : infos[i].uri = u => infos'[i] = infos[i]
        /\ \A i \in DOMAIN vals : vals'[i] = vals[i]
        /\ \A i \in DOMAIN tags : tags'[i] = tags[i]
    BY <1>1, <2>1 DEF Grows, Keeps
  <2>3. \A f \in freed' \ freed :
          \/ f[1] = "val" /\ f[2] \in DOMAIN vals /\ vals[f[2]].uri # u
          \/ f[1] = "info" /\ f[2] \in DOMAIN infos /\ infos[f[2]].uri # u
          \/ f[1] = "tag" /\ f[2] \in DOMAIN tags /\ tags[f[2]].uri # u
    BY <1>1, <2>1 DEF Keeps
  <2>4. ASSUME NEW i, infos[i].uri = u, Live("info", i) PROVE Live("info", i)'
    <3>1. CASE <<"info", i>> \in freed' \ freed
      BY <2>3, <2>4, <3>1
    <3> QED
      BY <2>4, <3>1 DEF Live
  <2>5. ASSUME NEW i, vals[i].uri = u, Live("val", i) PROVE Live("val", i)'
    <3>1. CASE <<"val", i>> \in freed' \ freed
      BY <2>3, <2>5, <3>1
    <3> QED
      BY <2>5, <3>1 DEF Live
  <2>6. ASSUME NEW i, tags[i].uri = u \/ i = NULL, Live("tag", i) PROVE Live("tag", i)'
    <3>1. CASE <<"tag", i>> \in freed' \ freed
      <4>1. i \in DOMAIN tags /\ tags[i].uri # u
        BY <2>3, <3>1
      <4> QED
        BY <2>6, <4>1, Domains DEF NULL
    <3> QED
      BY <2>6, <3>1 DEF Live
  <2> QED
    BY <2>2, <2>4, <2>5, <2>6 DEF Untouched
<1>2. CASE pc[t] = "idle"
  <2>1. \E v \in URIs : Request(t, v)
    BY <1>2 DEF Serve, Lookup, GetTime, CopyTime, TestExpiry, TestReval, CopyPointer, Send,
       ReadTag, NotModified, ReadsFreedTag, EvalArgs, NotKept, CopyExpiry, PutLock,
       Modified, Fetch, ReplaceTag, Insert, UpdateVal, UpdateInfo
  <2> QED
    BY <2>1 DEF Request, Untouched, lists, memory, Live
<1> QED
  BY <1>1, <1>2

\* The node of a URI that is not touched is as fit as it was.
LEMMA FrameNode ==
  ASSUME Typed, Linked, NEW n \in DOMAIN nodes, NEW r, NEW w, NodeFit(n, r, w),
         Untouched(nodes[n].key)
  PROVE  NodeFit(n, r, w)'
<1>1. PICK u, v, i, g : u = nodes[n].key /\ v = nodes[n].val /\ i = nodes[n].info /\ g = infos[i].tag
  OBVIOUS
<1>2. /\ v \in DOMAIN vals /\ vals[v].uri = u /\ i \in DOMAIN infos /\ infos[i].uri = u
      /\ g # NULL => g \in DOMAIN tags /\ tags[g].uri = u
  BY <1>1 DEF Linked
<1>3. nodes'[n] = nodes[n] /\ infos'[i] = infos[i] /\ vals'[v] = vals[v]
      /\ (g # NULL => tags'[g] = tags[g])
  BY <1>1, <1>2 DEF Untouched
<1>4. /\ Live("val", v) => Live("val", v)'
      /\ Live("info", i) => Live("info", i)'
      /\ Live("tag", g) => Live("tag", g)'
  BY <1>1, <1>2 DEF Untouched
<1>5. /\ Live("val", v) /\ Live("info", i) /\ Live("tag", g)
      /\ ~r => (g # NULL => tags[g].version <= vals[v].version)
      /\ ~w /\ ~infos[i].reval => vals[v].store /\ ~vals[v].reval /\ vals[v].until = infos[i].until
  BY <1>1 DEF NodeFit, InfoLive, TagFits, Fits
<1>6. v = nodes'[n].val /\ i = nodes'[n].info /\ g = infos'[i].tag
  BY <1>1, <1>3
<1> QED
  BY <1>3, <1>4, <1>5, <1>6 DEF NodeFit, InfoLive, TagFits, Fits

\* What a thread has found out about a URI that is not touched stays true.
LEMMA FrameThread ==
  ASSUME Typed, Linked, Held, NEW s \in Threads, Safe(s), pc[s] # "idle",
         pc'[s] = pc[s], req'[s] = req[s], Untouched(req[s].uri)
  PROVE  Safe(s)'
<1>1. PICK u, v : u = req[s].uri /\ v = req[s].val
  OBVIOUS
<1>h. HeldBy(s)
  BY DEF Held
<1>n. ASSUME NEW n \in DOMAIN nodes, nodes[n].key = u
      PROVE  /\ nodes[n].val \in DOMAIN vals /\ nodes[n].info \in DOMAIN infos
             /\ nodes'[n] = nodes[n]
             /\ vals'[nodes[n].val] = vals[nodes[n].val]
             /\ infos'[nodes[n].info] = infos[nodes[n].info]
             /\ (infos[nodes[n].info].tag # NULL =>
                   tags'[infos[nodes[n].info].tag] = tags[infos[nodes[n].info].tag])
  <2>1. /\ nodes[n].val \in DOMAIN vals
        /\ nodes[n].info \in DOMAIN infos /\ infos[nodes[n].info].uri = u
        /\ infos[nodes[n].info].tag # NULL => infos[nodes[n].info].tag \in DOMAIN tags
    BY <1>n DEF Linked
  <2> QED
    BY <1>1, <1>n, <2>1 DEF Untouched
<1>m. \A n \in DOMAIN nodes' : nodes'[n].key = u => n \in DOMAIN nodes /\ nodes[n].key = u
  BY <1>1 DEF Untouched
<1>2. Looking(s)'
  <2>1. CASE pc[s] \in {"reval", "hit", "copy", "tag", "ask", "send", "resend"}
    <3>1. PICK n \in DOMAIN nodes : n = req[s].node /\ nodes[n].key = u
      BY <1>1, <1>h, <2>1 DEF HeldBy, NodePcs
    <3>2. Node(s)' = Node(s) /\ Node(s) = nodes[n]
      BY <1>n, <3>1 DEF Node
    <3>3. infos'[Node(s).info] = infos[Node(s).info]
      BY <1>n, <3>1, <3>2
    <3>4. pc[s] \in DataPcs => vals'[req[s].data] = vals[req[s].data]
      BY <1>h DEF HeldBy, Untouched
    <3> QED
      BY <3>2, <3>3, <3>4 DEF Safe, Looking, DataPcs
  <2> QED
    BY <2>1 DEF Looking, DataPcs
<1>3. Filling(s)'
  <2>1. /\ req[s].refill => pc[s] \in {"replace", "args", "put", "update", "swap"}
        /\ pc[s] \in {"replace", "args"} => req[s].refill
    BY DEF Safe, Filling
  <2>2. ASSUME pc[s] \in ValPcs
        PROVE  v \in DOMAIN vals /\ vals'[v] = vals[v] /\ (Live("val", v) => Live("val", v)')
    BY <1>1, <1>h, <2>2 DEF HeldBy, Untouched
  <2>3. ASSUME pc[s] \in ValPcs \ {"swap"}
        PROVE  /\ Live("val", v)'
               /\ \A n \in DOMAIN nodes' : nodes'[n].key = u =>
                    nodes'[n].val # v /\ vals'[nodes'[n].val].version <= vals'[v].version
    <3>1. /\ Live("val", v)
          /\ \A n \in DOMAIN nodes : nodes[n].key = u =>
               nodes[n].val # v /\ vals[nodes[n].val].version <= vals[v].version
      BY <1>1, <2>3 DEF Safe, Filling
    <3> QED
      BY <1>n, <1>m, <2>2, <2>3, <3>1
  <2>4. ASSUME pc[s] = "swap" PROVE nodes'[req[s].node].val = v
    <3>1. req[s].node \in DOMAIN nodes /\ nodes[req[s].node].key = u
      BY <1>1, <1>h, <2>4 DEF HeldBy, NodePcs
    <3> QED
      BY <1>1, <1>n, <2>4, <3>1 DEF Safe, Filling, Node
  <2>5. ASSUME pc[s] = "replace", req[s].newTag # NULL
        PROVE  /\ Live("tag", req[s].newTag)'
               /\ req[s].newTag # infos'[nodes'[req[s].node].info].tag
               /\ tags'[req[s].newTag].version <= vals'[v].version
    <3>1. /\ req[s].node \in DOMAIN nodes /\ nodes[req[s].node].key = u
          /\ req[s].newTag \in DOMAIN tags /\ tags[req[s].newTag].uri = u
      BY <1>1, <1>h, <2>5 DEF HeldBy, NodePcs
    <3>2. /\ Live("tag", req[s].newTag) /\ req[s].newTag # infos[nodes[req[s].node].info].tag
          /\ tags[req[s].newTag].version <= vals[v].version
      BY <1>1, <2>5 DEF Safe, Filling, Node
    <3>3. Live("tag", req[s].newTag)' /\ tags'[req[s].newTag] = tags[req[s].newTag]
      BY <1>1, <3>1, <3>2 DEF Untouched
    <3> QED
      BY <1>n, <2>2, <2>5, <3>1, <3>2, <3>3 DEF ValPcs
  <2>6. ASSUME req[s].refill
        PROVE  \E n \in DOMAIN nodes' :
                 /\ nodes'[n].key = u /\ infos'[nodes'[n].info].reval
                 /\ pc[s] # "replace" => TagFits(nodes[n].info, v)' /\ nodes'[n] = nodes[n]
                 /\ pc[s] \in InfoPcs => req[s].info = nodes'[n].info
    <3>1. PICK n \in DOMAIN nodes :
                 /\ nodes[n].key = u /\ infos[nodes[n].info].reval
                 /\ pc[s] # "replace" => TagFits(nodes[n].info, v)
                 /\ pc[s] \in InfoPcs => req[s].info = nodes[n].info
      BY <1>1, <2>6 DEF Safe, Filling
    <3>2. n \in DOMAIN nodes' /\ nodes'[n] = nodes[n]
      BY <1>1, <3>1 DEF Untouched
    <3>3. pc[s] \in ValPcs
      BY <2>1, <2>6 DEF ValPcs
    <3> QED
      BY <1>n, <2>2, <3>1, <3>2, <3>3 DEF TagFits
  <2>7. ASSUME pc[s] \in InfoPcs, ~req[s].refill
        PROVE  /\ InfoLive(req[s].info)' /\ TagFits(req[s].info, v)' /\ Fits(req[s].info, v)'
               /\ \A n \in DOMAIN nodes' : nodes'[n].key = u => nodes'[n].info # req[s].info
    <3>1. PICK i, g : i = req[s].info /\ g = infos[i].tag
      OBVIOUS
    <3>2. /\ InfoLive(i) /\ TagFits(i, v) /\ Fits(i, v)
          /\ \A n \in DOMAIN nodes : nodes[n].key = u => nodes[n].info # i
      BY <1>1, <2>7, <3>1 DEF Safe, Filling
    <3>3. i \in DOMAIN infos /\ infos[i].uri = u
      BY <1>1, <1>h, <2>7, <3>1 DEF HeldBy
    <3>4. g # NULL => g \in DOMAIN tags /\ tags[g].uri = u
      BY <3>1, <3>3 DEF Linked
    <3>5. /\ infos'[i] = infos[i] /\ (g # NULL => tags'[g] = tags[g])
          /\ (Live("info", i) => Live("info", i)') /\ (Live("tag", g) => Live("tag", g)')
      BY <1>1, <3>3, <3>4 DEF Untouched
    <3>6. vals'[v] = vals[v]
      BY <2>2, <2>7 DEF InfoPcs, ValPcs
    <3>7. InfoLive(i)' /\ TagFits(i, v)' /\ Fits(i, v)'
      BY <3>1, <3>2, <3>5, <3>6 DEF InfoLive, TagFits, Fits
    <3>8. \A n \in DOMAIN nodes' : nodes'[n].key = u => nodes'[n].info # i
      BY <1>n, <1>m, <3>2
    <3> QED
      BY <3>1, <3>7, <3>8
  <2> QED
    BY <1>1, <2>1, <2>3, <2>4, <2>5, <2>6, <2>7 DEF Filling, Node, InfoLive, TagFits, Fits
<1> QED
  BY <1>2, <1>3 DEF Safe

-----------------------------------------------------------------------------
(* The thread that serves a URI alone *)

\* For the only thread there, the node is as fit as the thread has left it.
LEMMA OwnNode ==
  ASSUME Apart, NodesSafe, NEW t \in Threads, pc[t] # "idle", Alone(t),
         NEW n \in DOMAIN nodes, nodes[n].key = req[t].uri
  PROVE  NodeFit(n, Renewing(t), Swapping(t))
<1>1. NodeFit(n, \E s \in Threads : req[s].uri = nodes[n].key /\ Renewing(s),
                 \E s \in Threads : req[s].uri = nodes[n].key /\ Swapping(s))
  BY DEF NodesSafe, Alone
<1>2. \A s \in Threads : s # t /\ pc[s] # "idle" => req[s].uri # nodes[n].key
  BY DEF Apart
<1>3. /\ (\E s \in Threads : req[s].uri = nodes[n].key /\ Renewing(s)) => Renewing(t)
      /\ (\E s \in Threads : req[s].uri = nodes[n].key /\ Swapping(s)) => Swapping(t)
  BY <1>2 DEF Renewing, Swapping
<1> QED
  BY <1>1, <1>3 DEF NodeFit

\* The objects have the types of their memory.
LEMMA ObjectsTyped ==
  ASSUME Typed
  PROVE  /\ \A n \in DOMAIN nodes : nodes[n] \in NodeType
         /\ \A i \in DOMAIN vals : vals[i] \in ResponseType
         /\ \A i \in DOMAIN infos : infos[i] \in InfoType
         /\ \A i \in DOMAIN tags : tags[i] \in TagType
  BY Domains DEF Typed, MemoryTyped

\* A node that is not written is as fit as before while the thread is not further from
\* having it renewed.
LEMMA SameNode ==
  ASSUME NEW n, NEW t, UNCHANGED <<lists, memory, freed>>,
         NodeFit(n, Renewing(t), Swapping(t)),
         Renewing(t) => Renewing(t)', Swapping(t) => Swapping(t)'
  PROVE  NodeFit(n, Renewing(t), Swapping(t))'
<1>1. /\ Live("val", nodes[n].val) /\ Live("info", nodes[n].info)
      /\ Live("tag", infos[nodes[n].info].tag)
      /\ ~Renewing(t) => TagFits(nodes[n].info, nodes[n].val)
      /\ ~Swapping(t) => Fits(nodes[n].info, nodes[n].val)
  BY DEF NodeFit, InfoLive
<1>2. /\ <<"val", nodes'[n].val>> \notin freed' /\ <<"info", nodes'[n].info>> \notin freed'
      /\ <<"tag", infos'[nodes'[n].info].tag>> \notin freed'
  BY <1>1 DEF Live, lists, memory
<1>3. /\ TagFits(nodes[n].info, nodes[n].val) => TagFits(nodes[n].info, nodes[n].val)'
      /\ Fits(nodes[n].info, nodes[n].val) => Fits(nodes[n].info, nodes[n].val)'
  BY DEF TagFits, Fits, lists, memory
<1> QED
  BY <1>1, <1>2, <1>3 DEF NodeFit, InfoLive, Live

\* A look of the only thread at a URI: what it finds there is safe.
LEMMA OwnLook ==
  ASSUME Inv, SafeInv, NEW t \in Threads, Looks(t), pc[t] # "idle", Alone(t)
  PROVE  /\ pc'[t] # "idle" => Safe(t)'
         /\ \A n \in DOMAIN nodes : nodes[n].key = req[t].uri =>
              NodeFit(n, Renewing(t), Swapping(t))'
<1> USE DEF Goto, GotoIf, Finish
<1>t. /\ Typed /\ Linked /\ Held /\ HeldBy(t)
      /\ pc \in [Threads -> PCs] /\ req \in [Threads -> Locals] /\ req[t] \in Locals
  BY DEF Inv, Held, Typed, ThreadsTyped
<1>u. /\ UNCHANGED <<lists, memory, freed>> /\ UNCHANGED <<nodes, vals, infos, tags>>
      /\ Safe(t) /\ Looking(t) /\ Filling(t)
  BY LooksOnly DEF lists, memory, SafeInv, ThreadsSafe, Safe
<1>n. ASSUME NEW n \in DOMAIN nodes, nodes[n].key = req[t].uri
      PROVE  NodeFit(n, Renewing(t), Swapping(t))
  BY <1>n, OwnNode DEF SafeInv
<1>a. ASSUME pc[t] \in NodePcs
      PROVE  /\ Live("val", Node(t).val) /\ InfoLive(Node(t).info)
             /\ ~Renewing(t) => TagFits(Node(t).info, Node(t).val)
             /\ ~Swapping(t) => Fits(Node(t).info, Node(t).val)
             /\ Node(t).val \in DOMAIN vals /\ vals[Node(t).val].uri = req[t].uri
             /\ Node(t).info \in DOMAIN infos
             /\ infos[Node(t).info].tag # NULL =>
                  /\ infos[Node(t).info].tag \in DOMAIN tags
                  /\ tags[infos[Node(t).info].tag].uri = req[t].uri
  <2>1. NodeFit(req[t].node, Renewing(t), Swapping(t))
    BY <1>a, <1>t, <1>n, AtNode
  <2> QED
    BY <1>a, <1>t, <2>1, AtNode DEF NodeFit, Node
\* Looking for an entry: nothing is kept from before.
<1>f. ASSUME ~req'[t].refill, pc'[t] \notin ValPcs, ~Renewing(t), ~Swapping(t)
      PROVE  /\ Filling(t)'
             /\ \A n \in DOMAIN nodes : nodes[n].key = req[t].uri =>
                  NodeFit(n, Renewing(t), Swapping(t))'
  <2>1. Filling(t)'
    BY <1>f DEF Filling, ValPcs, InfoPcs
  <2> QED
    BY <1>f, <1>n, <1>u, <2>1, SameNode
<1>r. pc[t] \notin {"replace", "args", "put", "update", "swap"} =>
        ~req[t].refill /\ ~Renewing(t) /\ ~Swapping(t)
  BY <1>u DEF Filling, Renewing, Swapping
<1>1. CASE Lookup(t)
  <2>1. /\ pc'[t] \in {"forward", "clock", "outside"} /\ req'[t].refill = req[t].refill
    BY <1>1, <1>t DEF Lookup, Locals
  <2>2. Looking(t)'
    BY <2>1 DEF Looking, DataPcs
  <2>8. ~req'[t].refill /\ pc'[t] \notin ValPcs /\ ~Renewing(t) /\ ~Swapping(t)
    BY <1>1, <1>r, <2>1 DEF Lookup, ValPcs
  <2> QED
    BY <1>f, <2>1, <2>2, <2>8 DEF Safe
<1>2. CASE GetTime(t)
  <2>1. /\ pc'[t] \in {"time"} /\ req'[t] = [req[t] EXCEPT !.asked = now]
    BY <1>2, <1>t DEF GetTime, Locals
  <2>2. Looking(t)'
    BY <2>1 DEF Looking, DataPcs
  <2>8. ~req'[t].refill /\ pc'[t] \notin ValPcs /\ ~Renewing(t) /\ ~Swapping(t)
    BY <1>2, <1>t, <1>r, <2>1 DEF GetTime, ValPcs, Locals
  <2> QED
    BY <1>f, <2>1, <2>2, <2>8 DEF Safe
<1>3. CASE CopyTime(t)
  <2>1. /\ pc'[t] \in {"expiry", "mistimed"} /\ req'[t] = req[t]
    BY <1>3, <1>t DEF CopyTime, Locals
  <2>2. Looking(t)'
    BY <2>1 DEF Looking, DataPcs
  <2>8. ~req'[t].refill /\ pc'[t] \notin ValPcs /\ ~Renewing(t) /\ ~Swapping(t)
    BY <1>3, <1>t, <1>r, <2>1 DEF CopyTime, ValPcs, Locals
  <2> QED
    BY <1>f, <2>1, <2>2, <2>8 DEF Safe
<1>4. CASE TestExpiry(t)
  <2>0. Live("info", Node(t).info)
    BY <1>4, <1>a DEF TestExpiry, NodePcs, InfoLive
  <2>1. /\ pc'[t] \in {"forward", "reval"} /\ req'[t] = req[t]
    BY <1>4, <1>t, <2>0 DEF TestExpiry
  <2>2. Looking(t)'
    <3>1. req[t].asked \in Nat /\ infos[Node(t).info].until \in Nat
      BY <1>4, <1>t, AtNode, LocalsTyped DEF TestExpiry, NodePcs, InfoType
    <3>2. pc'[t] = "reval" => req[t].asked < infos[Node(t).info].until
      BY <1>4, <1>t, <2>1, <3>1 DEF TestExpiry, Expired
    <3> QED
      BY <1>u, <2>1, <3>2 DEF Looking, DataPcs, Node
  <2>8. ~req'[t].refill /\ pc'[t] \notin ValPcs /\ ~Renewing(t) /\ ~Swapping(t)
    BY <1>4, <1>t, <1>r, <2>1 DEF TestExpiry, ValPcs, Locals
  <2> QED
    BY <1>f, <2>1, <2>2, <2>8 DEF Safe
<1>5. CASE TestReval(t)
  <2>0. Live("info", Node(t).info)
    BY <1>5, <1>a DEF TestReval, NodePcs, InfoLive
  <2>1. /\ pc'[t] \in {"copy", "hit"} /\ req'[t] = req[t]
    BY <1>5, <1>t, <2>0 DEF TestReval
  <2>2. Looking(t)'
    <3>1. /\ req[t].asked < infos[Node(t).info].until
          /\ pc'[t] = "copy" => infos[Node(t).info].reval
          /\ pc'[t] = "hit" => ~infos[Node(t).info].reval
      BY <1>5, <1>t, <1>u DEF TestReval, Looking
    <3> QED
      BY <1>u, <2>1, <3>1 DEF Looking, DataPcs, Node
  <2>8. ~req'[t].refill /\ pc'[t] \notin ValPcs /\ ~Renewing(t) /\ ~Swapping(t)
    BY <1>5, <1>t, <1>r, <2>1 DEF TestReval, ValPcs, Locals
  <2> QED
    BY <1>f, <2>1, <2>2, <2>8 DEF Safe
<1>6. CASE CopyPointer(t)
  <2>1. /\ pc'[t] \in {"send", "tag"} /\ req'[t] = [req[t] EXCEPT !.data = Node(t).val]
    BY <1>6, <1>t DEF CopyPointer, Locals
  <2>2. Looking(t)'
    <3>1. /\ pc'[t] = "send" => req[t].asked < infos[Node(t).info].until /\ ~infos[Node(t).info].reval
          /\ pc'[t] = "tag" => infos[Node(t).info].reval
      BY <1>6, <1>t, <1>u DEF CopyPointer, Looking
    <3>2. Fits(Node(t).info, Node(t).val)
      BY <1>6, <1>a DEF CopyPointer, NodePcs, Swapping
    <3>3. Node(t)' = Node(t) /\ req'[t].data = Node(t).val /\ req'[t].asked = req[t].asked
      BY <1>t, <1>u, <2>1 DEF Node, Locals
    <3> QED
      BY <1>u, <2>1, <3>1, <3>2, <3>3 DEF Looking, Fits, DataPcs
  <2>8. ~req'[t].refill /\ pc'[t] \notin ValPcs /\ ~Renewing(t) /\ ~Swapping(t)
    BY <1>6, <1>t, <1>r, <2>1 DEF CopyPointer, ValPcs, Locals
  <2> QED
    BY <1>f, <2>1, <2>2, <2>8 DEF Safe
<1>7. CASE Send(t)
  <2>1. Live("val", req[t].data)
    <3>1. req[t].data = Node(t).val
      BY <1>7, <1>u DEF Send, Looking, DataPcs
    <3> QED
      BY <1>7, <1>a, <3>1 DEF Send, NodePcs
  <2>2. pc'[t] = "idle" /\ req'[t] = Blank(NULL)
    BY <1>7, <1>t, <2>1 DEF Send
  <2>8. ~req'[t].refill /\ pc'[t] \notin ValPcs /\ ~Renewing(t) /\ ~Swapping(t)
    BY <1>7, <1>r, <2>2 DEF Send, ValPcs, Blank
  <2> QED
    BY <1>f, <2>2, <2>8
<1>8. CASE ReadTag(t)
  <2>0. Live("info", Node(t).info)
    BY <1>8, <1>a DEF ReadTag, NodePcs, InfoLive
  <2>1. /\ pc'[t] \in {"forward", "ask"} /\ req'[t] = [req[t] EXCEPT !.tag = infos[Node(t).info].tag]
    BY <1>8, <1>t, <2>0 DEF ReadTag, Locals
  <2>2. Looking(t)'
    <3>1. /\ infos[Node(t).info].reval /\ req[t].data = Node(t).val
          /\ pc'[t] = "ask" => infos[Node(t).info].tag # NULL
      BY <1>8, <1>t, <1>u DEF ReadTag, Looking, DataPcs
    <3>2. Node(t)' = Node(t) /\ req'[t].data = req[t].data /\ req'[t].tag = infos[Node(t).info].tag
      BY <1>t, <1>u, <2>1 DEF Node, Locals
    <3> QED
      BY <1>u, <2>1, <3>1, <3>2 DEF Looking, DataPcs
  <2>8. ~req'[t].refill /\ pc'[t] \notin ValPcs /\ ~Renewing(t) /\ ~Swapping(t)
    BY <1>8, <1>t, <1>r, <2>1 DEF ReadTag, ValPcs, Locals
  <2> QED
    BY <1>f, <2>1, <2>2, <2>8 DEF Safe
<1>9. CASE NotModified(t)
  <2>1. /\ pc'[t] \in {"resend"} /\ req'[t] = [req[t] EXCEPT !.confirmed = origin[req[t].uri]]
    BY <1>9, <1>t DEF NotModified, Locals
  <2>2. Looking(t)'
    <3>1. /\ req[t].data = Node(t).val /\ req[t].tag = infos[Node(t).info].tag /\ req[t].tag # NULL
          /\ tags[req[t].tag].version = origin[req[t].uri]
      BY <1>9, <1>u DEF NotModified, Looking, DataPcs
    <3>2. tags[req[t].tag].version <= vals[Node(t).val].version
      BY <1>9, <1>a, <3>1 DEF NotModified, NodePcs, Renewing, TagFits
    <3>3. vals[Node(t).val].version <= origin[req[t].uri]
      BY <1>9, <1>a DEF NotModified, NodePcs, SafeInv, Past
    <3>4. vals[Node(t).val].version \in Nat /\ origin[req[t].uri] \in Nat
      BY <1>9, <1>a, <1>t, ObjectsTyped DEF NotModified, NodePcs, ResponseType, HeldBy, Typed, WorldTyped
    <3>5. Node(t)' = Node(t) /\ req'[t].data = req[t].data /\ req'[t].confirmed = origin[req[t].uri]
      BY <1>t, <1>u, <2>1 DEF Node, Locals
    <3> QED
      BY <1>u, <2>1, <3>1, <3>2, <3>3, <3>4, <3>5 DEF Looking, DataPcs
  <2>8. ~req'[t].refill /\ pc'[t] \notin ValPcs /\ ~Renewing(t) /\ ~Swapping(t)
    BY <1>9, <1>t, <1>r, <2>1 DEF NotModified, ValPcs, Locals
  <2> QED
    BY <1>f, <2>1, <2>2, <2>8 DEF Safe
<1>10. CASE ReadsFreedTag(t)
  <2>1. req[t].tag = infos[Node(t).info].tag
    BY <1>10, <1>u DEF ReadsFreedTag, Looking
  <2> QED
    BY <1>10, <1>a, <2>1 DEF ReadsFreedTag, NodePcs, InfoLive
<1>11. CASE NotKept(t)
  <2>2. pc'[t] = "idle" /\ req'[t] = Blank(NULL)
    BY <1>11, <1>t DEF NotKept
  <2>8. ~req'[t].refill /\ pc'[t] \notin ValPcs /\ ~Renewing(t) /\ ~Swapping(t)
    BY <1>11, <1>r, <2>2 DEF NotKept, ValPcs, Blank
  <2> QED
    BY <1>f, <2>2, <2>8
<1>12. CASE EvalArgs(t)
  <2>1. pc'[t] = "put" /\ req'[t] = [req[t] EXCEPT !.info = Node(t).info]
    BY <1>12, <1>t DEF EvalArgs, Locals
  <2>2. Looking(t)'
    BY <2>1 DEF Looking, DataPcs
  <2>3. /\ req'[t].uri = req[t].uri /\ req'[t].val = req[t].val /\ req'[t].refill = req[t].refill
        /\ req'[t].info = Node(t).info /\ req[t].refill
    BY <1>12, <1>t, <1>u, <2>1 DEF EvalArgs, Locals, Filling
  <2>4. /\ Live("val", req[t].val)
        /\ \A n \in DOMAIN nodes : nodes[n].key = req[t].uri =>
             nodes[n].val # req[t].val /\ vals[nodes[n].val].version <= vals[req[t].val].version
        /\ \E n \in DOMAIN nodes :
             /\ nodes[n].key = req[t].uri /\ infos[nodes[n].info].reval
             /\ TagFits(nodes[n].info, req[t].val)
    BY <1>12, <1>u, <2>3 DEF EvalArgs, Filling, ValPcs
  <2>5. \A n \in DOMAIN nodes : nodes[n].key = req[t].uri => nodes[n].info = Node(t).info
    BY <1>12, <1>t, AtNode DEF EvalArgs, NodePcs, Inv, OneNodePerKey
  <2>6. Filling(t)'
    BY <1>u, <2>1, <2>3, <2>4, <2>5 DEF Filling, Live, TagFits
  <2>7. Renewing(t) /\ Renewing(t)' /\ ~Swapping(t)
    BY <1>12, <2>1, <2>3 DEF EvalArgs, Renewing, Swapping
  <2> QED
    BY <1>n, <1>u, <2>1, <2>2, <2>6, <2>7, SameNode DEF Safe
<1>13. CASE CopyExpiry(t)
  <2>1. pc'[t] \in {"put", "mistimed"} /\ req'[t] = req[t] /\ ~req[t].refill
    BY <1>13, <1>t, <1>r DEF CopyExpiry
  <2>2. Looking(t)'
    BY <2>1 DEF Looking, DataPcs
  <2>3. /\ Live("val", req[t].val)
        /\ \A n \in DOMAIN nodes : nodes[n].key = req[t].uri =>
             nodes[n].val # req[t].val /\ vals[nodes[n].val].version <= vals[req[t].val].version
        /\ InfoLive(req[t].info) /\ TagFits(req[t].info, req[t].val) /\ Fits(req[t].info, req[t].val)
        /\ \A n \in DOMAIN nodes : nodes[n].key = req[t].uri => nodes[n].info # req[t].info
    BY <1>13, <1>u, <2>1 DEF CopyExpiry, Filling, ValPcs, InfoPcs
  <2>4. Filling(t)'
    BY <1>u, <2>1, <2>3 DEF Filling, Live, InfoLive, TagFits, Fits, ValPcs, InfoPcs
  <2>5. ~Renewing(t) /\ ~Swapping(t)
    BY <1>13, <1>r DEF CopyExpiry
  <2> QED
    BY <1>n, <1>u, <2>1, <2>2, <2>4, <2>5, SameNode DEF Safe
<1>14. CASE PutLock(t)
  <2>1. /\ pc'[t] = IF Target(t) = NULL THEN "insert" ELSE "update"
        /\ req'[t] = [req[t] EXCEPT !.node = Target(t)]
    BY <1>14, <1>t DEF PutLock, Locals
  <2>2. Looking(t)'
    BY <2>1 DEF Looking, DataPcs
  <2>3. /\ req'[t].uri = req[t].uri /\ req'[t].val = req[t].val /\ req'[t].refill = req[t].refill
        /\ req'[t].info = req[t].info
    BY <1>t, <2>1 DEF Locals
  <2>4. /\ Live("val", req[t].val)
        /\ \A n \in DOMAIN nodes : nodes[n].key = req[t].uri =>
             nodes[n].val # req[t].val /\ vals[nodes[n].val].version <= vals[req[t].val].version
    BY <1>14, <1>u DEF PutLock, Filling, ValPcs
  <2>5. ASSUME req[t].refill
        PROVE  /\ pc'[t] = "update"
               /\ \E n \in DOMAIN nodes :
                    /\ nodes[n].key = req[t].uri /\ infos[nodes[n].info].reval
                    /\ TagFits(nodes[n].info, req[t].val) /\ req[t].info = nodes[n].info
    <3>1. \E n \in DOMAIN nodes :
            /\ nodes[n].key = req[t].uri /\ infos[nodes[n].info].reval
            /\ TagFits(nodes[n].info, req[t].val) /\ req[t].info = nodes[n].info
      BY <1>14, <1>u, <2>5 DEF PutLock, Filling, InfoPcs
    <3>2. req[t].uri \in URIs /\ InMAP(req[t].uri)
      BY <1>14, <1>t DEF PutLock, HeldBy
    <3>3. Target(t) \in DOMAIN nodes
      BY <1>t, <3>1, <3>2, GetNodeFinds DEF Target, Inv
    <3>4. Target(t) # NULL
      BY <1>t, <3>3, Domains DEF NULL
    <3> QED
      BY <2>1, <3>1, <3>4
  <2>6. ASSUME ~req[t].refill
        PROVE  /\ InfoLive(req[t].info) /\ TagFits(req[t].info, req[t].val)
               /\ Fits(req[t].info, req[t].val)
               /\ \A n \in DOMAIN nodes : nodes[n].key = req[t].uri => nodes[n].info # req[t].info
    BY <1>14, <1>u, <2>6 DEF PutLock, Filling, InfoPcs
  <2>7. Filling(t)'
    <3>1. CASE req[t].refill
      BY <1>u, <2>1, <2>3, <2>4, <2>5, <3>1 DEF Filling, Live, TagFits, ValPcs, InfoPcs
    <3>2. CASE ~req[t].refill
      BY <1>u, <2>1, <2>3, <2>4, <2>6, <3>2
      DEF Filling, Live, InfoLive, TagFits, Fits, ValPcs, InfoPcs
    <3> QED
      BY <3>1, <3>2
  <2>8. (Renewing(t) => Renewing(t)') /\ ~Swapping(t)
    BY <1>14, <2>3, <2>5 DEF PutLock, Renewing, Swapping
  <2> QED
    BY <1>n, <1>u, <2>1, <2>2, <2>7, <2>8, SameNode DEF Safe
<1> QED
  BY <1>1, <1>2, <1>3, <1>4, <1>5, <1>6, <1>7, <1>8, <1>9, <1>10, <1>11, <1>12, <1>13,
     <1>14
  DEF Looks, Request

\* The facts of OwnLook about the thread that writes.
LEMMA OwnFacts ==
  ASSUME Inv, SafeInv, NEW t \in Threads, pc[t] # "idle", Alone(t)
  PROVE  /\ Typed /\ Linked /\ Held /\ HeldBy(t)
         /\ pc \in [Threads -> PCs] /\ req \in [Threads -> Locals] /\ req[t] \in Locals
         /\ Safe(t) /\ Looking(t) /\ Filling(t)
         /\ \A n \in DOMAIN nodes : nodes[n].key = req[t].uri =>
              NodeFit(n, Renewing(t), Swapping(t))
         /\ pc[t] \notin {"replace", "args", "put", "update", "swap"} => ~req[t].refill
  BY OwnNode DEF Inv, Held, Typed, ThreadsTyped, SafeInv, ThreadsSafe, Safe, Filling

\* An address that malloc has not returned yet was not freed.
LEMMA NewIsLive ==
  ASSUME Typed, Allocated
  PROVE  /\ Live("val", Len(vals) + 1) /\ Live("info", Len(infos) + 1)
         /\ Live("tag", Len(tags) + 1) /\ Live("tag", NULL)
<1>1. /\ Len(vals) + 1 \notin DOMAIN vals /\ Len(infos) + 1 \notin DOMAIN infos
      /\ Len(tags) + 1 \notin DOMAIN tags /\ NULL \notin DOMAIN tags
  BY Domains DEF NULL
<1> QED
  BY <1>1 DEF Allocated, Live

\* The answer to a conditional request: the old entry is still as it was.
LEMMA OwnModified ==
  ASSUME Inv, SafeInv, NEW t \in Threads, NEW p \in Policies, Modified(t, p), Alone(t)
  PROVE  /\ Safe(t)'
         /\ \A n \in DOMAIN nodes : nodes[n].key = req[t].uri =>
              NodeFit(n, Renewing(t), Swapping(t))'
<1> DEFINE u == req[t].uri
<1>p. PICK v, g : v = Len(vals') /\ g = (IF p.tag THEN Len(tags') ELSE NULL)
  OBVIOUS
<1>0. pc[t] = "ask"
  BY DEF Modified
<1>t. /\ Typed /\ Linked /\ Held /\ HeldBy(t) /\ pc \in [Threads -> PCs]
      /\ req \in [Threads -> Locals] /\ req[t] \in Locals
      /\ Looking(t) /\ ~req[t].refill
      /\ \A n \in DOMAIN nodes : nodes[n].key = u => NodeFit(n, Renewing(t), Swapping(t))
  BY <1>0, OwnFacts
<1>1. /\ u \in URIs /\ vals' = Append(vals, Response(u, p))
      /\ tags' = IF p.tag THEN Append(tags, Tag(u)) ELSE tags
      /\ UNCHANGED <<nodes, infos, freed>>
      /\ pc'[t] = "replace"
  BY <1>0, <1>t DEF Modified, Goto, HeldBy, lists
<1>2. req'[t] = [req[t] EXCEPT !.val = v, !.newTag = g, !.refill = TRUE]
  BY <1>p, <1>t DEF Modified, Locals
<1>m. vals \in Seq(ResponseType) /\ tags \in Seq(TagType)
  BY <1>t DEF Typed, MemoryTyped
<1>3. /\ v = Len(vals) + 1 /\ vals'[v] = Response(u, p)
      /\ \A i \in DOMAIN vals : vals'[i] = vals[i]
      /\ v \notin DOMAIN vals
  BY <1>p, <1>1, <1>m, NewObjects, <1>t, AppendFacts
<1>4. /\ \A i \in DOMAIN tags : tags'[i] = tags[i]
      /\ g # NULL => g = Len(tags) + 1 /\ g \notin DOMAIN tags /\ tags'[g] = Tag(u)
  <2>1. CASE p.tag
    BY <1>p, <1>1, <1>m, <1>t, <2>1, NewObjects, AppendFacts
  <2>2. CASE ~p.tag
    BY <1>p, <1>1, <2>2
  <2> QED
    BY <2>1, <2>2
<1>5. /\ req'[t].uri = u /\ req'[t].node = req[t].node /\ req'[t].refill
      /\ req'[t].val = v /\ req'[t].newTag = g
  BY <1>2, <1>t DEF Locals
<1>6. Live("val", v)' /\ (g # NULL => Live("tag", g)')
  BY <1>1, <1>3, <1>4, <1>t, NewIsLive DEF Live, SafeInv
<1>7. /\ req[t].node \in DOMAIN nodes /\ nodes[req[t].node].key = u
      /\ Node(t) = nodes[req[t].node] /\ Node(t)' = Node(t)
      /\ infos[Node(t).info].tag # NULL => infos[Node(t).info].tag \in DOMAIN tags
      /\ infos[Node(t).info].reval
  BY <1>0, <1>1, <1>5, <1>t, AtNode DEF NodePcs, Node, Looking
<1>8. \A n \in DOMAIN nodes : nodes[n].key = u =>
        /\ nodes[n].val \in DOMAIN vals /\ nodes[n].val # v
        /\ vals'[nodes[n].val].version <= vals'[v].version
  <2> SUFFICES ASSUME NEW n \in DOMAIN nodes, nodes[n].key = u
               PROVE  /\ nodes[n].val \in DOMAIN vals /\ nodes[n].val # v
                      /\ vals'[nodes[n].val].version <= vals'[v].version
    OBVIOUS
  <2>1. nodes[n].val \in DOMAIN vals /\ vals[nodes[n].val].uri = u
    BY <1>t DEF Linked
  <2>2. vals[nodes[n].val].version <= origin[u]
    BY <2>1 DEF SafeInv, Past
  <2>3. vals'[v].version = origin[u]
    BY <1>3 DEF Response
  <2> QED
    BY <1>3, <2>1, <2>2, <2>3
<1>9. Filling(t)'
  <2>1. g # NULL => tags'[g].version <= vals'[v].version
    <3>1. origin[u] \in Nat
      BY <1>1, <1>t DEF Typed, WorldTyped
    <3> QED
      BY <1>3, <1>4, <3>1 DEF Response, Tag
  <2>2. g # NULL => g # infos[Node(t).info].tag
    BY <1>4, <1>7
  <2> QED
    BY <1>1, <1>5, <1>6, <1>7, <1>8, <2>1, <2>2 DEF Filling, ValPcs, InfoPcs
<1>10. Looking(t)'
  BY <1>1 DEF Looking, DataPcs
<1>11. ASSUME NEW n \in DOMAIN nodes, nodes[n].key = u
       PROVE  NodeFit(n, Renewing(t), Swapping(t))'
  <2>1. /\ NodeFit(n, Renewing(t), Swapping(t)) /\ ~Renewing(t) /\ ~Swapping(t)
        /\ nodes[n].val \in DOMAIN vals
        /\ infos[nodes[n].info].tag # NULL => infos[nodes[n].info].tag \in DOMAIN tags
    BY <1>0, <1>t, <1>11 DEF Renewing, Swapping, Linked
  <2>2. /\ nodes'[n] = nodes[n] /\ infos' = infos /\ vals'[nodes[n].val] = vals[nodes[n].val]
        /\ infos[nodes[n].info].tag # NULL =>
             tags'[infos[nodes[n].info].tag] = tags[infos[nodes[n].info].tag]
    BY <1>1, <1>3, <1>4, <2>1
  <2> QED
    BY <1>1, <2>1, <2>2 DEF NodeFit, InfoLive, Live, TagFits, Fits
<1> QED
  BY <1>1, <1>9, <1>10, <1>11 DEF Safe

\* A response that may be kept, with an info of its own.
LEMMA OwnFetch ==
  ASSUME Inv, SafeInv, NEW t \in Threads, NEW p \in Policies, Fetch(t, p), Alone(t)
  PROVE  /\ Safe(t)'
         /\ \A n \in DOMAIN nodes : nodes[n].key = req[t].uri =>
              NodeFit(n, Renewing(t), Swapping(t))'
<1> DEFINE u == req[t].uri
           info == [uri |-> u, reval |-> p.reval, until |-> Until(p), tag |-> IF p.tag THEN Len(tags') ELSE NULL]
<1>p. PICK v, g, i : v = Len(vals') /\ g = (IF p.tag THEN Len(tags') ELSE NULL)
                    /\ i = Len(infos')
  OBVIOUS
<1>0. pc[t] = "forward" /\ p.store
  BY DEF Fetch
<1>t. /\ Typed /\ Linked /\ Held /\ HeldBy(t) /\ pc \in [Threads -> PCs]
      /\ req \in [Threads -> Locals] /\ req[t] \in Locals
      /\ ~req[t].refill
      /\ \A n \in DOMAIN nodes : nodes[n].key = u => NodeFit(n, Renewing(t), Swapping(t))
  BY <1>0, OwnFacts
<1>1. /\ u \in URIs /\ vals' = Append(vals, Response(u, p))
      /\ tags' = IF p.tag THEN Append(tags, Tag(u)) ELSE tags
      /\ infos' = Append(infos, info)
      /\ UNCHANGED <<nodes, freed>>
      /\ pc'[t] \in {"put", "age"}
  BY <1>0, <1>t DEF Fetch, Goto, HeldBy, lists
<1>2. req'[t] = [req[t] EXCEPT !.val = v, !.info = i]
  BY <1>p, <1>t DEF Fetch, Locals
<1>m. vals \in Seq(ResponseType) /\ tags \in Seq(TagType) /\ infos \in Seq(InfoType)
  BY <1>t DEF Typed, MemoryTyped
<1>3. /\ v = Len(vals) + 1 /\ vals'[v] = Response(u, p)
      /\ \A j \in DOMAIN vals : vals'[j] = vals[j]
      /\ v \notin DOMAIN vals
  BY <1>p, <1>1, <1>m, NewObjects, <1>t, AppendFacts
<1>4. /\ \A j \in DOMAIN tags : tags'[j] = tags[j] /\ Len(tags') \in Nat
      /\ g # NULL => g = Len(tags) + 1 /\ g \notin DOMAIN tags /\ tags'[g] = Tag(u)
      /\ g \in Nat
  <2>1. CASE p.tag
    BY <1>p, <1>1, <1>m, <1>t, <2>1, NewObjects, AppendFacts
  <2>2. CASE ~p.tag
    BY <1>p, <1>1, <1>m, <2>2 DEF NULL
  <2> QED
    BY <2>1, <2>2
<1>i. info \in InfoType /\ info.tag = g /\ info.reval = p.reval /\ info.until = Until(p)
  BY <1>p, <1>1, <1>4, <1>t, NewObjects DEF InfoType
<1> HIDE DEF info
<1>5. /\ i = Len(infos) + 1 /\ infos'[i] = info
      /\ \A j \in DOMAIN infos : infos'[j] = infos[j]
      /\ i \notin DOMAIN infos
  BY <1>p, <1>1, <1>m, <1>i, AppendFacts
<1>6. /\ req'[t].uri = u /\ ~req'[t].refill
      /\ req'[t].val = v /\ req'[t].info = i
  BY <1>2, <1>t DEF Locals
<1>7. /\ Live("val", v)' /\ Live("info", i)' /\ Live("tag", g)'
  <2>1. /\ <<"val", Len(vals) + 1>> \notin freed /\ <<"info", Len(infos) + 1>> \notin freed
        /\ <<"tag", g>> \notin freed
    BY <1>4, <1>t, NewIsLive DEF Live, SafeInv
  <2> QED
    BY <1>1, <1>3, <1>4, <1>5, <2>1 DEF Live
<1>8. \A n \in DOMAIN nodes : nodes[n].key = u =>
        /\ nodes[n].val \in DOMAIN vals /\ nodes[n].val # v
        /\ nodes[n].info \in DOMAIN infos /\ nodes[n].info # i
        /\ vals'[nodes[n].val].version <= vals'[v].version
  <2> SUFFICES ASSUME NEW n \in DOMAIN nodes, nodes[n].key = u
               PROVE  /\ nodes[n].val \in DOMAIN vals /\ nodes[n].val # v
                      /\ nodes[n].info \in DOMAIN infos /\ nodes[n].info # i
                      /\ vals'[nodes[n].val].version <= vals'[v].version
    OBVIOUS
  <2>1. nodes[n].val \in DOMAIN vals /\ vals[nodes[n].val].uri = u /\ nodes[n].info \in DOMAIN infos
    BY <1>t DEF Linked
  <2>2. vals[nodes[n].val].version <= origin[u]
    BY <2>1 DEF SafeInv, Past
  <2>3. vals'[v].version = origin[u]
    BY <1>3 DEF Response
  <2> QED
    BY <1>3, <1>5, <2>1, <2>2, <2>3
<1>9. Filling(t)'
  <2>1. TagFits(i, v)'
    <3>1. origin[u] \in Nat
      BY <1>1, <1>t DEF Typed, WorldTyped
    <3>2. g # NULL => tags'[g].version <= vals'[v].version
      BY <1>3, <1>4, <3>1 DEF Response, Tag
    <3>3. infos'[i].tag = g
      BY <1>5, <1>i
    <3> QED
      BY <3>2, <3>3 DEF TagFits
  <2>2. Fits(i, v)'
    BY <1>0, <1>3, <1>5, <1>i DEF Fits, Response
  <2>3. InfoLive(i)'
    BY <1>5, <1>i, <1>7 DEF InfoLive, Live
  <2> QED
    BY <1>1, <1>6, <1>7, <1>8, <2>1, <2>2, <2>3
    DEF Filling, ValPcs, InfoPcs, InfoLive, TagFits, Fits, Live
<1>10. Looking(t)'
  BY <1>1 DEF Looking, DataPcs
<1>11. ASSUME NEW n \in DOMAIN nodes, nodes[n].key = u
       PROVE  NodeFit(n, Renewing(t), Swapping(t))'
  <2>1. /\ NodeFit(n, Renewing(t), Swapping(t)) /\ ~Renewing(t) /\ ~Swapping(t)
        /\ nodes[n].val \in DOMAIN vals /\ nodes[n].info \in DOMAIN infos
        /\ infos[nodes[n].info].tag # NULL => infos[nodes[n].info].tag \in DOMAIN tags
    BY <1>0, <1>t, <1>11 DEF Renewing, Swapping, Linked
  <2>2. /\ nodes'[n] = nodes[n] /\ infos'[nodes[n].info] = infos[nodes[n].info]
        /\ vals'[nodes[n].val] = vals[nodes[n].val]
        /\ infos[nodes[n].info].tag # NULL =>
             tags'[infos[nodes[n].info].tag] = tags[infos[nodes[n].info].tag]
    BY <1>1, <1>3, <1>4, <1>5, <2>1
  <2> QED
    BY <1>1, <2>1, <2>2 DEF NodeFit, InfoLive, Live, TagFits, Fits
<1> QED
  BY <1>1, <1>9, <1>10, <1>11 DEF Safe

\* The new ETag takes the place of the old one, before the data it came with does.
LEMMA OwnReplaceTag ==
  ASSUME Inv, SafeInv, NEW t \in Threads, ReplaceTag(t), Alone(t)
  PROVE  /\ Safe(t)'
         /\ \A n \in DOMAIN nodes : nodes[n].key = req[t].uri =>
              NodeFit(n, Renewing(t), Swapping(t))'
<1>p. PICK m, u, i, old, v, g : /\ m = req[t].node /\ u = req[t].uri /\ i = Node(t).info
                                /\ old = infos[i].tag /\ v = req[t].val /\ g = req[t].newTag
  OBVIOUS
<1>0. pc[t] = "replace"
  BY DEF ReplaceTag
<1>t. /\ Typed /\ Linked /\ Held /\ HeldBy(t) /\ pc \in [Threads -> PCs]
      /\ req \in [Threads -> Locals] /\ req[t] \in Locals
      /\ Looking(t) /\ Filling(t)
      /\ \A n \in DOMAIN nodes : nodes[n].key = u => NodeFit(n, Renewing(t), Swapping(t))
  BY <1>0, <1>p, OwnFacts
<1>1. /\ m \in DOMAIN nodes /\ nodes[m].key = u /\ Node(t) = nodes[m] /\ nodes[m].info = i
      /\ nodes[m].val \in DOMAIN vals /\ i \in DOMAIN infos /\ infos[i] \in InfoType
  BY <1>0, <1>p, <1>t, AtNode DEF NodePcs, Node
<1>2. \A n \in DOMAIN nodes : nodes[n].key = u => n = m
  BY <1>1 DEF Inv, OneNodePerKey
<1>3. /\ Live("val", nodes[m].val) /\ Live("info", i) /\ Live("tag", old)
      /\ old # NULL => tags[old].version <= vals[nodes[m].val].version
      /\ Fits(i, nodes[m].val)
  <2>1. NodeFit(m, Renewing(t), Swapping(t)) /\ ~Renewing(t) /\ ~Swapping(t)
    BY <1>0, <1>1, <1>t DEF Renewing, Swapping
  <2> QED
    BY <1>1, <1>p, <2>1 DEF NodeFit, InfoLive, TagFits
<1>4. /\ req[t].refill /\ Live("val", v) /\ v \in DOMAIN vals
      /\ nodes[m].val # v /\ vals[nodes[m].val].version <= vals[v].version
      /\ g # NULL => Live("tag", g) /\ g # old /\ tags[g].version <= vals[v].version
      /\ infos[i].reval
  BY <1>0, <1>1, <1>2, <1>p, <1>t DEF Filling, HeldBy, ValPcs
<1>5. /\ UNCHANGED <<nodes, vals, tags>> /\ pc'[t] = "args" /\ req'[t] = req[t]
      /\ \/ g = NULL /\ infos' = infos /\ freed' = freed
         \/ /\ g # NULL /\ infos' = [infos EXCEPT ![i] = [infos[i] EXCEPT !.tag = g]]
            /\ freed' \subseteq freed \cup {<<"tag", old>>}
  BY <1>3, <1>p, <1>t DEF ReplaceTag, Goto, GotoIf, Free, lists
<1>6. /\ infos'[i].reval = infos[i].reval /\ infos'[i].until = infos[i].until
      /\ infos'[i].tag = (IF g = NULL THEN old ELSE g)
  BY <1>1, <1>5, <1>p DEF InfoType
<1>7. /\ Live("val", nodes[m].val)' /\ Live("info", i)' /\ Live("val", v)'
      /\ <<"tag", infos'[i].tag>> \notin freed'
  BY <1>3, <1>4, <1>5, <1>6 DEF Live
<1>8. TagFits(i, v)'
  <2>1. vals[nodes[m].val].version \in Nat /\ vals[v].version \in Nat
    BY <1>1, <1>4, <1>t, ObjectsTyped DEF ResponseType
  <2>2. old # NULL => tags[old].version \in Nat
    BY <1>1, <1>p, <1>t, ObjectsTyped DEF Linked, TagType
  <2> QED
    BY <1>3, <1>4, <1>5, <1>6, <2>1, <2>2 DEF TagFits
<1>9. Filling(t)'
  <2>1. /\ m \in DOMAIN nodes' /\ nodes'[m].key = u /\ nodes'[m].info = i
        /\ infos'[nodes'[m].info].reval /\ TagFits(nodes[m].info, v)'
        /\ \A n \in DOMAIN nodes' : nodes'[n].key = u => n = m
    BY <1>1, <1>2, <1>4, <1>5, <1>6, <1>8 DEF TagFits
  <2>2. nodes'[m].val # v /\ vals'[nodes'[m].val].version <= vals'[v].version
    BY <1>4, <1>5
  <2>3. /\ req'[t].uri = u /\ req'[t].val = v /\ req'[t].refill /\ pc'[t] = "args"
    BY <1>4, <1>5, <1>p
  <2>4. Live("val", v)'
    BY <1>7
  <2> QED
    BY <2>1, <2>2, <2>3, <2>4 DEF Filling, ValPcs, InfoPcs, TagFits, Live
<1>10. Looking(t)'
  BY <1>5 DEF Looking, DataPcs
<1>11. NodeFit(m, Renewing(t), Swapping(t))'
  <2>1. Renewing(t)'
    BY <1>4, <1>5 DEF Renewing
  <2>2. InfoLive(i)' /\ Fits(i, nodes[m].val)'
    BY <1>3, <1>5, <1>6, <1>7 DEF InfoLive, Fits, Live
  <2> QED
    BY <1>1, <1>5, <1>7, <2>1, <2>2 DEF NodeFit, InfoLive, Fits, Live
<1> QED
  BY <1>2, <1>5, <1>9, <1>10, <1>11, <1>p DEF Safe

\* The data takes the place of the old data, which is freed.
LEMMA OwnUpdateVal ==
  ASSUME Inv, SafeInv, NEW t \in Threads, UpdateVal(t), Alone(t)
  PROVE  /\ Safe(t)'
         /\ \A n \in DOMAIN nodes : nodes[n].key = req[t].uri =>
              /\ NodeFit(n, Renewing(t), Swapping(t))'
              /\ vals[nodes[n].val].version <= vals[nodes'[n].val].version
<1>p. PICK m, u, i, j, old, v, g : /\ m = req[t].node /\ u = req[t].uri /\ i = Node(t).info
                                   /\ j = req[t].info /\ old = Node(t).val /\ v = req[t].val
                                   /\ g = infos[i].tag
  OBVIOUS
<1>0. pc[t] = "update"
  BY DEF UpdateVal
<1>t. /\ Typed /\ Linked /\ Held /\ HeldBy(t) /\ pc \in [Threads -> PCs]
      /\ req \in [Threads -> Locals] /\ req[t] \in Locals
      /\ Filling(t)
      /\ \A n \in DOMAIN nodes : nodes[n].key = u => NodeFit(n, Renewing(t), Swapping(t))
  BY <1>0, <1>p, OwnFacts
<1>1. /\ m \in DOMAIN nodes /\ nodes[m].key = u /\ Node(t) = nodes[m]
      /\ nodes[m].info = i /\ nodes[m].val = old /\ nodes[m] \in NodeType
      /\ old \in DOMAIN vals /\ i \in DOMAIN infos
  BY <1>0, <1>p, <1>t, AtNode DEF NodePcs, Node
<1>2. \A n \in DOMAIN nodes : nodes[n].key = u => n = m
  BY <1>1 DEF Inv, OneNodePerKey
<1>3. /\ Live("val", old) /\ Live("info", i) /\ Live("tag", g)
      /\ ~req[t].refill => TagFits(i, old)
  <2>1. NodeFit(m, Renewing(t), Swapping(t)) /\ (Renewing(t) => req[t].refill)
    BY <1>1, <1>t DEF Renewing
  <2> QED
    BY <1>1, <1>p, <2>1 DEF NodeFit, InfoLive
<1>4. /\ Live("val", v) /\ v \in DOMAIN vals
      /\ old # v /\ vals[old].version <= vals[v].version
      /\ req[t].refill => infos[i].reval /\ TagFits(i, v) /\ j = i
      /\ ~req[t].refill => InfoLive(j) /\ TagFits(j, v) /\ Fits(j, v) /\ i # j
  BY <1>0, <1>1, <1>2, <1>p, <1>t DEF Filling, HeldBy, ValPcs, InfoPcs
<1>5. /\ UNCHANGED <<vals, infos, tags>> /\ pc'[t] = "swap" /\ req'[t] = req[t]
      /\ nodes' = [nodes EXCEPT ![m] = [nodes[m] EXCEPT !.val = v]]
      /\ freed' \subseteq freed \cup {<<"val", old>>}
  BY <1>1, <1>3, <1>p, <1>t DEF UpdateVal, Goto, GotoIf, Free, memory
<1>6. /\ nodes'[m].val = v /\ nodes'[m].info = i /\ nodes'[m].key = u
      /\ DOMAIN nodes' = DOMAIN nodes
      /\ \A n \in DOMAIN nodes' : nodes'[n].key = u => n = m
  BY <1>1, <1>2, <1>5 DEF NodeType
<1>7. /\ Live("val", v)' /\ Live("info", i)' /\ <<"tag", g>> \notin freed'
      /\ InfoLive(j) => InfoLive(j)'
  BY <1>3, <1>4, <1>5 DEF Live, InfoLive
<1>8. TagFits(i, v)
  <2>1. vals[old].version \in Nat /\ vals[v].version \in Nat
    BY <1>1, <1>4, <1>t, ObjectsTyped DEF ResponseType
  <2>2. g # NULL => tags[g].version \in Nat
    BY <1>1, <1>p, <1>t, ObjectsTyped DEF Linked, TagType
  <2> QED
    BY <1>3, <1>4, <1>p, <2>1, <2>2 DEF TagFits
<1>9. Filling(t)'
  <2>1. (TagFits(i, v) => TagFits(i, v)') /\ (TagFits(j, v) => TagFits(j, v)')
        /\ (Fits(j, v) => Fits(j, v)')
    BY <1>5 DEF TagFits, Fits
  <2>2. CASE req[t].refill
    BY <1>0, <1>1, <1>4, <1>5, <1>6, <1>7, <1>8, <1>p, <2>1, <2>2
    DEF Filling, ValPcs, InfoPcs, Node
  <2>3. CASE ~req[t].refill
    BY <1>0, <1>1, <1>4, <1>5, <1>6, <1>7, <1>8, <1>p, <2>1, <2>3
    DEF Filling, ValPcs, InfoPcs, Node
  <2> QED
    BY <2>2, <2>3
<1>10. Looking(t)'
  BY <1>5 DEF Looking, DataPcs
<1>11. NodeFit(m, Renewing(t), Swapping(t))'
  <2>1. Swapping(t)'
    BY <1>5 DEF Swapping
  <2>2. InfoLive(i)' /\ TagFits(i, v)'
    BY <1>5, <1>7, <1>8, <1>p DEF InfoLive, TagFits, Live
  <2> QED
    BY <1>6, <1>7, <2>1, <2>2 DEF NodeFit, InfoLive, TagFits, Live
<1> QED
  BY <1>1, <1>2, <1>4, <1>5, <1>6, <1>9, <1>10, <1>11, <1>p DEF Safe

\* The info takes the place of the old info, unless it is the same.
LEMMA OwnUpdateInfo ==
  ASSUME Inv, SafeInv, NEW t \in Threads, UpdateInfo(t), Alone(t)
  PROVE  /\ pc'[t] = "idle"
         /\ \A n \in DOMAIN nodes : nodes[n].key = req[t].uri =>
              NodeFit(n, Renewing(t), Swapping(t))'
<1>p. PICK m, u, i, j, v : /\ m = req[t].node /\ u = req[t].uri /\ i = Node(t).info
                           /\ j = req[t].info /\ v = req[t].val
  OBVIOUS
<1>0. pc[t] = "swap"
  BY DEF UpdateInfo
<1>t. /\ Typed /\ Linked /\ Held /\ HeldBy(t) /\ pc \in [Threads -> PCs]
      /\ req \in [Threads -> Locals] /\ req[t] \in Locals
      /\ Filling(t)
      /\ \A n \in DOMAIN nodes : nodes[n].key = u => NodeFit(n, Renewing(t), Swapping(t))
  BY <1>0, <1>p, OwnFacts
<1>1. /\ m \in DOMAIN nodes /\ nodes[m].key = u /\ Node(t) = nodes[m]
      /\ nodes[m].info = i /\ nodes[m].val = v /\ nodes[m] \in NodeType
  BY <1>0, <1>p, <1>t, AtNode DEF NodePcs, Node, Filling
<1>2. \A n \in DOMAIN nodes : nodes[n].key = u => n = m
  BY <1>1 DEF Inv, OneNodePerKey
<1>3. Live("val", v) /\ InfoLive(i) /\ TagFits(i, v)
  <2>1. NodeFit(m, Renewing(t), Swapping(t)) /\ ~Renewing(t)
    BY <1>0, <1>1, <1>t DEF Renewing
  <2> QED
    BY <1>1, <2>1 DEF NodeFit
<1>4. /\ req[t].refill => infos[i].reval /\ j = i
      /\ ~req[t].refill => InfoLive(j) /\ TagFits(j, v) /\ Fits(j, v) /\ i # j
  BY <1>0, <1>1, <1>2, <1>p, <1>t DEF Filling, InfoPcs
<1>5. /\ UNCHANGED <<vals, infos, tags>> /\ pc'[t] = "idle"
      /\ \/ i = j /\ nodes' = nodes /\ freed' = freed
         \/ /\ i # j /\ nodes' = [nodes EXCEPT ![m] = [nodes[m] EXCEPT !.info = j]]
            /\ freed' \subseteq freed \cup {<<"info", i>>}
  <2>1. SameInfo(t) \/ Live("info", Node(t).info)
    BY <1>3, <1>p DEF InfoLive
  <2>2. SameInfo(t) <=> i = j
    BY <1>p DEF SameInfo
  <2> QED
    BY <1>1, <1>p, <1>t, <2>1, <2>2 DEF UpdateInfo, Goto, Finish, Free, memory
<1>6. nodes'[m].val = v /\ nodes'[m].info = j
  BY <1>1, <1>5 DEF NodeType
<1>7. InfoLive(j) /\ TagFits(j, v) /\ Fits(j, v)
  BY <1>3, <1>4 DEF Fits
<1>8. Live("val", v)' /\ InfoLive(j)' /\ TagFits(j, v)' /\ Fits(j, v)'
  BY <1>3, <1>5, <1>7 DEF Live, InfoLive, TagFits, Fits
<1>9. NodeFit(m, Renewing(t), Swapping(t))'
  BY <1>6, <1>8 DEF NodeFit, InfoLive, TagFits, Fits, Live
<1> QED
  BY <1>2, <1>5, <1>9, <1>p

\* A node of its own for a URI that has none.
LEMMA OwnInsert ==
  ASSUME Inv, SafeInv, NEW t \in Threads, Insert(t), Alone(t)
  PROVE  /\ pc'[t] = "idle"
         /\ \A n \in DOMAIN nodes' : nodes'[n].key = req[t].uri =>
              n \notin DOMAIN nodes /\ NodeFit(n, Renewing(t), Swapping(t))'
<1>p. PICK k, u, j, v : k = Len(nodes) + 1 /\ u = req[t].uri /\ j = req[t].info /\ v = req[t].val
  OBVIOUS
<1>0. pc[t] = "insert"
  BY DEF Insert
<1>t. /\ Typed /\ Linked /\ Held /\ pc \in [Threads -> PCs] /\ Filling(t)
  BY <1>0, OwnFacts
<1>1. /\ k \notin DOMAIN nodes /\ DOMAIN nodes' = DOMAIN nodes \cup {k}
      /\ \A n \in DOMAIN nodes : nodes'[n] = nodes[n]
      /\ nodes'[k] = makeNode(t)
  <2>1. /\ k \in Nat /\ DOMAIN nodes = 1 .. Len(nodes) /\ DOMAIN nodes' = 1 .. k
        /\ \A n \in DOMAIN nodes : nodes'[n] = nodes[n]
        /\ nodes'[k] = makeNode(t)
    BY <1>t, <1>p, Inserted
  <2>2. Len(nodes) \in Nat
    BY <1>t, Domains
  <2> QED
    BY <1>p, <2>1, <2>2
<1>2. nodes'[k].val = v /\ nodes'[k].info = j
  BY <1>1, <1>p DEF makeNode
<1>3. \A n \in DOMAIN nodes : nodes[n].key # u
  BY <1>0, <1>p DEF Inv, Locked
<1>4. ~req[t].refill
  BY <1>3, <1>p, <1>t DEF Filling
<1>5. Live("val", v) /\ InfoLive(j) /\ TagFits(j, v) /\ Fits(j, v)
  BY <1>0, <1>4, <1>p, <1>t DEF Filling, ValPcs, InfoPcs
<1>6. UNCHANGED <<vals, infos, tags, freed>> /\ pc'[t] = "idle"
  BY <1>t DEF Insert, Finish, Goto, memory
<1>7. Live("val", v)' /\ InfoLive(j)' /\ TagFits(j, v)' /\ Fits(j, v)'
  BY <1>5, <1>6 DEF Live, InfoLive, TagFits, Fits
<1>8. NodeFit(k, Renewing(t), Swapping(t))'
  BY <1>2, <1>7 DEF NodeFit, InfoLive, TagFits, Fits, Live
<1> QED
  BY <1>1, <1>3, <1>6, <1>8, <1>p

-----------------------------------------------------------------------------
(* The steps *)

\* A request keeps its URI to its end; only its start shares URIs.
LEMMA UriStays ==
  ASSUME ThreadsTyped, NEW t \in Threads, Serve(t)
  PROVE  \/ \E u \in URIs : Request(t, u)
         \/ /\ pc[t] # "idle" /\ shared' = shared
            /\ pc'[t] # "idle" => req'[t].uri = req[t].uri
<1> USE DEF Goto, GotoIf, Finish, ThreadsTyped, Locals
<1>1. CASE Looks(t)
  BY <1>1 DEF Looks, Lookup, GetTime, CopyTime, TestExpiry, TestReval, CopyPointer,
     Send, ReadTag, NotModified, ReadsFreedTag, EvalArgs, NotKept, CopyExpiry, PutLock
<1>2. CASE \E p \in Policies : Modified(t, p) \/ Fetch(t, p)
  <2>p. PICK p \in Policies : Modified(t, p) \/ Fetch(t, p)
    BY <1>2
  <2>v. PICK v, g, i : v = Len(vals') /\ i = Len(infos') /\ g = (IF p.tag THEN Len(tags') ELSE NULL)
    OBVIOUS
  <2>1. \/ req'[t] = [req[t] EXCEPT !.val = v, !.newTag = g, !.refill = TRUE]
        \/ req'[t] = [req[t] EXCEPT !.val = v, !.info = i]
    <3>1. CASE Modified(t, p)
      BY <2>v, <3>1 DEF Modified
    <3>2. CASE Fetch(t, p)
      BY <2>v, <3>2 DEF Fetch
    <3> QED
      BY <2>p, <3>1, <3>2
  <2>2. req'[t].uri = req[t].uri
    BY <2>1
  <2> QED
    BY <1>2, <2>2 DEF Modified, Fetch
<1>3. CASE ReplaceTag(t) \/ Insert(t) \/ UpdateVal(t) \/ UpdateInfo(t)
  BY <1>3 DEF ReplaceTag, Insert, UpdateVal, UpdateInfo
<1> QED
  BY <1>1, <1>2, <1>3, LooksOrWrites DEF Writes

\* Only UpdateVal changes the data of a node that is there.
LEMMA DataStays ==
  ASSUME Typed, Linked, Held, NEW t \in Threads, Serve(t), ~UpdateVal(t),
         NEW n \in DOMAIN nodes
  PROVE  nodes'[n].val = nodes[n].val
<1>n. nodes[n] \in NodeType
  BY ObjectsTyped
<1>1. CASE Looks(t)
  BY <1>1, LooksOnly DEF lists
<1>2. CASE Insert(t)
  BY <1>2, Inserted
<1>3. CASE UpdateInfo(t)
  <2>1. nodes' = nodes \/ nodes' = [nodes EXCEPT ![req[t].node].info = req[t].info]
    BY <1>3 DEF UpdateInfo
  <2> QED
    BY <1>n, <2>1 DEF NodeType
<1>4. CASE (\E p \in Policies : Modified(t, p) \/ Fetch(t, p)) \/ ReplaceTag(t)
  BY <1>4 DEF Modified, Fetch, ReplaceTag, lists
<1> QED
  BY <1>1, <1>2, <1>3, <1>4, LooksOrWrites DEF Writes

\* A step of the only thread at a URI.
LEMMA OwnStep ==
  ASSUME Inv, SafeInv, NEW t \in Threads, Serve(t), pc[t] # "idle", Alone(t)
  PROVE  /\ pc'[t] # "idle" => Safe(t)'
         /\ \A n \in DOMAIN nodes' : nodes'[n].key = req[t].uri =>
              NodeFit(n, Renewing(t), Swapping(t))'
         /\ \A n \in DOMAIN nodes : nodes[n].key = req[t].uri =>
              vals[nodes[n].val].version <= vals[nodes'[n].val].version
<1>t. Typed /\ Linked /\ Held
  BY DEF Inv
<1>v. ASSUME NEW n \in DOMAIN nodes, nodes[n].key = req[t].uri
      PROVE  vals[nodes[n].val].version <= vals[nodes'[n].val].version
  <2>1. CASE UpdateVal(t)
    BY <1>v, <2>1, OwnUpdateVal
  <2>2. CASE ~UpdateVal(t)
    <3>1. nodes'[n].val = nodes[n].val
      BY <1>t, <2>2, DataStays
    <3>2. vals[nodes[n].val].version \in Nat
      BY <1>t, ObjectsTyped DEF Linked, ResponseType
    <3> QED
      BY <3>1, <3>2
  <2> QED
    BY <2>1, <2>2
<1>n. ASSUME ~Insert(t)
      PROVE  \A n \in DOMAIN nodes' : n \in DOMAIN nodes /\ nodes'[n].key = nodes[n].key
  BY <1>n, <1>t, OnlyInsert
<1>1. CASE Insert(t)
  BY <1>1, <1>v, OwnInsert
<1>2. CASE ~Insert(t)
  <2>1. /\ pc'[t] # "idle" => Safe(t)'
        /\ \A n \in DOMAIN nodes : nodes[n].key = req[t].uri =>
             NodeFit(n, Renewing(t), Swapping(t))'
    <3>1. CASE Looks(t)
      BY <3>1, OwnLook
    <3>2. CASE \E p \in Policies : Modified(t, p) \/ Fetch(t, p)
      BY <3>2, OwnModified, OwnFetch
    <3>3. CASE ReplaceTag(t)
      BY <3>3, OwnReplaceTag
    <3>4. CASE UpdateVal(t)
      BY <3>4, OwnUpdateVal
    <3>5. CASE UpdateInfo(t)
      BY <3>5, OwnUpdateInfo
    <3> QED
      BY <1>2, <3>1, <3>2, <3>3, <3>4, <3>5, LooksOrWrites DEF Writes
  <2> QED
    BY <1>2, <1>v, <1>n, <2>1
<1> QED
  BY <1>1, <1>2

\* What is freed was allocated, and stays so.
LEMMA AllocatedStep ==
  ASSUME Inv, Allocated, NEW t \in Threads, Serve(t)
  PROVE  Allocated'
<1>1. Grows /\ Keeps(req[t].uri)
  BY Effect DEF Inv
<1> SUFFICES ASSUME NEW f \in freed'
             PROVE  \/ f[1] = "val" /\ f[2] \in DOMAIN vals'
                    \/ f[1] = "info" /\ f[2] \in DOMAIN infos'
                    \/ f[1] = "tag" /\ f[2] \in DOMAIN tags'
  BY DEF Allocated
<1>2. \/ f[1] = "val" /\ f[2] \in DOMAIN vals
      \/ f[1] = "info" /\ f[2] \in DOMAIN infos
      \/ f[1] = "tag" /\ f[2] \in DOMAIN tags
  BY <1>1 DEF Keeps, Allocated
<1> QED
  BY <1>1, <1>2 DEF Grows

\* A response or an ETag that comes in is as new as the origin.
LEMMA PastStep ==
  ASSUME Inv, Past, NEW t \in Threads, Serve(t)
  PROVE  Past'
<1>t. /\ Typed /\ vals \in Seq(ResponseType) /\ tags \in Seq(TagType) /\ HeldBy(t)
      /\ DOMAIN vals \subseteq Nat /\ DOMAIN tags \subseteq Nat
  BY Domains DEF Inv, Held, Typed, MemoryTyped
<1>1. CASE \E p \in Policies : Modified(t, p) \/ Fetch(t, p)
  <2>p. PICK p \in Policies : Modified(t, p) \/ Fetch(t, p)
    BY <1>1
  <2> DEFINE u == req[t].uri
  <2>1. u \in URIs
    BY <1>t, <2>p DEF HeldBy, Modified, Fetch
  <2>2. /\ vals' = Append(vals, Response(u, p)) /\ origin' = origin
        /\ tags' = Append(tags, Tag(u)) \/ tags' = tags
    BY <2>p DEF Modified, Fetch, world
  <2>3. /\ Response(u, p) \in ResponseType /\ Tag(u) \in TagType
        /\ Response(u, p).version = origin[u] /\ Response(u, p).uri = u
        /\ Tag(u).version = origin[u] /\ Tag(u).uri = u /\ origin[u] \in Nat
    <3>1. origin[u] \in Nat
      BY <1>t, <2>1 DEF Typed, WorldTyped
    <3> QED
      BY <1>t, <2>1, <3>1, NewObjects DEF Response, Tag
  <2>4. ASSUME NEW i \in DOMAIN vals' PROVE vals'[i].version <= origin'[vals'[i].uri]
    <3>1. (i \in DOMAIN vals /\ vals'[i] = vals[i]) \/ vals'[i] = Response(u, p)
      BY <1>t, <2>2, <2>3, AppendFacts, Domains
    <3> QED
      BY <2>2, <2>3, <3>1 DEF Past
  <2>5. ASSUME NEW i \in DOMAIN tags' PROVE tags'[i].version <= origin'[tags'[i].uri]
    <3>1. (i \in DOMAIN tags /\ tags'[i] = tags[i]) \/ tags'[i] = Tag(u)
      BY <1>t, <2>2, <2>3, AppendFacts, Domains
    <3> QED
      BY <2>2, <2>3, <3>1 DEF Past
  <2> QED
    BY <2>4, <2>5 DEF Past
<1>2. CASE Looks(t)
  BY <1>2, LooksOnly DEF Past, memory, world
<1>3. CASE ReplaceTag(t) \/ Insert(t) \/ UpdateVal(t) \/ UpdateInfo(t)
  BY <1>3 DEF Past, ReplaceTag, Insert, UpdateVal, UpdateInfo, memory, world
<1> QED
  BY <1>1, <1>2, <1>3, LooksOrWrites DEF Writes

\* Who takes a request for a URI that is being served shares it.
LEMMA ApartStep ==
  ASSUME Inv, Apart, NEW t \in Threads, Serve(t)
  PROVE  Apart' /\ shared \subseteq shared'
<1>t. ThreadsTyped
  BY DEF Inv, Typed
<1>1. shared \subseteq shared'
  BY <1>t, UriStays DEF Request
<1>2. ASSUME NEW s \in Threads, s # t, pc'[s] # "idle", pc'[t] # "idle",
             req'[s].uri = req'[t].uri
      PROVE  req'[t].uri \in shared'
  <2>1. pc'[s] = pc[s] /\ req'[s] = req[s]
    BY <1>2, <1>t, OthersStay
  <2>2. CASE \E u \in URIs : Request(t, u)
    <3>1. PICK u \in URIs : Request(t, u)
      BY <2>2
    <3>2. req'[t].uri = u
      BY <1>t, <3>1 DEF Request, Blank, ThreadsTyped
    <3>3. pc[s] # "idle" /\ req[s].uri = u
      BY <1>2, <2>1, <3>2
    <3> QED
      BY <3>1, <3>2, <3>3 DEF Request
  <2>3. CASE pc[t] # "idle" /\ req'[t].uri = req[t].uri
    BY <1>1, <1>2, <2>1, <2>3 DEF Apart, Alone
  <2> QED
    BY <1>2, <1>t, <2>2, <2>3, UriStays
<1>3. ASSUME NEW s \in Threads, NEW x \in Threads, s # x, s # t, x # t,
             pc'[s] # "idle", pc'[x] # "idle", req'[s].uri = req'[x].uri
      PROVE  req'[x].uri \in shared'
  <2>1. pc'[s] = pc[s] /\ req'[s] = req[s] /\ pc'[x] = pc[x] /\ req'[x] = req[x]
    BY <1>3, <1>t, OthersStay
  <2> QED
    BY <1>1, <1>3, <2>1 DEF Apart, Alone
<1>4. ASSUME NEW s \in Threads, NEW x \in Threads, s # x,
             pc'[s] # "idle", pc'[x] # "idle", req'[s].uri = req'[x].uri
      PROVE  req'[x].uri \in shared'
  BY <1>2, <1>3, <1>4
<1> QED
  BY <1>1, <1>4 DEF Apart, Alone

\* The nodes of URIs that are not shared stay fit.
LEMMA NodesSafeStep ==
  ASSUME Inv, SafeInv, NEW t \in Threads, Serve(t), shared \subseteq shared'
  PROVE  NodesSafe'
<1>t. Typed /\ Linked /\ Held /\ ThreadsTyped
  BY DEF Inv, Typed
<1> SUFFICES ASSUME NEW n \in DOMAIN nodes', nodes'[n].key \notin shared'
             PROVE  NodeFit(n, \E s \in Threads : req[s].uri = nodes[n].key /\ Renewing(s),
                               \E s \in Threads : req[s].uri = nodes[n].key /\ Swapping(s))'
  BY DEF NodesSafe
<1>p. PICK u : u = nodes'[n].key
  OBVIOUS
<1>1. CASE u = req[t].uri /\ pc[t] # "idle"
  <2>1. NodeFit(n, Renewing(t), Swapping(t))'
    BY <1>1, <1>p, OwnStep DEF Alone
  <2>2. pc'[t] # "idle" => req'[t].uri = u
    BY <1>1, <1>t, UriStays DEF Request
  <2>3. /\ Renewing(t)' => \E s \in Threads : req'[s].uri = nodes'[n].key /\ Renewing(s)'
        /\ Swapping(t)' => \E s \in Threads : req'[s].uri = nodes'[n].key /\ Swapping(s)'
    BY <1>p, <2>2 DEF Renewing, Swapping
  <2> QED
    BY <2>1, <2>3 DEF NodeFit
<1>2. CASE u # req[t].uri \/ pc[t] = "idle"
  <2>1. Untouched(u)
    BY <1>2, <1>t, Frame
  <2>2. n \in DOMAIN nodes /\ nodes[n].key = u /\ nodes'[n] = nodes[n]
    BY <1>p, <2>1 DEF Untouched
  <2> DEFINE R == \E s \in Threads : req[s].uri = nodes[n].key /\ Renewing(s)
             W == \E s \in Threads : req[s].uri = nodes[n].key /\ Swapping(s)
  <2>3. NodeFit(n, R, W)
    BY <1>p, <2>2 DEF SafeInv, NodesSafe
  <2>4. ASSUME NEW s \in Threads, req[s].uri = nodes[n].key, pc[s] # "idle"
        PROVE  req'[s].uri = nodes'[n].key /\ pc'[s] = pc[s] /\ req'[s] = req[s]
    <3>1. s # t
      BY <1>2, <2>2, <2>4
    <3> QED
      BY <1>t, <2>2, <2>4, <3>1, OthersStay
  <2>5. (R => R') /\ (W => W')
    BY <2>4 DEF Renewing, Swapping
  <2>6. PICK r \in BOOLEAN, w \in BOOLEAN : (r <=> R) /\ (w <=> W)
    OBVIOUS
  <2>7. NodeFit(n, r, w)
    BY <2>3, <2>6 DEF NodeFit
  <2>8. NodeFit(n, r, w)'
    BY <1>t, <2>1, <2>2, <2>7, FrameNode
  <2> QED
    BY <2>5, <2>6, <2>8 DEF NodeFit
<1> QED
  BY <1>1, <1>2

\* The threads that serve URIs that are not shared stay safe.
LEMMA ThreadsSafeStep ==
  ASSUME Inv, SafeInv, NEW t \in Threads, Serve(t), shared \subseteq shared'
  PROVE  ThreadsSafe'
<1>t. Typed /\ Linked /\ Held /\ ThreadsTyped
  BY DEF Inv, Typed
<1> SUFFICES ASSUME NEW s \in Threads, pc'[s] # "idle", Alone(s)'
             PROVE  Safe(s)'
  BY DEF ThreadsSafe
<1>1. CASE s # t
  <2>1. pc'[s] = pc[s] /\ req'[s] = req[s]
    BY <1>1, <1>t, OthersStay
  <2>2. pc[s] # "idle" /\ Alone(s)
    BY <2>1 DEF Alone
  <2>3. Safe(s)
    BY <2>2 DEF SafeInv, ThreadsSafe
  <2>4. req[s].uri # req[t].uri \/ pc[t] = "idle"
    BY <1>1, <2>2 DEF SafeInv, Apart
  <2>5. Untouched(req[s].uri)
    BY <1>t, <2>4, Frame
  <2> QED
    BY <1>t, <2>1, <2>2, <2>3, <2>5, FrameThread
<1>2. CASE s = t
  <2>1. CASE \E u \in URIs : Request(t, u)
    <3>1. pc'[t] = "lookup" /\ ~req'[t].refill
      BY <1>t, <2>1 DEF Request, Blank, Goto, ThreadsTyped
    <3> QED
      BY <1>2, <3>1 DEF Safe, Looking, Filling, DataPcs, ValPcs, InfoPcs
  <2>2. CASE pc[t] # "idle" /\ req'[t].uri = req[t].uri
    <3>1. Alone(t)
      BY <1>2, <2>2 DEF Alone
    <3> QED
      BY <1>2, <2>2, <3>1, OwnStep
  <2> QED
    BY <1>2, <1>t, <2>1, <2>2, UriStays
<1> QED
  BY <1>1, <1>2

\* Neither a new version at the origin nor the clock touches the cache.
LEMMA WorldSafe ==
  ASSUME Typed, SafeInv, (\E u \in URIs : Publish(u)) \/ Tick \/ UNCHANGED vars
  PROVE  SafeInv'
<1>0. /\ MAP' = MAP /\ nodes' = nodes /\ vals' = vals /\ infos' = infos /\ tags' = tags
      /\ freed' = freed /\ pc' = pc /\ req' = req /\ shared' = shared
  BY DEF Publish, Tick, vars, lists, memory
<1>1. Past'
  <2>1. \A u \in URIs : origin[u] \in Nat /\ origin[u] <= origin'[u] /\ origin'[u] \in Nat
    <3>1. origin \in [URIs -> Nat]
      BY DEF Typed, WorldTyped
    <3>2. CASE \E u \in URIs : Publish(u)
      BY <3>1, <3>2 DEF Publish
    <3>3. CASE origin' = origin
      BY <3>1, <3>3
    <3> QED
      BY <3>2, <3>3 DEF Tick, vars, world
  <2>2. ASSUME NEW i \in DOMAIN vals PROVE vals[i].version <= origin'[vals[i].uri]
    <3>1. vals[i].uri \in URIs /\ vals[i].version \in Nat
      BY ObjectsTyped DEF ResponseType
    <3>2. vals[i].version <= origin[vals[i].uri]
      BY DEF SafeInv, Past
    <3> QED
      BY <2>1, <3>1, <3>2
  <2>3. ASSUME NEW i \in DOMAIN tags PROVE tags[i].version <= origin'[tags[i].uri]
    <3>1. tags[i].uri \in URIs /\ tags[i].version \in Nat
      BY ObjectsTyped DEF TagType
    <3>2. tags[i].version <= origin[tags[i].uri]
      BY DEF SafeInv, Past
    <3> QED
      BY <2>1, <3>1, <3>2
  <2> QED
    BY <1>0, <2>2, <2>3 DEF Past
<1>2. Allocated' /\ Apart'
  BY <1>0 DEF SafeInv, Allocated, Apart, Alone
<1>3. NodesSafe'
  BY <1>0 DEF SafeInv, NodesSafe, NodeFit, InfoLive, TagFits, Fits, Live, Renewing, Swapping
<1>4. ThreadsSafe'
  <2> SUFFICES ASSUME NEW t \in Threads, pc'[t] # "idle", Alone(t)' PROVE Safe(t)'
    BY DEF ThreadsSafe
  <2>1. pc[t] # "undefined" /\ Looking(t) /\ Filling(t)
    BY <1>0 DEF SafeInv, ThreadsSafe, Safe, Alone
  <2>2. Looking(t)'
    BY <1>0, <2>1 DEF Looking, Node
  <2>3. Filling(t)'
    BY <1>0, <2>1 DEF Filling, Node, InfoLive, Live, Fits, TagFits
  <2> QED
    BY <1>0, <2>1, <2>2, <2>3 DEF Safe
<1> QED
  BY <1>1, <1>2, <1>3, <1>4 DEF SafeInv

\* Nothing is there at the start, and nobody.
LEMMA SafeInit == Init => SafeInv
<1> SUFFICES ASSUME Init PROVE SafeInv
  OBVIOUS
<1>1. DOMAIN nodes = {} /\ DOMAIN vals = {} /\ DOMAIN tags = {} /\ freed = {}
  BY DEF Init
<1>2. \A t \in Threads : pc[t] = "idle"
  BY DEF Init
<1> QED
  BY <1>1, <1>2 DEF SafeInv, Allocated, Past, Apart, NodesSafe, ThreadsSafe

\* SafeInv is inductive, relative to what holds for shared URIs too.
LEMMA SafeStep == Inv /\ SafeInv /\ [Next]_vars => SafeInv'
<1> SUFFICES ASSUME Inv, SafeInv, [Next]_vars PROVE SafeInv'
  OBVIOUS
<1>1. ASSUME NEW t \in Threads, Serve(t) PROVE SafeInv'
  BY <1>1, ApartStep, AllocatedStep, PastStep, NodesSafeStep, ThreadsSafeStep DEF SafeInv
<1>2. CASE (\E u \in URIs : Publish(u)) \/ Tick \/ UNCHANGED vars
  BY <1>2, WorldSafe DEF Inv
<1> QED
  BY <1>1, <1>2 DEF Next

\* In every state, what is at hand for a URI that is not shared is as a thread may take it.
THEOREM SafeInvariant == Spec => [](Inv /\ SafeInv)
<1>1. Init => Inv /\ SafeInv
  BY InvInit, SafeInit
<1>2. Inv /\ SafeInv /\ [Next]_vars => (Inv /\ SafeInv)'
  BY InvStep, SafeStep
<1> QED
  BY <1>1, <1>2, PTL DEF Spec

-----------------------------------------------------------------------------
(* What follows *)

\* cacheable(), getRevalidation() and put() follow no pointer to memory that was freed,
\* and free none twice, for a URI that is not served twice at once.
THEOREM NoFreedMemory == Spec => []NoFreedMemoryUsed
<1>1. Inv /\ SafeInv => NoFreedMemoryUsed
  BY DEF NoFreedMemoryUsed, SafeInv, ThreadsSafe, Safe
<1> QED
  BY SafeInvariant, <1>1, PTL

\* A HIT sends a response to its URI that may be kept, that needs no asking, and that had not
\* expired when cacheable() looked.
THEOREM FreshHit == Spec => []HitIsFresh
<1>1. Inv /\ SafeInv => HitIsFresh
  <2> SUFFICES ASSUME Inv, SafeInv, NEW t \in Threads, pc[t] = "send", Alone(t)
               PROVE  LET v == vals[req[t].data]
                      IN  v.uri = req[t].uri /\ v.store /\ ~v.reval /\ req[t].asked < v.until
    BY DEF HitIsFresh
  <2>1. vals[req[t].data].uri = req[t].uri
    BY DEF Inv, Held, HeldBy, DataPcs
  <2>2. Looking(t)
    BY DEF SafeInv, ThreadsSafe, Safe
  <2> QED
    BY <2>1, <2>2 DEF Looking
<1> QED
  BY SafeInvariant, <1>1, PTL

\* The data at hand after a 304 is there, and is the version the origin has confirmed.
THEOREM UsableAlone == Spec => []UsableIfAlone
<1>1. Inv /\ SafeInv => UsableIfAlone
  <2> SUFFICES ASSUME Inv, SafeInv, NEW t \in Threads, pc[t] = "resend", Alone(t)
               PROVE  Usable(t)
    BY DEF UsableIfAlone
  <2>1. Looking(t) /\ Typed /\ Linked /\ Held
    BY DEF SafeInv, ThreadsSafe, Safe, Inv
  <2>2. req[t].data = Node(t).val /\ vals[req[t].data].version = req[t].confirmed
    BY <2>1 DEF Looking, DataPcs
  <2>3. req[t].node \in DOMAIN nodes /\ nodes[req[t].node].key = req[t].uri
    BY DEF Inv, Held, HeldBy, NodePcs
  <2>4. Live("val", Node(t).val)
    BY <2>3, OwnNode DEF SafeInv, NodeFit, Node
  <2> QED
    BY <2>2, <2>4 DEF Usable
<1> QED
  BY SafeInvariant, <1>1, PTL

\* put() never replaces a response by an older one, for a URI that is not served twice at
\* once.
THEOREM RefillNewer == Spec => RefillIsNewer
<1>1. ASSUME Inv, SafeInv, [Next]_vars
      PROVE  \A n \in DOMAIN nodes : nodes[n].key \notin shared' =>
               vals[nodes[n].val].version <= vals[nodes'[n].val].version
  <2> SUFFICES ASSUME NEW n \in DOMAIN nodes, nodes[n].key \notin shared'
               PROVE  vals[nodes[n].val].version <= vals[nodes'[n].val].version
    OBVIOUS
  <2>t. Typed /\ Linked /\ Held /\ ThreadsTyped
    BY <1>1 DEF Inv, Typed
  <2>0. vals[nodes[n].val].version \in Nat
    BY <2>t, ObjectsTyped DEF Linked, ResponseType
  <2>1. ASSUME NEW t \in Threads, Serve(t)
        PROVE  vals[nodes[n].val].version <= vals[nodes'[n].val].version
    <3>1. CASE nodes[n].key = req[t].uri /\ pc[t] # "idle"
      <4>1. Alone(t)
        BY <1>1, <2>1, <3>1, ApartStep DEF SafeInv, Alone
      <4> QED
        BY <1>1, <2>1, <3>1, <4>1, OwnStep
    <3>2. CASE ~(nodes[n].key = req[t].uri /\ pc[t] # "idle")
      <4>1. nodes'[n] = nodes[n]
        BY <2>1, <2>t, <3>2, Frame DEF Untouched
      <4> QED
        BY <2>0, <4>1
    <3> QED
      BY <3>1, <3>2
  <2>2. CASE (\E u \in URIs : Publish(u)) \/ Tick \/ UNCHANGED vars
    BY <2>0, <2>2 DEF Publish, Tick, vars, lists
  <2> QED
    BY <1>1, <2>1, <2>2 DEF Next
<1>2. Inv /\ SafeInv /\ [Next]_vars =>
        [\A n \in DOMAIN nodes : nodes[n].key \notin shared' =>
           vals[nodes[n].val].version <= vals[nodes'[n].val].version]_vars
  BY <1>1
<1> QED
  BY SafeInvariant, <1>2, PTL DEF Spec, RefillIsNewer

-----------------------------------------------------------------------------
(* The lock *)

\* Who holds cacheLock is inside put(), on the way to giving it back, unless it followed
\* a freed pointer there.
LockOwned ==
  \A t \in Threads : cacheLock = t => pc[t] \in {"insert", "update", "swap", "undefined"}

\* A step keeps it so.
LEMMA LockOwnedStep ==
  ASSUME ThreadsTyped, LockOwned, NEW t \in Threads, Serve(t)
  PROVE  LockOwned'
<1> SUFFICES ASSUME NEW s \in Threads, cacheLock' = s
             PROVE  pc'[s] \in {"insert", "update", "swap", "undefined"}
  BY DEF LockOwned
<1>0. s # Nobody
  BY CacheAssumption
<1>1. CASE cacheLock = s /\ s # t
  BY <1>1, OthersStay DEF LockOwned
<1>2. CASE cacheLock = s /\ s = t
  <2>1. pc[t] \in {"insert", "update", "swap", "undefined"}
    BY <1>2 DEF LockOwned
  <2>2. UpdateVal(t) \/ UpdateInfo(t)
    <3>1. ~Looks(t)
      BY <2>1 DEF Looks, Request, Lookup, GetTime, CopyTime, TestExpiry, TestReval, CopyPointer,
         Send, ReadTag, NotModified, ReadsFreedTag, EvalArgs, NotKept, CopyExpiry, PutLock
    <3>2. ~(\E p \in Policies : Modified(t, p) \/ Fetch(t, p)) /\ ~ReplaceTag(t)
      <4>1. ASSUME NEW p \in Policies, Modified(t, p) PROVE pc[t] = "ask"
        BY <4>1 DEF Modified
      <4>2. ASSUME NEW p \in Policies, Fetch(t, p) PROVE pc[t] = "forward"
        BY <4>2 DEF Fetch
      <4>3. ASSUME ReplaceTag(t) PROVE pc[t] = "replace"
        BY <4>3 DEF ReplaceTag
      <4> QED
        BY <2>1, <4>1, <4>2, <4>3
    <3>3. ~Insert(t)
      BY <1>0 DEF Insert
    <3> QED
      BY <3>1, <3>2, <3>3, LooksOrWrites DEF Writes
  <2>3. CASE UpdateVal(t)
    BY <1>2, <2>3 DEF UpdateVal, GotoIf, Goto, ThreadsTyped
  <2>4. CASE UpdateInfo(t)
    <3>1. Goto(t, "undefined")
      BY <1>0, <2>4 DEF UpdateInfo
    <3> QED
      BY <1>2, <3>1 DEF Goto, ThreadsTyped
  <2> QED
    BY <2>2, <2>3, <2>4
<1>3. CASE cacheLock # s
  <2>1. s = t /\ pc[t] = "put" /\ cacheLock' = t
    BY <1>0, <1>3, LockChanges
  <2>2. PutLock(t)
    BY <1>0, <1>3, <2>1
    DEF Serve, Request, Lookup, GetTime, CopyTime, TestExpiry, TestReval, CopyPointer, Send,
        ReadTag, NotModified, ReadsFreedTag, EvalArgs, NotKept, CopyExpiry, Modified,
        Fetch, ReplaceTag, Insert, UpdateVal, UpdateInfo
  <2> QED
    BY <2>1, <2>2 DEF PutLock, Goto, ThreadsTyped
<1> QED
  BY <1>1, <1>2, <1>3

\* cacheLock is held only inside put(), between its lock and its unlock, where the thread
\* waits for nothing; a thread that keeps it has followed a pointer that was freed, for a
\* URI that was served twice at once.
THEOREM LockHeldInPut ==
  Spec => [](\A t \in Threads : cacheLock = t =>
               \/ pc[t] \in {"insert", "update", "swap"}
               \/ pc[t] = "undefined" /\ ~Alone(t))
<1> DEFINE P == \A t \in Threads : cacheLock = t =>
                  \/ pc[t] \in {"insert", "update", "swap"}
                  \/ pc[t] = "undefined" /\ ~Alone(t)
<1>1. Init => LockOwned
  BY CacheAssumption DEF Init, LockOwned
<1>2. Inv /\ LockOwned /\ [Next]_vars => LockOwned'
  <2> SUFFICES ASSUME Inv, LockOwned, [Next]_vars PROVE LockOwned'
    OBVIOUS
  <2>1. CASE \E t \in Threads : Serve(t)
    BY <2>1, LockOwnedStep DEF Inv, Typed
  <2>2. CASE (\E u \in URIs : Publish(u)) \/ Tick \/ UNCHANGED vars
    BY <2>2 DEF Publish, Tick, vars, LockOwned
  <2> QED
    BY <2>1, <2>2 DEF Next
<1>3. LockOwned /\ NoFreedMemoryUsed => P
  BY DEF LockOwned, NoFreedMemoryUsed
<1> QED
  BY <1>1, <1>2, <1>3, Invariant, NoFreedMemory, PTL DEF Spec

-----------------------------------------------------------------------------
(* What may be kept *)

\* What put() is given may be stored, unless it is the answer to a revalidation; and that
\* answer is for a URI that has its node.
Storable ==
  \A t \in Threads :
    /\ pc[t] \in ValPcs /\ ~req[t].refill => vals[req[t].val].store
    /\ req[t].refill => \E n \in DOMAIN nodes : nodes[n].key = req[t].uri

\* put() replaces the data by the answer to a revalidation.
Refill(t) == UpdateVal(t) /\ req[t].refill

\* What a step leaves of a request, and of what it refills.
LEMMA RefillKinds ==
  ASSUME Typed, NEW t \in Threads, Serve(t)
  PROVE  \/ req'[t].refill = FALSE /\ pc'[t] \notin ValPcs
         \/ /\ req'[t].refill = req[t].refill /\ req'[t].uri = req[t].uri
            /\ \/ pc'[t] \notin ValPcs
               \/ pc[t] \in ValPcs /\ req'[t].val = req[t].val
               \/ \E p \in Policies : Fetch(t, p)
         \/ pc[t] = "ask" /\ req'[t].refill /\ req'[t].uri = req[t].uri
<1> USE DEF Goto, GotoIf, Finish, ThreadsTyped, Locals, Typed, ValPcs
<1>1. CASE Looks(t)
  BY <1>1 DEF Looks, Request, Lookup, GetTime, CopyTime, TestExpiry, TestReval, CopyPointer,
     Send, ReadTag, NotModified, ReadsFreedTag, EvalArgs, NotKept, CopyExpiry, PutLock, Blank
<1>2. ASSUME NEW p \in Policies, Modified(t, p) PROVE pc[t] = "ask" /\ req'[t].refill
                                                      /\ req'[t].uri = req[t].uri
  <2>v. PICK v, g : v = Len(vals') /\ g = (IF p.tag THEN Len(tags') ELSE NULL)
    OBVIOUS
  <2>1. req'[t] = [req[t] EXCEPT !.val = v, !.newTag = g, !.refill = TRUE]
    BY <1>2, <2>v DEF Modified
  <2>2. pc[t] = "ask"
    BY <1>2 DEF Modified
  <2> QED
    BY <2>1, <2>2
<1>3. ASSUME NEW p \in Policies, Fetch(t, p)
      PROVE  req'[t].refill = req[t].refill /\ req'[t].uri = req[t].uri
  <2>v. PICK v, i : v = Len(vals') /\ i = Len(infos')
    OBVIOUS
  <2>1. req'[t] = [req[t] EXCEPT !.val = v, !.info = i]
    BY <1>3, <2>v DEF Fetch
  <2> QED
    BY <2>1
<1>4. CASE ReplaceTag(t) \/ UpdateVal(t)
  <2>1. pc[t] \in ValPcs /\ req' = req
    BY <1>4 DEF ReplaceTag, UpdateVal
  <2> QED
    BY <2>1
<1>5. CASE Insert(t)
  BY <1>5 DEF Insert, Blank
<1>6. CASE UpdateInfo(t)
  <2>1. \/ pc'[t] = "idle" /\ req'[t] = Blank(NULL)
        \/ pc'[t] = "undefined" /\ req' = req
    BY <1>6 DEF UpdateInfo
  <2> QED
    BY <2>1 DEF Blank
<1> QED
  BY <1>1, <1>2, <1>3, <1>4, <1>5, <1>6, LooksOrWrites DEF Writes

\* What Fetch makes may be stored: forwardRequest() has looked at its headers.
LEMMA FetchedStorable ==
  ASSUME Typed, NEW t \in Threads, NEW p \in Policies, Fetch(t, p), req[t].uri \in URIs
  PROVE  vals'[req'[t].val].store
<1>1. p.store /\ vals' = Append(vals, Response(req[t].uri, p)) /\ req'[t].val = Len(vals')
  BY DEF Fetch, Typed, ThreadsTyped, Locals
<1>2. vals \in Seq(ResponseType) /\ Response(req[t].uri, p) \in ResponseType
  BY NewObjects DEF Typed, MemoryTyped
<1>3. vals'[req'[t].val] = Response(req[t].uri, p)
  BY <1>1, <1>2, AppendFacts
<1> QED
  BY <1>1, <1>3 DEF Response

\* Every step keeps it.
LEMMA StorableStep ==
  ASSUME Inv, Storable, NEW t \in Threads, Serve(t)
  PROVE  Storable'
<1>t. Typed /\ Linked /\ Held /\ ThreadsTyped /\ Grows
  BY Effect DEF Inv, Typed
<1>n. ASSUME NEW u, \E n \in DOMAIN nodes : nodes[n].key = u
      PROVE  \E n \in DOMAIN nodes' : nodes'[n].key = u
  BY <1>t, <1>n DEF Grows
<1>v. ASSUME NEW s \in Threads, pc[s] \in ValPcs, ~req[s].refill
      PROVE  vals'[req[s].val].store
  BY <1>t, <1>v DEF Storable, Held, HeldBy, Grows
<1>1. ASSUME NEW s \in Threads, s # t
      PROVE  /\ pc'[s] \in ValPcs /\ ~req'[s].refill => vals'[req'[s].val].store
             /\ req'[s].refill => \E n \in DOMAIN nodes' : nodes'[n].key = req'[s].uri
  <2>1. pc'[s] = pc[s] /\ req'[s] = req[s]
    BY <1>1, <1>t, OthersStay
  <2> QED
    BY <1>n, <1>v, <2>1 DEF Storable
<1>2. /\ pc'[t] \in ValPcs /\ ~req'[t].refill => vals'[req'[t].val].store
      /\ req'[t].refill => \E n \in DOMAIN nodes' : nodes'[n].key = req'[t].uri
  <2>1. CASE req'[t].refill = FALSE /\ pc'[t] \notin ValPcs
    BY <2>1
  <2>2. CASE req'[t].refill = req[t].refill /\ req'[t].uri = req[t].uri
             /\ (pc'[t] \notin ValPcs \/ (pc[t] \in ValPcs /\ req'[t].val = req[t].val))
    BY <1>n, <1>v, <2>2 DEF Storable
  <2>3. ASSUME NEW p \in Policies, Fetch(t, p),
               req'[t].refill = req[t].refill, req'[t].uri = req[t].uri
        PROVE  /\ vals'[req'[t].val].store
               /\ req'[t].refill => \E n \in DOMAIN nodes' : nodes'[n].key = req'[t].uri
    <3>1. req[t].uri \in URIs
      BY <1>t, <2>3 DEF Fetch, Held, HeldBy
    <3> QED
      BY <1>t, <1>n, <2>3, <3>1, FetchedStorable DEF Storable
  <2>4. CASE pc[t] = "ask" /\ req'[t].refill /\ req'[t].uri = req[t].uri
    <3>1. \E n \in DOMAIN nodes : nodes[n].key = req[t].uri
      BY <1>t, <2>4 DEF Held, HeldBy, NodePcs
    <3> QED
      BY <1>n, <2>4, <3>1
  <2> QED
    BY <1>t, <2>1, <2>2, <2>3, <2>4, RefillKinds
<1> QED
  BY <1>1, <1>2 DEF Storable

\* What the code does look at: only the answer to a revalidation puts data into the cache
\* that may not be stored; forwardRequest() and a first put() never do.
THEOREM OnlyRefillsBreak ==
  Spec => [][OnlyStorableKept => OnlyStorableKept' \/ \E t \in Threads : Refill(t)]_vars
<1>1. Init => Storable
  BY DEF Init, Storable, Blank, ValPcs
<1>w. ASSUME (\E u \in URIs : Publish(u)) \/ Tick \/ UNCHANGED vars
      PROVE  UNCHANGED <<nodes, vals, pc, req>>
  BY <1>w DEF Publish, Tick, vars, lists, memory
<1>2. Inv /\ Storable /\ [Next]_vars => Storable'
  <2> SUFFICES ASSUME Inv, Storable, [Next]_vars PROVE Storable'
    OBVIOUS
  <2>1. CASE \E t \in Threads : Serve(t)
    BY <2>1, StorableStep
  <2>2. CASE UNCHANGED <<nodes, vals, pc, req>>
    BY <2>2 DEF Storable
  <2> QED
    BY <1>w, <2>1, <2>2 DEF Next
<1>3. Inv /\ Storable /\ [Next]_vars
      => [OnlyStorableKept => OnlyStorableKept' \/ \E t \in Threads : Refill(t)]_vars
  <2> SUFFICES ASSUME Inv, Storable, Next, OnlyStorableKept,
                      \A t \in Threads : ~Refill(t),
                      NEW n \in DOMAIN nodes'
               PROVE  vals'[nodes'[n].val].store
    BY DEF OnlyStorableKept
  <2>1. ASSUME NEW t \in Threads, Serve(t) PROVE vals'[nodes'[n].val].store
    <3>t. Typed /\ Linked /\ Held /\ ThreadsTyped /\ Grows
      BY <2>1, Effect DEF Inv, Typed
    <3>1. ASSUME n \in DOMAIN nodes, nodes'[n].val = nodes[n].val
          PROVE  vals'[nodes'[n].val].store
      BY <3>t, <3>1 DEF OnlyStorableKept, Linked, Grows
    <3>2. CASE UpdateVal(t)
      <4>1. ~req[t].refill /\ pc[t] \in ValPcs /\ vals' = vals /\ vals[req[t].val].store
        BY <3>2 DEF Refill, UpdateVal, Storable, ValPcs, memory
      <4>2. nodes' = [nodes EXCEPT ![req[t].node].val = req[t].val]
        BY <3>2 DEF UpdateVal
      <4>3. n \in DOMAIN nodes /\ nodes[n] \in NodeType
        BY <4>2, <3>t, ObjectsTyped
      <4>4. nodes'[n].val = req[t].val \/ nodes'[n].val = nodes[n].val
        BY <4>2, <4>3 DEF NodeType
      <4> QED
        BY <3>1, <4>1, <4>3, <4>4
    <3>3. CASE Insert(t)
      <4>1. ~req[t].refill /\ pc[t] = "insert"
        BY <2>1, <3>3 DEF Insert, Inv, Locked, Storable
      <4>2. vals' = vals /\ vals[req[t].val].store
        BY <3>3, <4>1 DEF Insert, Storable, ValPcs, memory
      <4>3. n \in DOMAIN nodes \/ nodes'[n] = makeNode(t)
        BY <3>t, <3>3, Inserted
      <4>4. CASE n \in DOMAIN nodes
        BY <3>1, <3>t, <3>3, <4>4, Inserted
      <4> QED
        BY <4>2, <4>3, <4>4 DEF makeNode
    <3>4. CASE ~UpdateVal(t) /\ ~Insert(t)
      <4>1. n \in DOMAIN nodes
        BY <2>1, <3>t, <3>4, OnlyInsert
      <4> QED
        BY <2>1, <3>1, <3>4, <3>t, <4>1, DataStays
    <3> QED
      BY <3>2, <3>3, <3>4
  <2>2. CASE UNCHANGED <<nodes, vals, pc, req>>
    BY <2>2 DEF OnlyStorableKept
  <2> QED
    BY <1>w, <2>1, <2>2 DEF Next
<1> QED
  BY <1>1, <1>2, <1>3, Invariant, PTL DEF Spec
=============================================================================
