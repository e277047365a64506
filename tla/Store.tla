-------------------------------- MODULE Store --------------------------------
(***************************************************************************)
(* What the cache promises: for each URI it has nothing, or one response   *)
(* that was fetched for that URI; an entry is replaced and never dropped,  *)
(* and nothing that is done for one URI touches the entry of another.      *)
(***************************************************************************)
EXTENDS Naturals

CONSTANT URIs

VARIABLES
  fetched, \* the responses that were received, each with the uri it is for
  entry    \* the response kept for each URI, if there is one

vars == <<fetched, entry>>

Init == fetched = {} /\ entry = [u \in URIs |-> {}]

\* A response is received: it may be equal to an earlier one.
Fetch ==
  /\ fetched \subseteq fetched'
  /\ \A r, q \in fetched' \ fetched : r = q
  /\ \A r \in fetched' : r.uri \in URIs
  /\ UNCHANGED entry

Keep(u) ==
  /\ \E r \in fetched : r.uri = u /\ entry' = [entry EXCEPT ![u] = {r}]
  /\ UNCHANGED fetched

Next == Fetch \/ \E u \in URIs : Keep(u)

Spec == Init /\ [][Next]_vars
=============================================================================
