------------------------------ MODULE Dispatch ------------------------------
(***************************************************************************)
(* What the thread pool promises: a connection that has arrived waits      *)
(* until one server takes it, is served by that server alone, and is then  *)
(* gone.  Which waiting connection a server takes is not said.  Stopping   *)
(* ends the arrivals and the taking; what is being served is finished      *)
(* before the shared data goes, what still waits is dropped.               *)
(***************************************************************************)
EXTENDS Naturals

CONSTANTS
  Conns,    \* the connections
  Servers,  \* the threads that serve them
  None      \* what an idle server holds

VARIABLES
  waiting,  \* the connections no server has taken yet
  held,     \* what each server is serving
  phase     \* how far the shutdown is

vars == <<waiting, held, phase>>

Busy == {s \in Servers : held[s] # None}
Held == {held[s] : s \in Busy}

Init ==
  /\ waiting = {}
  /\ held = [s \in Servers |-> None]
  /\ phase = "open"

Arrive(c) ==
  /\ phase = "open"
  /\ c \notin waiting \cup Held
  /\ waiting' = waiting \cup {c}
  /\ UNCHANGED <<held, phase>>

Take(s, c) ==
  /\ phase = "open" /\ held[s] = None
  /\ c \in waiting
  /\ waiting' = waiting \ {c}
  /\ held' = [held EXCEPT ![s] = c]
  /\ UNCHANGED phase

Done(s) ==
  /\ phase \in {"open", "draining"} /\ held[s] # None
  /\ held' = [held EXCEPT ![s] = None]
  /\ UNCHANGED <<waiting, phase>>

Stop == phase = "open" /\ phase' = "draining" /\ UNCHANGED <<waiting, held>>

Drained ==
  /\ phase = "draining" /\ Busy = {}
  /\ phase' = "drained"
  /\ UNCHANGED <<waiting, held>>

Die == phase' = "dead" /\ UNCHANGED <<waiting, held>>

Next ==
  \/ \E c \in Conns : Arrive(c)
  \/ \E s \in Servers, c \in Conns : Take(s, c)
  \/ \E s \in Servers : Done(s)
  \/ Stop \/ Drained \/ Die

Spec == Init /\ [][Next]_vars
=============================================================================
