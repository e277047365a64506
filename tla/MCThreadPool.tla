---------------------------- MODULE MCThreadPool ----------------------------
(* Small instances of ThreadPool for TLC. *)
EXTENDS ThreadPool, TLC

CONSTANTS w1, w2, w3

ThreeWorkers == {w1, w2, w3}
WorkerSymmetry == Permutations(Workers)

AnyPoint == MainPcs
UnlockedPoints == {"listen", "accept", "push"}
NoCond == {}
BothConds == {"stack", "exit"}
=============================================================================
