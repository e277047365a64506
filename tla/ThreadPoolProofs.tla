-------------------------- MODULE ThreadPoolProofs --------------------------
(***************************************************************************)
(* Theorems about the thread pool, for any number of pool threads and      *)
(* descriptors, any signals and any spurious wake-ups.                     *)
(*                                                                         *)
(* Each conjunct of the inductive invariant IInv has a lemma: a step keeps *)
(* it.  Together they give Invariance, and from it the safety properties,  *)
(* that the pool implements Dispatch, when it can come to a stop, and that *)
(* its steps do not go round: each takes the pool nearer to its rest.      *)
(***************************************************************************)
EXTENDS ThreadPool, FiniteSetTheorems, SequenceTheorems, TLAPS

\* The initial state is well typed: each thread starts at a point of its code.
LEMMA TypeOKInit == Init => TypeOK
<1> SUFFICES ASSUME Init PROVE TypeOK
  OBVIOUS
<1> USE PoolAssumption DEF Init, Threads, PcOf, MainPcs, WorkerPcs, HandlerPcs
<1>1. \A t \in Threads : pc[t] \in PcOf(t)
  OBVIOUS
<1>2. pc \in [Threads -> MainPcs \cup WorkerPcs \cup HandlerPcs \cup {"log"}]
  OBVIOUS
<1>3. stack \in Seq(Fds)
  OBVIOUS
<1>4. fd \in [Threads -> Fds \cup {NoFd}]
  OBVIOUS
<1>5. 0 \in 0 .. MaxSigints
  OBVIOUS
<1> QED
  BY <1>1, <1>2, <1>3, <1>4, <1>5 DEF TypeOK

\* A step keeps every variable in its type.
LEMMA TypeOKStep == TypeOK /\ FdHeld /\ [Next]_vars => TypeOK'
<1> SUFFICES ASSUME TypeOK, FdHeld, [Next]_vars PROVE TypeOK'
  OBVIOUS
<1> USE PoolAssumption DEF TypeOK, Goto, locks, waiters, life, InHandler
<1>1. ASSUME NEW w \in Workers, Spawn(w) PROVE TypeOK'
  BY <1>1 DEF Spawn, Threads, PcOf, MainPcs, WorkerPcs, HandlerPcs
<1>2. ASSUME Listen PROVE TypeOK'
  BY <1>2 DEF Listen, Threads, PcOf, MainPcs, WorkerPcs, HandlerPcs
<1>3. ASSUME NEW c \in Fds, Accept(c) PROVE TypeOK'
  BY <1>3 DEF Accept, Threads, PcOf, MainPcs, WorkerPcs, HandlerPcs
<1>4. ASSUME MainFails PROVE TypeOK'
  BY <1>4 DEF MainFails, Threads, PcOf, MainPcs, WorkerPcs, HandlerPcs
<1>5. ASSUME PushLock PROVE TypeOK'
  BY <1>5 DEF PushLock, Threads, PcOf, MainPcs, WorkerPcs, HandlerPcs
<1>6. ASSUME Push PROVE TypeOK'
  <2>1. fd[Main] \in Fds
    BY <1>6 DEF Push, FdHeld, Threads, HandlerPcs
  <2>2. stack' \in Seq(Fds)
    BY <2>1, <1>6 DEF Push
  <2> QED
    BY <2>1, <2>2, <1>6 DEF Push, SignalStack, Threads, PcOf, MainPcs, WorkerPcs, HandlerPcs
<1>7. ASSUME NEW w \in Workers, LoopTest(w) PROVE TypeOK'
  BY <1>7 DEF LoopTest, Threads, PcOf, MainPcs, WorkerPcs, HandlerPcs
<1>8. ASSUME NEW w \in Workers, Lock(w) PROVE TypeOK'
  BY <1>8 DEF Lock, Threads, PcOf, MainPcs, WorkerPcs, HandlerPcs
<1>9. ASSUME NEW w \in Workers, Sleep(w) PROVE TypeOK'
  BY <1>9 DEF Sleep, Threads, PcOf, MainPcs, WorkerPcs, HandlerPcs
<1>10. ASSUME NEW w \in Workers, Wake(w) PROVE TypeOK'
  BY <1>10 DEF Wake, Threads, PcOf, MainPcs, WorkerPcs, HandlerPcs
<1>11. ASSUME NEW w \in Workers, Take(w) PROVE TypeOK'
  <2>1. Head(stack) \in Fds /\ Tail(stack) \in Seq(Fds)
    BY <1>11, HeadTailProperties DEF Take, StackEmpty
  <2> QED
    BY <2>1, <1>11 DEF Take, Threads, PcOf, MainPcs, WorkerPcs, HandlerPcs
<1>12. ASSUME NEW w \in Workers, Leave(w) PROVE TypeOK'
  BY <1>12 DEF Leave, Threads, PcOf, MainPcs, WorkerPcs, HandlerPcs
<1>13. ASSUME NEW w \in Workers, Finish(w) PROVE TypeOK'
  BY <1>13 DEF Finish, Threads, PcOf, MainPcs, WorkerPcs, HandlerPcs
<1>14. ASSUME NEW w \in Workers, Killed(w) PROVE TypeOK'
  BY <1>14 DEF Killed, Threads, PcOf, MainPcs, WorkerPcs, HandlerPcs
<1>15. ASSUME NEW w \in Workers, ExitLock(w) PROVE TypeOK'
  BY <1>15 DEF ExitLock, Threads, PcOf, MainPcs, WorkerPcs, HandlerPcs
<1>16. ASSUME NEW w \in Workers, IncrExit(w) PROVE TypeOK'
  BY <1>16 DEF IncrExit, Threads, PcOf, MainPcs, WorkerPcs, HandlerPcs
<1>17. ASSUME NEW t \in Threads, SpuriousWake(t) PROVE TypeOK'
  BY <1>17 DEF SpuriousWake, Threads, PcOf, MainPcs, WorkerPcs, HandlerPcs
<1>18. ASSUME NEW t \in Threads, SigInt(t) PROVE TypeOK'
  BY <1>18 DEF SigInt, Threads, PcOf, MainPcs, WorkerPcs, HandlerPcs
<1>19. ASSUME NEW t \in Threads, QuitLock(t) PROVE TypeOK'
  BY <1>19 DEF QuitLock, Threads, PcOf, MainPcs, WorkerPcs, HandlerPcs
<1>20. ASSUME NEW t \in Threads, QuitStop(t) PROVE TypeOK'
  BY <1>20 DEF QuitStop, Threads, PcOf, MainPcs, WorkerPcs, HandlerPcs
<1>21. ASSUME NEW t \in Threads, QuitSleep(t) PROVE TypeOK'
  BY <1>21 DEF QuitSleep, Threads, PcOf, MainPcs, WorkerPcs, HandlerPcs
<1>22. ASSUME NEW t \in Threads, QuitWake(t) PROVE TypeOK'
  BY <1>22 DEF QuitWake, Threads, PcOf, MainPcs, WorkerPcs, HandlerPcs
<1>23. ASSUME NEW t \in Threads, FreeAll(t) PROVE TypeOK'
  BY <1>23 DEF FreeAll, Threads, PcOf, MainPcs, WorkerPcs, HandlerPcs
<1>24. ASSUME NEW t \in Threads, Exit(t) PROVE TypeOK'
  BY <1>24 DEF Exit, Threads, PcOf, MainPcs, WorkerPcs, HandlerPcs
<1>25. ASSUME UNCHANGED vars PROVE TypeOK'
  BY <1>25 DEF vars, Threads, PcOf, MainPcs, WorkerPcs, HandlerPcs
<1> QED
  BY <1>1, <1>2, <1>3, <1>4, <1>5, <1>6, <1>7, <1>8, <1>9, <1>10, <1>11, <1>12, <1>13,
     <1>14, <1>15, <1>16, <1>17, <1>18, <1>19, <1>20, <1>21, <1>22, <1>23, <1>24, <1>25
  DEF Next, Step, Exited, MainStep, Arrival, Death, WorkerStep, QuitStep

\* A step keeps the mutexes with the threads that are in a critical section.
LEMMA LocksHeldStep ==
  TypeOK /\ LocksHeld /\ [Next]_vars => LocksHeld'
<1> SUFFICES ASSUME TypeOK, LocksHeld, [Next]_vars PROVE LocksHeld'
  OBVIOUS
<1> USE PoolAssumption DEF TypeOK, Goto, locks, waiters, life, InHandler, Threads, LocksHeld
<1>1. ASSUME NEW w \in Workers, Spawn(w) PROVE LocksHeld'
  BY <1>1 DEF Spawn, MainPcs, WorkerPcs, HandlerPcs
<1>2. ASSUME Listen PROVE LocksHeld'
  BY <1>2 DEF Listen, MainPcs, WorkerPcs, HandlerPcs
<1>3. ASSUME NEW c \in Fds, Accept(c) PROVE LocksHeld'
  BY <1>3 DEF Accept, MainPcs, WorkerPcs, HandlerPcs
<1>4. ASSUME MainFails PROVE LocksHeld'
  BY <1>4 DEF MainFails, MainPcs, WorkerPcs, HandlerPcs
<1>5. ASSUME PushLock PROVE LocksHeld'
  BY <1>5 DEF PushLock, MainPcs, WorkerPcs, HandlerPcs
<1>6. ASSUME Push PROVE LocksHeld'
  BY <1>6 DEF Push, MainPcs, WorkerPcs, HandlerPcs
<1>7. ASSUME NEW w \in Workers, LoopTest(w) PROVE LocksHeld'
  BY <1>7 DEF LoopTest, MainPcs, WorkerPcs, HandlerPcs
<1>8. ASSUME NEW w \in Workers, Lock(w) PROVE LocksHeld'
  BY <1>8 DEF Lock, MainPcs, WorkerPcs, HandlerPcs
<1>9. ASSUME NEW w \in Workers, Sleep(w) PROVE LocksHeld'
  BY <1>9 DEF Sleep, MainPcs, WorkerPcs, HandlerPcs
<1>10. ASSUME NEW w \in Workers, Wake(w) PROVE LocksHeld'
  BY <1>10 DEF Wake, MainPcs, WorkerPcs, HandlerPcs
<1>11. ASSUME NEW w \in Workers, Take(w) PROVE LocksHeld'
  BY <1>11 DEF Take, MainPcs, WorkerPcs, HandlerPcs
<1>12. ASSUME NEW w \in Workers, Leave(w) PROVE LocksHeld'
  BY <1>12 DEF Leave, MainPcs, WorkerPcs, HandlerPcs
<1>13. ASSUME NEW w \in Workers, Finish(w) PROVE LocksHeld'
  BY <1>13 DEF Finish, MainPcs, WorkerPcs, HandlerPcs
<1>14. ASSUME NEW w \in Workers, Killed(w) PROVE LocksHeld'
  BY <1>14 DEF Killed, MainPcs, WorkerPcs, HandlerPcs
<1>15. ASSUME NEW w \in Workers, ExitLock(w) PROVE LocksHeld'
  BY <1>15 DEF ExitLock, MainPcs, WorkerPcs, HandlerPcs
<1>16. ASSUME NEW w \in Workers, IncrExit(w) PROVE LocksHeld'
  BY <1>16 DEF IncrExit, MainPcs, WorkerPcs, HandlerPcs
<1>17. ASSUME NEW t \in Threads, SpuriousWake(t) PROVE LocksHeld'
  BY <1>17 DEF SpuriousWake, MainPcs, WorkerPcs, HandlerPcs
<1>18. ASSUME NEW t \in Threads, SigInt(t) PROVE LocksHeld'
  BY <1>18 DEF SigInt, MainPcs, WorkerPcs, HandlerPcs
<1>19. ASSUME NEW t \in Threads, QuitLock(t) PROVE LocksHeld'
  BY <1>19 DEF QuitLock, MainPcs, WorkerPcs, HandlerPcs
<1>20. ASSUME NEW t \in Threads, QuitStop(t) PROVE LocksHeld'
  BY <1>20 DEF QuitStop, MainPcs, WorkerPcs, HandlerPcs
<1>21. ASSUME NEW t \in Threads, QuitSleep(t) PROVE LocksHeld'
  BY <1>21 DEF QuitSleep, MainPcs, WorkerPcs, HandlerPcs
<1>22. ASSUME NEW t \in Threads, QuitWake(t) PROVE LocksHeld'
  BY <1>22 DEF QuitWake, MainPcs, WorkerPcs, HandlerPcs
<1>23. ASSUME NEW t \in Threads, FreeAll(t) PROVE LocksHeld'
  BY <1>23 DEF FreeAll, MainPcs, WorkerPcs, HandlerPcs
<1>24. ASSUME NEW t \in Threads, Exit(t) PROVE LocksHeld'
  BY <1>24 DEF Exit, MainPcs, WorkerPcs, HandlerPcs
<1>25. ASSUME UNCHANGED vars PROVE LocksHeld'
  BY <1>25 DEF vars, MainPcs, WorkerPcs, HandlerPcs
<1> QED
  BY <1>1, <1>2, <1>3, <1>4, <1>5, <1>6, <1>7, <1>8, <1>9, <1>10, <1>11, <1>12, <1>13,
     <1>14, <1>15, <1>16, <1>17, <1>18, <1>19, <1>20, <1>21, <1>22, <1>23, <1>24, <1>25
  DEF Next, Step, Exited, MainStep, Arrival, Death, WorkerStep, QuitStep

\* A step leaves a thread with a connection exactly where it pushes or serves it.
LEMMA FdHeldStep ==
  TypeOK /\ FdHeld /\ [Next]_vars => FdHeld'
<1> SUFFICES ASSUME TypeOK, FdHeld, [Next]_vars PROVE FdHeld'
  OBVIOUS
<1> USE PoolAssumption DEF TypeOK, Goto, locks, waiters, life, InHandler, Threads, FdHeld
<1>1. ASSUME NEW w \in Workers, Spawn(w) PROVE FdHeld'
  BY <1>1 DEF Spawn, MainPcs, WorkerPcs, HandlerPcs, NoFd
<1>2. ASSUME Listen PROVE FdHeld'
  BY <1>2 DEF Listen, MainPcs, WorkerPcs, HandlerPcs, NoFd
<1>3. ASSUME NEW c \in Fds, Accept(c) PROVE FdHeld'
  BY <1>3 DEF Accept, MainPcs, WorkerPcs, HandlerPcs, NoFd
<1>4. ASSUME MainFails PROVE FdHeld'
  BY <1>4 DEF MainFails, MainPcs, WorkerPcs, HandlerPcs, NoFd
<1>5. ASSUME PushLock PROVE FdHeld'
  BY <1>5 DEF PushLock, MainPcs, WorkerPcs, HandlerPcs, NoFd
<1>6. ASSUME Push PROVE FdHeld'
  BY <1>6 DEF Push, MainPcs, WorkerPcs, HandlerPcs, NoFd
<1>7. ASSUME NEW w \in Workers, LoopTest(w) PROVE FdHeld'
  BY <1>7 DEF LoopTest, MainPcs, WorkerPcs, HandlerPcs, NoFd
<1>8. ASSUME NEW w \in Workers, Lock(w) PROVE FdHeld'
  BY <1>8 DEF Lock, MainPcs, WorkerPcs, HandlerPcs, NoFd
<1>9. ASSUME NEW w \in Workers, Sleep(w) PROVE FdHeld'
  BY <1>9 DEF Sleep, MainPcs, WorkerPcs, HandlerPcs, NoFd
<1>10. ASSUME NEW w \in Workers, Wake(w) PROVE FdHeld'
  BY <1>10 DEF Wake, MainPcs, WorkerPcs, HandlerPcs, NoFd
<1>11. ASSUME NEW w \in Workers, Take(w) PROVE FdHeld'
  <2>1. Head(stack) \in Fds
    BY <1>11, HeadTailProperties DEF Take, StackEmpty
  <2> QED
    BY <2>1, <1>11 DEF Take, MainPcs, WorkerPcs, HandlerPcs, NoFd
<1>12. ASSUME NEW w \in Workers, Leave(w) PROVE FdHeld'
  BY <1>12 DEF Leave, MainPcs, WorkerPcs, HandlerPcs, NoFd
<1>13. ASSUME NEW w \in Workers, Finish(w) PROVE FdHeld'
  BY <1>13 DEF Finish, MainPcs, WorkerPcs, HandlerPcs, NoFd
<1>14. ASSUME NEW w \in Workers, Killed(w) PROVE FdHeld'
  BY <1>14 DEF Killed, MainPcs, WorkerPcs, HandlerPcs, NoFd
<1>15. ASSUME NEW w \in Workers, ExitLock(w) PROVE FdHeld'
  BY <1>15 DEF ExitLock, MainPcs, WorkerPcs, HandlerPcs, NoFd
<1>16. ASSUME NEW w \in Workers, IncrExit(w) PROVE FdHeld'
  BY <1>16 DEF IncrExit, MainPcs, WorkerPcs, HandlerPcs, NoFd
<1>17. ASSUME NEW t \in Threads, SpuriousWake(t) PROVE FdHeld'
  BY <1>17 DEF SpuriousWake, MainPcs, WorkerPcs, HandlerPcs, NoFd
<1>18. ASSUME NEW t \in Threads, SigInt(t) PROVE FdHeld'
  BY <1>18 DEF SigInt, MainPcs, WorkerPcs, HandlerPcs, NoFd
<1>19. ASSUME NEW t \in Threads, QuitLock(t) PROVE FdHeld'
  BY <1>19 DEF QuitLock, MainPcs, WorkerPcs, HandlerPcs, NoFd
<1>20. ASSUME NEW t \in Threads, QuitStop(t) PROVE FdHeld'
  BY <1>20 DEF QuitStop, MainPcs, WorkerPcs, HandlerPcs, NoFd
<1>21. ASSUME NEW t \in Threads, QuitSleep(t) PROVE FdHeld'
  BY <1>21 DEF QuitSleep, MainPcs, WorkerPcs, HandlerPcs, NoFd
<1>22. ASSUME NEW t \in Threads, QuitWake(t) PROVE FdHeld'
  BY <1>22 DEF QuitWake, MainPcs, WorkerPcs, HandlerPcs, NoFd
<1>23. ASSUME NEW t \in Threads, FreeAll(t) PROVE FdHeld'
  BY <1>23 DEF FreeAll, MainPcs, WorkerPcs, HandlerPcs, NoFd
<1>24. ASSUME NEW t \in Threads, Exit(t) PROVE FdHeld'
  BY <1>24 DEF Exit, MainPcs, WorkerPcs, HandlerPcs, NoFd
<1>25. ASSUME UNCHANGED vars PROVE FdHeld'
  BY <1>25 DEF vars, MainPcs, WorkerPcs, HandlerPcs, NoFd
<1> QED
  BY <1>1, <1>2, <1>3, <1>4, <1>5, <1>6, <1>7, <1>8, <1>9, <1>10, <1>11, <1>12, <1>13,
     <1>14, <1>15, <1>16, <1>17, <1>18, <1>19, <1>20, <1>21, <1>22, <1>23, <1>24, <1>25
  DEF Next, Step, Exited, MainStep, Arrival, Death, WorkerStep, QuitStep

\* A step keeps asleep only threads that called a wait.
LEMMA WaitersWaitStep ==
  TypeOK /\ WaitersWait /\ [Next]_vars => WaitersWait'
<1> SUFFICES ASSUME TypeOK, WaitersWait, [Next]_vars PROVE WaitersWait'
  OBVIOUS
<1> USE PoolAssumption DEF TypeOK, Goto, locks, waiters, life, InHandler, Threads, WaitersWait
<1>1. ASSUME NEW w \in Workers, Spawn(w) PROVE WaitersWait'
  BY <1>1 DEF Spawn, MainPcs, WorkerPcs, HandlerPcs, SignalStack
<1>2. ASSUME Listen PROVE WaitersWait'
  BY <1>2 DEF Listen, MainPcs, WorkerPcs, HandlerPcs, SignalStack
<1>3. ASSUME NEW c \in Fds, Accept(c) PROVE WaitersWait'
  BY <1>3 DEF Accept, MainPcs, WorkerPcs, HandlerPcs, SignalStack
<1>4. ASSUME MainFails PROVE WaitersWait'
  BY <1>4 DEF MainFails, MainPcs, WorkerPcs, HandlerPcs, SignalStack
<1>5. ASSUME PushLock PROVE WaitersWait'
  BY <1>5 DEF PushLock, MainPcs, WorkerPcs, HandlerPcs, SignalStack
<1>6. ASSUME Push PROVE WaitersWait'
  BY <1>6 DEF Push, MainPcs, WorkerPcs, HandlerPcs, SignalStack
<1>7. ASSUME NEW w \in Workers, LoopTest(w) PROVE WaitersWait'
  BY <1>7 DEF LoopTest, MainPcs, WorkerPcs, HandlerPcs, SignalStack
<1>8. ASSUME NEW w \in Workers, Lock(w) PROVE WaitersWait'
  BY <1>8 DEF Lock, MainPcs, WorkerPcs, HandlerPcs, SignalStack
<1>9. ASSUME NEW w \in Workers, Sleep(w) PROVE WaitersWait'
  BY <1>9 DEF Sleep, MainPcs, WorkerPcs, HandlerPcs, SignalStack
<1>10. ASSUME NEW w \in Workers, Wake(w) PROVE WaitersWait'
  BY <1>10 DEF Wake, MainPcs, WorkerPcs, HandlerPcs, SignalStack
<1>11. ASSUME NEW w \in Workers, Take(w) PROVE WaitersWait'
  BY <1>11 DEF Take, MainPcs, WorkerPcs, HandlerPcs, SignalStack
<1>12. ASSUME NEW w \in Workers, Leave(w) PROVE WaitersWait'
  BY <1>12 DEF Leave, MainPcs, WorkerPcs, HandlerPcs, SignalStack
<1>13. ASSUME NEW w \in Workers, Finish(w) PROVE WaitersWait'
  BY <1>13 DEF Finish, MainPcs, WorkerPcs, HandlerPcs, SignalStack
<1>14. ASSUME NEW w \in Workers, Killed(w) PROVE WaitersWait'
  BY <1>14 DEF Killed, MainPcs, WorkerPcs, HandlerPcs, SignalStack
<1>15. ASSUME NEW w \in Workers, ExitLock(w) PROVE WaitersWait'
  BY <1>15 DEF ExitLock, MainPcs, WorkerPcs, HandlerPcs, SignalStack
<1>16. ASSUME NEW w \in Workers, IncrExit(w) PROVE WaitersWait'
  BY <1>16 DEF IncrExit, MainPcs, WorkerPcs, HandlerPcs, SignalStack
<1>17. ASSUME NEW t \in Threads, SpuriousWake(t) PROVE WaitersWait'
  BY <1>17 DEF SpuriousWake, MainPcs, WorkerPcs, HandlerPcs, SignalStack
<1>18. ASSUME NEW t \in Threads, SigInt(t) PROVE WaitersWait'
  BY <1>18 DEF SigInt, MainPcs, WorkerPcs, HandlerPcs, SignalStack
<1>19. ASSUME NEW t \in Threads, QuitLock(t) PROVE WaitersWait'
  BY <1>19 DEF QuitLock, MainPcs, WorkerPcs, HandlerPcs, SignalStack
<1>20. ASSUME NEW t \in Threads, QuitStop(t) PROVE WaitersWait'
  BY <1>20 DEF QuitStop, MainPcs, WorkerPcs, HandlerPcs, SignalStack
<1>21. ASSUME NEW t \in Threads, QuitSleep(t) PROVE WaitersWait'
  BY <1>21 DEF QuitSleep, MainPcs, WorkerPcs, HandlerPcs, SignalStack
<1>22. ASSUME NEW t \in Threads, QuitWake(t) PROVE WaitersWait'
  BY <1>22 DEF QuitWake, MainPcs, WorkerPcs, HandlerPcs, SignalStack
<1>23. ASSUME NEW t \in Threads, FreeAll(t) PROVE WaitersWait'
  BY <1>23 DEF FreeAll, MainPcs, WorkerPcs, HandlerPcs, SignalStack
<1>24. ASSUME NEW t \in Threads, Exit(t) PROVE WaitersWait'
  BY <1>24 DEF Exit, MainPcs, WorkerPcs, HandlerPcs, SignalStack
<1>25. ASSUME UNCHANGED vars PROVE WaitersWait'
  BY <1>25 DEF vars, MainPcs, WorkerPcs, HandlerPcs, SignalStack
<1> QED
  BY <1>1, <1>2, <1>3, <1>4, <1>5, <1>6, <1>7, <1>8, <1>9, <1>10, <1>11, <1>12, <1>13,
     <1>14, <1>15, <1>16, <1>17, <1>18, <1>19, <1>20, <1>21, <1>22, <1>23, <1>24, <1>25
  DEF Next, Step, Exited, MainStep, Arrival, Death, WorkerStep, QuitStep

\* A step keeps the order of a shutdown: main() in quit(), then running = 0, then
\* the pool threads leaving.
LEMMA StopsInHandlerStep ==
  TypeOK /\ StopsInHandler /\ [Next]_vars => StopsInHandler'
<1> SUFFICES ASSUME TypeOK, StopsInHandler, [Next]_vars PROVE StopsInHandler'
  OBVIOUS
<1> USE PoolAssumption DEF TypeOK, Goto, locks, waiters, life, InHandler, Threads, StopsInHandler
<1>1. ASSUME NEW w \in Workers, Spawn(w) PROVE StopsInHandler'
  BY <1>1 DEF Spawn, MainPcs, WorkerPcs, HandlerPcs
<1>2. ASSUME Listen PROVE StopsInHandler'
  BY <1>2 DEF Listen, MainPcs, WorkerPcs, HandlerPcs
<1>3. ASSUME NEW c \in Fds, Accept(c) PROVE StopsInHandler'
  BY <1>3 DEF Accept, MainPcs, WorkerPcs, HandlerPcs
<1>4. ASSUME MainFails PROVE StopsInHandler'
  BY <1>4 DEF MainFails, MainPcs, WorkerPcs, HandlerPcs
<1>5. ASSUME PushLock PROVE StopsInHandler'
  BY <1>5 DEF PushLock, MainPcs, WorkerPcs, HandlerPcs
<1>6. ASSUME Push PROVE StopsInHandler'
  BY <1>6 DEF Push, MainPcs, WorkerPcs, HandlerPcs
<1>7. ASSUME NEW w \in Workers, LoopTest(w) PROVE StopsInHandler'
  BY <1>7 DEF LoopTest, MainPcs, WorkerPcs, HandlerPcs
<1>8. ASSUME NEW w \in Workers, Lock(w) PROVE StopsInHandler'
  BY <1>8 DEF Lock, MainPcs, WorkerPcs, HandlerPcs
<1>9. ASSUME NEW w \in Workers, Sleep(w) PROVE StopsInHandler'
  BY <1>9 DEF Sleep, MainPcs, WorkerPcs, HandlerPcs
<1>10. ASSUME NEW w \in Workers, Wake(w) PROVE StopsInHandler'
  BY <1>10 DEF Wake, MainPcs, WorkerPcs, HandlerPcs
<1>11. ASSUME NEW w \in Workers, Take(w) PROVE StopsInHandler'
  BY <1>11 DEF Take, MainPcs, WorkerPcs, HandlerPcs
<1>12. ASSUME NEW w \in Workers, Leave(w) PROVE StopsInHandler'
  BY <1>12 DEF Leave, MainPcs, WorkerPcs, HandlerPcs
<1>13. ASSUME NEW w \in Workers, Finish(w) PROVE StopsInHandler'
  BY <1>13 DEF Finish, MainPcs, WorkerPcs, HandlerPcs
<1>14. ASSUME NEW w \in Workers, Killed(w) PROVE StopsInHandler'
  BY <1>14 DEF Killed, MainPcs, WorkerPcs, HandlerPcs
<1>15. ASSUME NEW w \in Workers, ExitLock(w) PROVE StopsInHandler'
  BY <1>15 DEF ExitLock, MainPcs, WorkerPcs, HandlerPcs
<1>16. ASSUME NEW w \in Workers, IncrExit(w) PROVE StopsInHandler'
  BY <1>16 DEF IncrExit, MainPcs, WorkerPcs, HandlerPcs
<1>17. ASSUME NEW t \in Threads, SpuriousWake(t) PROVE StopsInHandler'
  BY <1>17 DEF SpuriousWake, MainPcs, WorkerPcs, HandlerPcs
<1>18. ASSUME NEW t \in Threads, SigInt(t) PROVE StopsInHandler'
  BY <1>18 DEF SigInt, MainPcs, WorkerPcs, HandlerPcs
<1>19. ASSUME NEW t \in Threads, QuitLock(t) PROVE StopsInHandler'
  BY <1>19 DEF QuitLock, MainPcs, WorkerPcs, HandlerPcs
<1>20. ASSUME NEW t \in Threads, QuitStop(t) PROVE StopsInHandler'
  BY <1>20 DEF QuitStop, MainPcs, WorkerPcs, HandlerPcs
<1>21. ASSUME NEW t \in Threads, QuitSleep(t) PROVE StopsInHandler'
  BY <1>21 DEF QuitSleep, MainPcs, WorkerPcs, HandlerPcs
<1>22. ASSUME NEW t \in Threads, QuitWake(t) PROVE StopsInHandler'
  BY <1>22 DEF QuitWake, MainPcs, WorkerPcs, HandlerPcs
<1>23. ASSUME NEW t \in Threads, FreeAll(t) PROVE StopsInHandler'
  BY <1>23 DEF FreeAll, MainPcs, WorkerPcs, HandlerPcs
<1>24. ASSUME NEW t \in Threads, Exit(t) PROVE StopsInHandler'
  BY <1>24 DEF Exit, MainPcs, WorkerPcs, HandlerPcs
<1>25. ASSUME UNCHANGED vars PROVE StopsInHandler'
  BY <1>25 DEF vars, MainPcs, WorkerPcs, HandlerPcs
<1> QED
  BY <1>1, <1>2, <1>3, <1>4, <1>5, <1>6, <1>7, <1>8, <1>9, <1>10, <1>11, <1>12, <1>13,
     <1>14, <1>15, <1>16, <1>17, <1>18, <1>19, <1>20, <1>21, <1>22, <1>23, <1>24, <1>25
  DEF Next, Step, Exited, MainStep, Arrival, Death, WorkerStep, QuitStep

\* The number of pool threads that have left is a number, and it is that of all
\* of them only when all have left.
LEMMA DoneWorkersFinite ==
  /\ IsFiniteSet(DoneWorkers) /\ Cardinality(DoneWorkers) \in Nat
  /\ Cardinality(Workers) \in Nat
  /\ Cardinality(DoneWorkers) = Cardinality(Workers) => DoneWorkers = Workers
  BY PoolAssumption, FS_Subset, FS_CardinalityType DEF DoneWorkers

\* A step counts a pool thread exactly when it leaves.
LEMMA ExitedCountedStep ==
  TypeOK /\ ExitedCounted /\ [Next]_vars => ExitedCounted'
<1> SUFFICES ASSUME TypeOK, ExitedCounted, [Next]_vars PROVE ExitedCounted'
  OBVIOUS
<1> USE PoolAssumption DEF TypeOK, Goto, locks, waiters, life, InHandler, Threads, ExitedCounted
<1>1. ASSUME NEW w \in Workers, Spawn(w) PROVE ExitedCounted'
  <2>1. DoneWorkers' = DoneWorkers
    BY <1>1 DEF Spawn, DoneWorkers, MainPcs, HandlerPcs
  <2> QED
    BY <2>1, <1>1 DEF Spawn
<1>2. ASSUME Listen PROVE ExitedCounted'
  <2>1. DoneWorkers' = DoneWorkers
    BY <1>2 DEF Listen, DoneWorkers, MainPcs, HandlerPcs
  <2> QED
    BY <2>1, <1>2 DEF Listen
<1>3. ASSUME NEW c \in Fds, Accept(c) PROVE ExitedCounted'
  <2>1. DoneWorkers' = DoneWorkers
    BY <1>3 DEF Accept, DoneWorkers, MainPcs, HandlerPcs
  <2> QED
    BY <2>1, <1>3 DEF Accept
<1>4. ASSUME MainFails PROVE ExitedCounted'
  <2>1. DoneWorkers' = DoneWorkers
    BY <1>4 DEF MainFails, DoneWorkers, MainPcs, HandlerPcs
  <2> QED
    BY <2>1, <1>4 DEF MainFails
<1>5. ASSUME PushLock PROVE ExitedCounted'
  <2>1. DoneWorkers' = DoneWorkers
    BY <1>5 DEF PushLock, DoneWorkers, MainPcs, HandlerPcs
  <2> QED
    BY <2>1, <1>5 DEF PushLock
<1>6. ASSUME Push PROVE ExitedCounted'
  <2>1. DoneWorkers' = DoneWorkers
    BY <1>6 DEF Push, DoneWorkers, MainPcs, HandlerPcs
  <2> QED
    BY <2>1, <1>6 DEF Push
<1>7. ASSUME NEW w \in Workers, LoopTest(w) PROVE ExitedCounted'
  <2>1. DoneWorkers' = DoneWorkers
    BY <1>7 DEF LoopTest, DoneWorkers, MainPcs, HandlerPcs
  <2> QED
    BY <2>1, <1>7 DEF LoopTest
<1>8. ASSUME NEW w \in Workers, Lock(w) PROVE ExitedCounted'
  <2>1. DoneWorkers' = DoneWorkers
    BY <1>8 DEF Lock, DoneWorkers, MainPcs, HandlerPcs
  <2> QED
    BY <2>1, <1>8 DEF Lock
<1>9. ASSUME NEW w \in Workers, Sleep(w) PROVE ExitedCounted'
  <2>1. DoneWorkers' = DoneWorkers
    BY <1>9 DEF Sleep, DoneWorkers, MainPcs, HandlerPcs
  <2> QED
    BY <2>1, <1>9 DEF Sleep
<1>10. ASSUME NEW w \in Workers, Wake(w) PROVE ExitedCounted'
  <2>1. DoneWorkers' = DoneWorkers
    BY <1>10 DEF Wake, DoneWorkers, MainPcs, HandlerPcs
  <2> QED
    BY <2>1, <1>10 DEF Wake
<1>11. ASSUME NEW w \in Workers, Take(w) PROVE ExitedCounted'
  <2>1. DoneWorkers' = DoneWorkers
    BY <1>11 DEF Take, DoneWorkers, MainPcs, HandlerPcs
  <2> QED
    BY <2>1, <1>11 DEF Take
<1>12. ASSUME NEW w \in Workers, Leave(w) PROVE ExitedCounted'
  <2>1. DoneWorkers' = DoneWorkers
    BY <1>12 DEF Leave, DoneWorkers, MainPcs, HandlerPcs
  <2> QED
    BY <2>1, <1>12 DEF Leave
<1>13. ASSUME NEW w \in Workers, Finish(w) PROVE ExitedCounted'
  <2>1. DoneWorkers' = DoneWorkers
    BY <1>13 DEF Finish, DoneWorkers, MainPcs, HandlerPcs
  <2> QED
    BY <2>1, <1>13 DEF Finish
<1>14. ASSUME NEW w \in Workers, Killed(w) PROVE ExitedCounted'
  <2>1. DoneWorkers' = DoneWorkers
    BY <1>14 DEF Killed, DoneWorkers, MainPcs, HandlerPcs
  <2> QED
    BY <2>1, <1>14 DEF Killed
<1>15. ASSUME NEW w \in Workers, ExitLock(w) PROVE ExitedCounted'
  <2>1. DoneWorkers' = DoneWorkers
    BY <1>15 DEF ExitLock, DoneWorkers, MainPcs, HandlerPcs
  <2> QED
    BY <2>1, <1>15 DEF ExitLock
<1>16. ASSUME NEW w \in Workers, IncrExit(w) PROVE ExitedCounted'
  <2>1. DoneWorkers' = DoneWorkers \cup {w} /\ w \notin DoneWorkers
    BY <1>16 DEF IncrExit, DoneWorkers
  <2>2. Cardinality(DoneWorkers') = Cardinality(DoneWorkers) + 1
    BY <2>1, DoneWorkersFinite, FS_AddElement
  <2> QED
    BY <2>2, <1>16 DEF IncrExit, DoneWorkers
<1>17. ASSUME NEW t \in Threads, SpuriousWake(t) PROVE ExitedCounted'
  <2>1. DoneWorkers' = DoneWorkers
    BY <1>17 DEF SpuriousWake, DoneWorkers, MainPcs, HandlerPcs
  <2> QED
    BY <2>1, <1>17 DEF SpuriousWake
<1>18. ASSUME NEW t \in Threads, SigInt(t) PROVE ExitedCounted'
  <2>1. DoneWorkers' = DoneWorkers
    BY <1>18 DEF SigInt, DoneWorkers, MainPcs, HandlerPcs
  <2> QED
    BY <2>1, <1>18 DEF SigInt
<1>19. ASSUME NEW t \in Threads, QuitLock(t) PROVE ExitedCounted'
  <2>1. DoneWorkers' = DoneWorkers
    BY <1>19 DEF QuitLock, DoneWorkers, MainPcs, HandlerPcs
  <2> QED
    BY <2>1, <1>19 DEF QuitLock
<1>20. ASSUME NEW t \in Threads, QuitStop(t) PROVE ExitedCounted'
  <2>1. DoneWorkers' = DoneWorkers
    BY <1>20 DEF QuitStop, DoneWorkers, MainPcs, HandlerPcs
  <2> QED
    BY <2>1, <1>20 DEF QuitStop
<1>21. ASSUME NEW t \in Threads, QuitSleep(t) PROVE ExitedCounted'
  <2>1. DoneWorkers' = DoneWorkers
    BY <1>21 DEF QuitSleep, DoneWorkers, MainPcs, HandlerPcs
  <2> QED
    BY <2>1, <1>21 DEF QuitSleep
<1>22. ASSUME NEW t \in Threads, QuitWake(t) PROVE ExitedCounted'
  <2>1. DoneWorkers' = DoneWorkers
    BY <1>22 DEF QuitWake, DoneWorkers, MainPcs, HandlerPcs
  <2> QED
    BY <2>1, <1>22 DEF QuitWake
<1>23. ASSUME NEW t \in Threads, FreeAll(t) PROVE ExitedCounted'
  <2>1. DoneWorkers' = DoneWorkers
    BY <1>23 DEF FreeAll, DoneWorkers, MainPcs, HandlerPcs
  <2> QED
    BY <2>1, <1>23 DEF FreeAll
<1>24. ASSUME NEW t \in Threads, Exit(t) PROVE ExitedCounted'
  <2>1. DoneWorkers' = DoneWorkers
    BY <1>24 DEF Exit, DoneWorkers, MainPcs, HandlerPcs
  <2> QED
    BY <2>1, <1>24 DEF Exit
<1>25. ASSUME UNCHANGED vars PROVE ExitedCounted'
  <2>1. DoneWorkers' = DoneWorkers
    BY <1>25 DEF vars, DoneWorkers, MainPcs, HandlerPcs
  <2> QED
    BY <2>1, <1>25 DEF vars
<1> QED
  BY <1>1, <1>2, <1>3, <1>4, <1>5, <1>6, <1>7, <1>8, <1>9, <1>10, <1>11, <1>12, <1>13,
     <1>14, <1>15, <1>16, <1>17, <1>18, <1>19, <1>20, <1>21, <1>22, <1>23, <1>24, <1>25
  DEF Next, Step, Exited, MainStep, Arrival, Death, WorkerStep, QuitStep

\* A step never leaves every pool thread gone and every quit() asleep: the last
\* thread out holds exitMutex, so the quit() that stopped the pool is already
\* waiting, or past its wait, when exitCond is signalled.
LEMMA ExitSignalNotLostStep ==
  TypeOK /\ LocksHeld /\ WaitersWait /\ StopsInHandler /\ ExitSignalNotLost /\ [Next]_vars
    => ExitSignalNotLost'
<1> SUFFICES ASSUME TypeOK, LocksHeld, WaitersWait, StopsInHandler, ExitSignalNotLost,
                    [Next]_vars
             PROVE  ExitSignalNotLost'
  OBVIOUS
<1> USE PoolAssumption DEF TypeOK, Goto, locks, waiters, life, InHandler, Threads, ExitSignalNotLost
<1>1. ASSUME NEW w \in Workers, Spawn(w) PROVE ExitSignalNotLost'
  BY <1>1 DEF Spawn, HandlerPcs, MainPcs, WorkerPcs, SignalStack
<1>2. ASSUME Listen PROVE ExitSignalNotLost'
  BY <1>2 DEF Listen, HandlerPcs, MainPcs, WorkerPcs, SignalStack
<1>3. ASSUME NEW c \in Fds, Accept(c) PROVE ExitSignalNotLost'
  BY <1>3 DEF Accept, HandlerPcs, MainPcs, WorkerPcs, SignalStack
<1>4. ASSUME MainFails PROVE ExitSignalNotLost'
  BY <1>4 DEF MainFails, HandlerPcs, MainPcs, WorkerPcs, SignalStack
<1>5. ASSUME PushLock PROVE ExitSignalNotLost'
  BY <1>5 DEF PushLock, HandlerPcs, MainPcs, WorkerPcs, SignalStack
<1>6. ASSUME Push PROVE ExitSignalNotLost'
  BY <1>6 DEF Push, HandlerPcs, MainPcs, WorkerPcs, SignalStack
<1>7. ASSUME NEW w \in Workers, LoopTest(w) PROVE ExitSignalNotLost'
  BY <1>7 DEF LoopTest, HandlerPcs, MainPcs, WorkerPcs, SignalStack
<1>8. ASSUME NEW w \in Workers, Lock(w) PROVE ExitSignalNotLost'
  BY <1>8 DEF Lock, HandlerPcs, MainPcs, WorkerPcs, SignalStack
<1>9. ASSUME NEW w \in Workers, Sleep(w) PROVE ExitSignalNotLost'
  BY <1>9 DEF Sleep, HandlerPcs, MainPcs, WorkerPcs, SignalStack
<1>10. ASSUME NEW w \in Workers, Wake(w) PROVE ExitSignalNotLost'
  BY <1>10 DEF Wake, HandlerPcs, MainPcs, WorkerPcs, SignalStack
<1>11. ASSUME NEW w \in Workers, Take(w) PROVE ExitSignalNotLost'
  BY <1>11 DEF Take, HandlerPcs, MainPcs, WorkerPcs, SignalStack
<1>12. ASSUME NEW w \in Workers, Leave(w) PROVE ExitSignalNotLost'
  BY <1>12 DEF Leave, HandlerPcs, MainPcs, WorkerPcs, SignalStack
<1>13. ASSUME NEW w \in Workers, Finish(w) PROVE ExitSignalNotLost'
  BY <1>13 DEF Finish, HandlerPcs, MainPcs, WorkerPcs, SignalStack
<1>14. ASSUME NEW w \in Workers, Killed(w) PROVE ExitSignalNotLost'
  BY <1>14 DEF Killed, HandlerPcs, MainPcs, WorkerPcs, SignalStack
<1>15. ASSUME NEW w \in Workers, ExitLock(w) PROVE ExitSignalNotLost'
  BY <1>15 DEF ExitLock, HandlerPcs, MainPcs, WorkerPcs, SignalStack
<1>16. ASSUME NEW w \in Workers, IncrExit(w) PROVE ExitSignalNotLost'
  <2>1. PICK t \in Threads : pc[t] \in {"quitSleep", "quitWait", "quitFree", "quitExit"}
    BY <1>16 DEF IncrExit, StopsInHandler
  <2>2. pc[t] # "quitSleep"
    BY <2>1, <1>16 DEF LocksHeld, IncrExit
  <2>3. t # w /\ pc'[t] = pc[t]
    BY <2>1, <1>16 DEF IncrExit
  <2>4. CASE pc[t] = "quitWait" /\ t \in exitWaiters
    <3>1. SUFFICES ASSUME exited' = Cardinality(Workers) PROVE ExitSignalNotLost'
      BY DEF ExitSignalNotLost
    <3>2. PICK u \in exitWaiters : exitWaiters' = exitWaiters \ {u}
      BY <2>4, <3>1, <1>16 DEF IncrExit
    <3>3. pc[u] = "quitWait" /\ u \in Threads /\ u # w
      BY <1>16 DEF WaitersWait, IncrExit
    <3> QED
      BY <3>2, <3>3, <1>16 DEF IncrExit, ExitSignalNotLost
  <2>5. CASE ~(pc[t] = "quitWait" /\ t \in exitWaiters)
    BY <2>1, <2>2, <2>3, <2>5, <1>16 DEF IncrExit, ExitSignalNotLost
  <2> QED
    BY <2>4, <2>5
<1>17. ASSUME NEW t \in Threads, SpuriousWake(t) PROVE ExitSignalNotLost'
  BY <1>17 DEF SpuriousWake, HandlerPcs, MainPcs, WorkerPcs, SignalStack
<1>18. ASSUME NEW t \in Threads, SigInt(t) PROVE ExitSignalNotLost'
  BY <1>18 DEF SigInt, HandlerPcs, MainPcs, WorkerPcs, SignalStack
<1>19. ASSUME NEW t \in Threads, QuitLock(t) PROVE ExitSignalNotLost'
  BY <1>19 DEF QuitLock, HandlerPcs, MainPcs, WorkerPcs, SignalStack
<1>20. ASSUME NEW t \in Threads, QuitStop(t) PROVE ExitSignalNotLost'
  BY <1>20 DEF QuitStop, HandlerPcs, MainPcs, WorkerPcs, SignalStack
<1>21. ASSUME NEW t \in Threads, QuitSleep(t) PROVE ExitSignalNotLost'
  BY <1>21 DEF QuitSleep, HandlerPcs, MainPcs, WorkerPcs, SignalStack
<1>22. ASSUME NEW t \in Threads, QuitWake(t) PROVE ExitSignalNotLost'
  BY <1>22 DEF QuitWake, HandlerPcs, MainPcs, WorkerPcs, SignalStack
<1>23. ASSUME NEW t \in Threads, FreeAll(t) PROVE ExitSignalNotLost'
  BY <1>23 DEF FreeAll, HandlerPcs, MainPcs, WorkerPcs, SignalStack
<1>24. ASSUME NEW t \in Threads, Exit(t) PROVE ExitSignalNotLost'
  BY <1>24 DEF Exit, HandlerPcs, MainPcs, WorkerPcs, SignalStack
<1>25. ASSUME UNCHANGED vars PROVE ExitSignalNotLost'
  BY <1>25 DEF vars, HandlerPcs, MainPcs, WorkerPcs, SignalStack
<1> QED
  BY <1>1, <1>2, <1>3, <1>4, <1>5, <1>6, <1>7, <1>8, <1>9, <1>10, <1>11, <1>12, <1>13,
     <1>14, <1>15, <1>16, <1>17, <1>18, <1>19, <1>20, <1>21, <1>22, <1>23, <1>24, <1>25
  DEF Next, Step, Exited, MainStep, Arrival, Death, WorkerStep, QuitStep

\* Pushing a new element on a stack without duplicates adds it and keeps it so.
LEMMA PushedRange ==
  ASSUME NEW S, NEW s \in Seq(S), NEW x \in S, IsInjective(s), x \notin Range(s)
  PROVE  /\ IsInjective(<<x>> \o s)
         /\ Range(<<x>> \o s) = {x} \cup Range(s)
<1> DEFINE p == <<x>> \o s
<1>1. /\ DOMAIN p = 1 .. (Len(s) + 1)
      /\ p[1] = x /\ \A i \in 1 .. Len(s) : p[i + 1] = s[i]
      /\ \A i \in 2 .. (Len(s) + 1) : p[i] = s[i - 1] /\ i - 1 \in 1 .. Len(s)
  OBVIOUS
<1>2. DOMAIN s = 1 .. Len(s) /\ Len(s) \in Nat
  OBVIOUS
<1>3. \A i \in DOMAIN p : i = 1 \/ i \in 2 .. (Len(s) + 1)
  BY <1>1, <1>2
<1>4. \A i \in 2 .. (Len(s) + 1) : p[i] \in Range(s)
  BY <1>1, <1>2 DEF Range
<1>5. IsInjective(p)
  <2>1. SUFFICES ASSUME NEW i \in DOMAIN p, NEW j \in DOMAIN p, p[i] = p[j] PROVE i = j
    BY DEF IsInjective
  <2>2. i = 1 <=> j = 1
    BY <2>1, <1>1, <1>3, <1>4
  <2>3. CASE i # 1 /\ j # 1
    <3>1. i \in 2 .. (Len(s) + 1) /\ j \in 2 .. (Len(s) + 1)
      BY <2>3, <1>3
    <3>2. s[i - 1] = s[j - 1] /\ i - 1 \in DOMAIN s /\ j - 1 \in DOMAIN s
      BY <3>1, <2>1, <1>1, <1>2
    <3>3. i - 1 = j - 1
      BY <3>2 DEF IsInjective
    <3> QED
      BY <3>1, <3>3, <1>2
  <2> QED
    BY <2>2, <2>3
<1>6. Range(p) = {x} \cup Range(s)
  <2>1. Range(p) \subseteq {x} \cup Range(s)
    BY <1>1, <1>3, <1>4 DEF Range
  <2>2. x \in Range(p)
    BY <1>1, <1>2 DEF Range
  <2>3. \A i \in DOMAIN s : i + 1 \in DOMAIN p /\ p[i + 1] = s[i]
    BY <1>1, <1>2
  <2>4. Range(s) \subseteq Range(p)
    BY <2>3 DEF Range
  <2> QED
    BY <2>1, <2>2, <2>4
<1> QED
  BY <1>5, <1>6

\* Popping a stack without duplicates removes its head and keeps it so.
LEMMA PoppedRange ==
  ASSUME NEW S, NEW s \in Seq(S), IsInjective(s), s # <<>>
  PROVE  /\ IsInjective(Tail(s))
         /\ Head(s) \in Range(s) \ Range(Tail(s))
         /\ Range(s) = {Head(s)} \cup Range(Tail(s))
         /\ Len(Tail(s)) = Len(s) - 1
<1>1. /\ DOMAIN s = 1 .. Len(s) /\ Len(s) \in Nat \ {0} /\ Head(s) = s[1]
      /\ DOMAIN Tail(s) = 1 .. (Len(s) - 1)
      /\ \A i \in 1 .. (Len(s) - 1) : Tail(s)[i] = s[i + 1]
  BY EmptySeq, HeadTailProperties
<1>2. \A i \in DOMAIN s : i = 1 \/ (i - 1 \in DOMAIN Tail(s) /\ Tail(s)[i - 1] = s[i])
  BY <1>1
<1>3. \A i \in DOMAIN Tail(s) : i + 1 \in DOMAIN s /\ i + 1 # 1 /\ Tail(s)[i] = s[i + 1]
  BY <1>1
<1>4. Head(s) \notin Range(Tail(s))
  BY <1>1, <1>3 DEF Range, IsInjective
<1>5. Range(s) = {Head(s)} \cup Range(Tail(s))
  <2>1. Range(s) \subseteq {Head(s)} \cup Range(Tail(s))
    BY <1>1, <1>2 DEF Range
  <2>2. Range(Tail(s)) \subseteq Range(s) /\ Head(s) \in Range(s)
    BY <1>1, <1>3 DEF Range
  <2> QED
    BY <2>1, <2>2
<1>6. IsInjective(Tail(s))
  BY <1>1, <1>3 DEF IsInjective
<1> QED
  BY <1>1, <1>4, <1>5, <1>6

\* A step moves a connection from one place to the next, and never copies or
\* drops it.
LEMMA ConnectionOwnedOnceStep ==
  TypeOK /\ FdHeld /\ ConnectionOwnedOnce /\ [Next]_vars => ConnectionOwnedOnce'
<1> SUFFICES ASSUME TypeOK, FdHeld, ConnectionOwnedOnce, [Next]_vars
             PROVE  ConnectionOwnedOnce'
  OBVIOUS
<1> USE PoolAssumption DEF TypeOK, Goto, locks, waiters, life, Threads
<1>1. ASSUME NEW w \in Workers, Spawn(w) PROVE ConnectionOwnedOnce'
  BY <1>1 DEF Spawn, ConnectionOwnedOnce
<1>2. ASSUME Listen PROVE ConnectionOwnedOnce'
  BY <1>2 DEF Listen, ConnectionOwnedOnce
<1>3. ASSUME NEW c \in Fds, Accept(c) PROVE ConnectionOwnedOnce'
  <2>1. fd[Main] = NoFd
    BY <1>3 DEF Accept, FdHeld, InHandler, HandlerPcs
  <2>2. fd' = [fd EXCEPT ![Main] = c] /\ open' = open \cup {c} /\ stack' = stack /\ c \notin open
    BY <1>3 DEF Accept
  <2>3. Range(fd') \ {NoFd} = (Range(fd) \ {NoFd}) \cup {c}
    BY <2>1, <2>2, PoolAssumption DEF Range, NoFd
  <2>4. open = Range(stack) \cup (Range(fd) \ {NoFd})
    BY DEF ConnectionOwnedOnce
  <2>5. open' = Range(stack') \cup (Range(fd') \ {NoFd})
    BY <2>2, <2>3, <2>4
  <2>6. c \notin Range(stack) /\ \A t \in Threads : fd[t] # c
    BY <2>1, <2>2, <2>4, PoolAssumption DEF NoFd, ConnectionOwnedOnce
  <2>7. \A t \in Threads : fd'[t] = IF t = Main THEN c ELSE fd[t]
    BY <2>2
  <2> QED
    BY <2>2, <2>5, <2>6, <2>7 DEF ConnectionOwnedOnce
<1>4. ASSUME MainFails PROVE ConnectionOwnedOnce'
  BY <1>4 DEF MainFails, ConnectionOwnedOnce
<1>5. ASSUME PushLock PROVE ConnectionOwnedOnce'
  BY <1>5 DEF PushLock, ConnectionOwnedOnce
<1>6. ASSUME Push PROVE ConnectionOwnedOnce'
  <2> DEFINE c == fd[Main]
  <2>1. c \in Fds /\ c # NoFd
    BY <1>6 DEF Push, FdHeld, InHandler, HandlerPcs
  <2>2. fd' = [fd EXCEPT ![Main] = NoFd] /\ open' = open /\ stack' = <<c>> \o stack
    BY <1>6 DEF Push
  <2>3. IsInjective(stack') /\ Range(stack') = {c} \cup Range(stack)
    BY <2>1, <2>2, PushedRange DEF ConnectionOwnedOnce
  <2>4. \A t \in Threads : fd'[t] = IF t = Main THEN NoFd ELSE fd[t]
    BY <2>2
  <2>5. Range(fd') \ {NoFd} = Range(fd) \ {NoFd, c}
    BY <2>1, <2>2, <2>4 DEF Range, ConnectionOwnedOnce
  <2>6. c \in open
    BY <2>1 DEF ConnectionOwnedOnce
  <2>7. open' = Range(stack') \cup (Range(fd') \ {NoFd})
    <3>1. open = Range(stack) \cup (Range(fd) \ {NoFd})
      BY DEF ConnectionOwnedOnce
    <3>2. open' = open
      BY <2>2
    <3> HIDE DEF c
    <3> QED
      BY ONLY <2>3, <2>5, <2>6, <3>1, <3>2
  <2> QED
    BY <2>1, <2>2, <2>3, <2>4, <2>7 DEF ConnectionOwnedOnce
<1>7. ASSUME NEW w \in Workers, LoopTest(w) PROVE ConnectionOwnedOnce'
  BY <1>7 DEF LoopTest, ConnectionOwnedOnce
<1>8. ASSUME NEW w \in Workers, Lock(w) PROVE ConnectionOwnedOnce'
  BY <1>8 DEF Lock, ConnectionOwnedOnce
<1>9. ASSUME NEW w \in Workers, Sleep(w) PROVE ConnectionOwnedOnce'
  BY <1>9 DEF Sleep, ConnectionOwnedOnce
<1>10. ASSUME NEW w \in Workers, Wake(w) PROVE ConnectionOwnedOnce'
  BY <1>10 DEF Wake, ConnectionOwnedOnce
<1>11. ASSUME NEW w \in Workers, Take(w) PROVE ConnectionOwnedOnce'
  <2> DEFINE c == Head(stack)
  <2>1. stack # <<>> /\ fd[w] = NoFd
    BY <1>11 DEF Take, StackEmpty, FdHeld, InHandler, HandlerPcs
  <2>2. fd' = [fd EXCEPT ![w] = c] /\ open' = open /\ stack' = Tail(stack)
    BY <1>11 DEF Take
  <2>3. /\ IsInjective(stack') /\ c \in Range(stack) \ Range(stack')
        /\ Range(stack) = {c} \cup Range(stack')
    BY <2>1, <2>2, PoppedRange DEF ConnectionOwnedOnce
  <2>4. c \in Fds /\ c # NoFd /\ c \in open
    BY <2>3, PoolAssumption, RangeOfSeq DEF NoFd, ConnectionOwnedOnce
  <2>5. \A t \in Threads : fd'[t] = IF t = w THEN c ELSE fd[t]
    BY <2>2
  <2>6. Range(fd') \ {NoFd} = (Range(fd) \ {NoFd}) \cup {c}
    BY <2>1, <2>2, <2>4, <2>5 DEF Range
  <2>7. open' = Range(stack') \cup (Range(fd') \ {NoFd})
    <3>1. open = Range(stack) \cup (Range(fd) \ {NoFd}) /\ open' = open
      BY <2>2 DEF ConnectionOwnedOnce
    <3> HIDE DEF c
    <3> QED
      BY ONLY <2>3, <2>6, <3>1
  <2>8. \A t \in Threads : t # w => fd[t] # c
    BY <2>3, <2>4 DEF ConnectionOwnedOnce
  <2> QED
    BY <2>2, <2>3, <2>4, <2>5, <2>7, <2>8 DEF ConnectionOwnedOnce
<1>12. ASSUME NEW w \in Workers, Leave(w) PROVE ConnectionOwnedOnce'
  BY <1>12 DEF Leave, ConnectionOwnedOnce
<1>13. ASSUME NEW w \in Workers, Finish(w) PROVE ConnectionOwnedOnce'
  <2> DEFINE c == fd[w]
  <2>1. c \in Fds /\ c # NoFd /\ c \notin Range(stack)
    BY <1>13 DEF Finish, FdHeld, InHandler, HandlerPcs, ConnectionOwnedOnce
  <2>2. fd' = [fd EXCEPT ![w] = NoFd] /\ open' = open \ {c} /\ stack' = stack
    BY <1>13 DEF Finish
  <2>3. \A t \in Threads : fd'[t] = IF t = w THEN NoFd ELSE fd[t]
    BY <2>2
  <2>4. Range(fd') \ {NoFd} = Range(fd) \ {NoFd, c}
    BY <2>1, <2>2, <2>3 DEF Range, ConnectionOwnedOnce
  <2>5. open' = Range(stack') \cup (Range(fd') \ {NoFd})
    <3>1. open = Range(stack) \cup (Range(fd) \ {NoFd})
      BY DEF ConnectionOwnedOnce
    <3>2. open' = open \ {c} /\ Range(stack') = Range(stack) /\ c \notin Range(stack)
      BY <2>1, <2>2
    <3> HIDE DEF c
    <3> QED
      BY ONLY <2>4, <3>1, <3>2
  <2> QED
    BY <2>1, <2>2, <2>3, <2>5 DEF ConnectionOwnedOnce
<1>14. ASSUME NEW w \in Workers, Killed(w) PROVE ConnectionOwnedOnce'
  BY <1>14 DEF Killed, ConnectionOwnedOnce
<1>15. ASSUME NEW w \in Workers, ExitLock(w) PROVE ConnectionOwnedOnce'
  BY <1>15 DEF ExitLock, ConnectionOwnedOnce
<1>16. ASSUME NEW w \in Workers, IncrExit(w) PROVE ConnectionOwnedOnce'
  BY <1>16 DEF IncrExit, ConnectionOwnedOnce
<1>17. ASSUME NEW t \in Threads, SpuriousWake(t) PROVE ConnectionOwnedOnce'
  BY <1>17 DEF SpuriousWake, ConnectionOwnedOnce
<1>18. ASSUME NEW t \in Threads, SigInt(t) PROVE ConnectionOwnedOnce'
  BY <1>18 DEF SigInt, ConnectionOwnedOnce
<1>19. ASSUME NEW t \in Threads, QuitLock(t) PROVE ConnectionOwnedOnce'
  BY <1>19 DEF QuitLock, ConnectionOwnedOnce
<1>20. ASSUME NEW t \in Threads, QuitStop(t) PROVE ConnectionOwnedOnce'
  BY <1>20 DEF QuitStop, ConnectionOwnedOnce
<1>21. ASSUME NEW t \in Threads, QuitSleep(t) PROVE ConnectionOwnedOnce'
  BY <1>21 DEF QuitSleep, ConnectionOwnedOnce
<1>22. ASSUME NEW t \in Threads, QuitWake(t) PROVE ConnectionOwnedOnce'
  BY <1>22 DEF QuitWake, ConnectionOwnedOnce
<1>23. ASSUME NEW t \in Threads, FreeAll(t) PROVE ConnectionOwnedOnce'
  BY <1>23 DEF FreeAll, ConnectionOwnedOnce
<1>24. ASSUME NEW t \in Threads, Exit(t) PROVE ConnectionOwnedOnce'
  BY <1>24 DEF Exit, ConnectionOwnedOnce
<1>25. ASSUME UNCHANGED vars PROVE ConnectionOwnedOnce'
  BY <1>25 DEF vars, ConnectionOwnedOnce
<1> QED
  BY <1>1, <1>2, <1>3, <1>4, <1>5, <1>6, <1>7, <1>8, <1>9, <1>10, <1>11, <1>12, <1>13,
     <1>14, <1>15, <1>16, <1>17, <1>18, <1>19, <1>20, <1>21, <1>22, <1>23, <1>24, <1>25
  DEF Next, Step, Exited, MainStep, Arrival, Death, WorkerStep, QuitStep

\* A step lets a quit() past its wait only if every pool thread has left, when
\* exitCond never wakes a thread spuriously.
LEMMA WokenAfterLastStep ==
  ASSUME "exit" \notin SpuriousConds, TypeOK, WaitersWait, ExitedCounted,
         WokenAfterLast, [Next]_vars
  PROVE  WokenAfterLast'
<1> USE PoolAssumption DEF TypeOK, Goto, locks, waiters, life, InHandler, Threads, WokenAfterLast
<1>1. ASSUME NEW w \in Workers, Spawn(w) PROVE WokenAfterLast'
  BY <1>1 DEF Spawn, WorkerPcs, HandlerPcs, MainPcs, SignalStack
<1>2. ASSUME Listen PROVE WokenAfterLast'
  BY <1>2 DEF Listen, WorkerPcs, HandlerPcs, MainPcs, SignalStack
<1>3. ASSUME NEW c \in Fds, Accept(c) PROVE WokenAfterLast'
  BY <1>3 DEF Accept, WorkerPcs, HandlerPcs, MainPcs, SignalStack
<1>4. ASSUME MainFails PROVE WokenAfterLast'
  BY <1>4 DEF MainFails, WorkerPcs, HandlerPcs, MainPcs, SignalStack
<1>5. ASSUME PushLock PROVE WokenAfterLast'
  BY <1>5 DEF PushLock, WorkerPcs, HandlerPcs, MainPcs, SignalStack
<1>6. ASSUME Push PROVE WokenAfterLast'
  BY <1>6 DEF Push, WorkerPcs, HandlerPcs, MainPcs, SignalStack
<1>7. ASSUME NEW w \in Workers, LoopTest(w) PROVE WokenAfterLast'
  BY <1>7 DEF LoopTest, WorkerPcs, HandlerPcs, MainPcs, SignalStack
<1>8. ASSUME NEW w \in Workers, Lock(w) PROVE WokenAfterLast'
  BY <1>8 DEF Lock, WorkerPcs, HandlerPcs, MainPcs, SignalStack
<1>9. ASSUME NEW w \in Workers, Sleep(w) PROVE WokenAfterLast'
  BY <1>9 DEF Sleep, WorkerPcs, HandlerPcs, MainPcs, SignalStack
<1>10. ASSUME NEW w \in Workers, Wake(w) PROVE WokenAfterLast'
  BY <1>10 DEF Wake, WorkerPcs, HandlerPcs, MainPcs, SignalStack
<1>11. ASSUME NEW w \in Workers, Take(w) PROVE WokenAfterLast'
  BY <1>11 DEF Take, WorkerPcs, HandlerPcs, MainPcs, SignalStack
<1>12. ASSUME NEW w \in Workers, Leave(w) PROVE WokenAfterLast'
  BY <1>12 DEF Leave, WorkerPcs, HandlerPcs, MainPcs, SignalStack
<1>13. ASSUME NEW w \in Workers, Finish(w) PROVE WokenAfterLast'
  BY <1>13 DEF Finish, WorkerPcs, HandlerPcs, MainPcs, SignalStack
<1>14. ASSUME NEW w \in Workers, Killed(w) PROVE WokenAfterLast'
  BY <1>14 DEF Killed, WorkerPcs, HandlerPcs, MainPcs, SignalStack
<1>15. ASSUME NEW w \in Workers, ExitLock(w) PROVE WokenAfterLast'
  BY <1>15 DEF ExitLock, WorkerPcs, HandlerPcs, MainPcs, SignalStack
<1>16. ASSUME NEW w \in Workers, IncrExit(w) PROVE WokenAfterLast'
  <2>1. exited # Cardinality(Workers)
    BY <1>16, DoneWorkersFinite DEF IncrExit, ExitedCounted, DoneWorkers
  <2>2. ~freed /\ ~freed'
    BY <2>1, <1>16 DEF IncrExit
  <2> QED
    BY <2>1, <2>2, <1>16 DEF IncrExit, WorkerPcs
<1>17. ASSUME NEW t \in Threads, SpuriousWake(t) PROVE WokenAfterLast'
  BY <1>17 DEF SpuriousWake, WorkerPcs, HandlerPcs, MainPcs, SignalStack
<1>18. ASSUME NEW t \in Threads, SigInt(t) PROVE WokenAfterLast'
  BY <1>18 DEF SigInt, WorkerPcs, HandlerPcs, MainPcs, SignalStack
<1>19. ASSUME NEW t \in Threads, QuitLock(t) PROVE WokenAfterLast'
  BY <1>19 DEF QuitLock, WorkerPcs, HandlerPcs, MainPcs, SignalStack
<1>20. ASSUME NEW t \in Threads, QuitStop(t) PROVE WokenAfterLast'
  BY <1>20 DEF QuitStop, WorkerPcs, HandlerPcs, MainPcs, SignalStack
<1>21. ASSUME NEW t \in Threads, QuitSleep(t) PROVE WokenAfterLast'
  BY <1>21 DEF QuitSleep, WorkerPcs, HandlerPcs, MainPcs, SignalStack
<1>22. ASSUME NEW t \in Threads, QuitWake(t) PROVE WokenAfterLast'
  BY <1>22 DEF QuitWake, WorkerPcs, HandlerPcs, MainPcs, SignalStack
<1>23. ASSUME NEW t \in Threads, FreeAll(t) PROVE WokenAfterLast'
  BY <1>23 DEF FreeAll, WorkerPcs, HandlerPcs, MainPcs, SignalStack
<1>24. ASSUME NEW t \in Threads, Exit(t) PROVE WokenAfterLast'
  BY <1>24 DEF Exit, WorkerPcs, HandlerPcs, MainPcs, SignalStack
<1>25. ASSUME UNCHANGED vars PROVE WokenAfterLast'
  BY <1>25 DEF vars, WorkerPcs, HandlerPcs, MainPcs, SignalStack
<1> QED
  BY <1>1, <1>2, <1>3, <1>4, <1>5, <1>6, <1>7, <1>8, <1>9, <1>10, <1>11, <1>12, <1>13,
     <1>14, <1>15, <1>16, <1>17, <1>18, <1>19, <1>20, <1>21, <1>22, <1>23, <1>24, <1>25
  DEF Next, Step, Exited, MainStep, Arrival, Death, WorkerStep, QuitStep

\* Sets of pool threads have a size, and a larger one a larger size.
LEMMA WorkerSetSizes ==
  /\ \A S \in SUBSET Workers : IsFiniteSet(S) /\ Cardinality(S) \in Nat
  /\ \A S, T \in SUBSET Workers : S \subseteq T => Cardinality(S) <= Cardinality(T)
  BY PoolAssumption, FS_Subset, FS_CardinalityType

\* A step never leaves more requests than awake pool threads while one sleeps.
LEMMA NoIdleWhileWorkStep ==
  TypeOK /\ FdHeld /\ WaitersWait /\ StopsInHandler /\ NoIdleWhileWork /\ [Next]_vars
    => NoIdleWhileWork'
<1> SUFFICES ASSUME TypeOK, FdHeld, WaitersWait, StopsInHandler, NoIdleWhileWork, [Next]_vars,
                    ~InHandler(Main)', stackWaiters' # {}
             PROVE  Len(stack') <= Cardinality(Contending')
  BY DEF NoIdleWhileWork
<1> DEFINE G == Len(stack') <= Cardinality(Contending')
<1> USE PoolAssumption DEF TypeOK, Goto, locks, waiters, life, InHandler, Threads
<1>a. Contending \in SUBSET Workers /\ Contending' \in SUBSET Workers /\ Len(stack) \in Nat
  BY DEF Contending
<1>b. ~InHandler(Main) => running
  BY DEF StopsInHandler, HandlerPcs
<1>m. ASSUME Contending \subseteq Contending', Len(stack') <= Len(stack), stackWaiters # {}, ~InHandler(Main)
      PROVE  G
  <2>1. Cardinality(Contending) <= Cardinality(Contending')
    BY <1>a, <1>m, WorkerSetSizes
  <2>2. Cardinality(Contending) \in Nat /\ Cardinality(Contending') \in Nat
    BY <1>a, WorkerSetSizes
  <2>3. Len(stack) <= Cardinality(Contending)
    BY <1>m DEF NoIdleWhileWork
  <2>4. Len(stack') \in Nat
    BY TypeOKStep DEF TypeOK
  <2> QED
    BY <1>m, <2>1, <2>2, <2>3, <2>4, <1>a
<1>1. ASSUME NEW w \in Workers, Spawn(w) PROVE G
  <2>1. Contending \subseteq Contending'
    BY <1>1 DEF Spawn, Contending
  <2> QED
    BY <2>1, <1>m, <1>a, <1>1 DEF Spawn, MainPcs, HandlerPcs
<1>2. ASSUME Listen PROVE G
  <2>1. Contending \subseteq Contending'
    BY <1>2 DEF Listen, Contending
  <2> QED
    BY <2>1, <1>m, <1>a, <1>2 DEF Listen, MainPcs, HandlerPcs
<1>3. ASSUME NEW c \in Fds, Accept(c) PROVE G
  <2>1. Contending \subseteq Contending'
    BY <1>3 DEF Accept, Contending
  <2> QED
    BY <2>1, <1>m, <1>a, <1>3 DEF Accept, MainPcs, HandlerPcs
<1>4. ASSUME MainFails PROVE G
  <2>1. Contending \subseteq Contending'
    BY <1>4 DEF MainFails, Contending
  <2> QED
    BY <2>1, <1>m, <1>a, <1>4 DEF MainFails, MainPcs, HandlerPcs
<1>5. ASSUME PushLock PROVE G
  <2>1. Contending \subseteq Contending'
    BY <1>5 DEF PushLock, Contending
  <2> QED
    BY <2>1, <1>m, <1>a, <1>5 DEF PushLock, MainPcs, HandlerPcs
<1>6. ASSUME Push PROVE G
  <2>1. PICK t \in stackWaiters : stackWaiters' = stackWaiters \ {t}
    BY <1>6 DEF Push, SignalStack
  <2>2. pc[t] = "wait" /\ t \in Workers /\ ~InHandler(Main) /\ Main \notin Workers
    BY <2>1, <1>6 DEF Push, WaitersWait, StopsInHandler, HandlerPcs
  <2>3. Contending' = Contending \cup {t} /\ t \notin Contending
    BY <2>1, <2>2, <1>6 DEF Contending, Push
  <2>4. Cardinality(Contending') = Cardinality(Contending) + 1
    BY <2>3, <1>a, WorkerSetSizes, FS_AddElement
  <2>5. Len(stack) <= Cardinality(Contending)
    BY <2>1, <2>2 DEF NoIdleWhileWork
  <2>6. Len(stack') = Len(stack) + 1
    BY <1>6 DEF Push
  <2>7. Cardinality(Contending) \in Nat
    BY <1>a, WorkerSetSizes
  <2> QED
    BY <2>4, <2>5, <2>6, <2>7, <1>a
<1>7. ASSUME NEW w \in Workers, LoopTest(w) PROVE G
  <2>1. ~InHandler(Main) /\ running
    BY <1>7, <1>b DEF LoopTest
  <2>2. Contending \subseteq Contending'
    BY <2>1, <1>7 DEF LoopTest, Contending
  <2> QED
    BY <2>1, <2>2, <1>m, <1>a, <1>7 DEF LoopTest
<1>8. ASSUME NEW w \in Workers, Lock(w) PROVE G
  <2>1. Contending \subseteq Contending'
    BY <1>8 DEF Lock, Contending
  <2> QED
    BY <2>1, <1>m, <1>a, <1>8 DEF Lock, MainPcs, HandlerPcs
<1>9. ASSUME NEW w \in Workers, Sleep(w) PROVE G
  <2>1. stack = <<>>
    <3>1. stack # <<>> => Head(stack) \in Fds
      OBVIOUS
    <3> QED
      BY <3>1, <1>9 DEF Sleep, StackEmpty, NoFd
  <2>2. Len(stack') = 0
    BY <2>1, <1>9 DEF Sleep
  <2> QED
    BY <2>2, <1>a, WorkerSetSizes
<1>10. ASSUME NEW w \in Workers, Wake(w) PROVE G
  <2>1. Contending \subseteq Contending'
    BY <1>10 DEF Wake, Contending
  <2> QED
    BY <2>1, <1>m, <1>a, <1>10 DEF Wake, MainPcs, HandlerPcs
<1>11. ASSUME NEW w \in Workers, Take(w) PROVE G
  <2>1. Contending' = Contending \ {w} /\ w \in Contending
    BY <1>11 DEF Take, Contending
  <2>2. Cardinality(Contending') = Cardinality(Contending) - 1
    BY <2>1, <1>a, WorkerSetSizes, FS_RemoveElement
  <2>3. Len(stack') = Len(stack) - 1 /\ stack # <<>>
    BY <1>11 DEF Take, StackEmpty
  <2>4. Len(stack) <= Cardinality(Contending)
    BY <1>11 DEF Take, NoIdleWhileWork
  <2>5. Cardinality(Contending) \in Nat
    BY <1>a, WorkerSetSizes
  <2> QED
    BY <2>2, <2>3, <2>4, <2>5, <1>a
<1>12. ASSUME NEW w \in Workers, Leave(w) PROVE G
  BY <1>12, <1>b DEF Leave, StopsInHandler, HandlerPcs
<1>13. ASSUME NEW w \in Workers, Finish(w) PROVE G
  <2>1. Contending \subseteq Contending'
    BY <1>13 DEF Finish, Contending
  <2> QED
    BY <2>1, <1>m, <1>a, <1>13 DEF Finish, MainPcs, HandlerPcs
<1>14. ASSUME NEW w \in Workers, Killed(w) PROVE G
  <2>1. Contending \subseteq Contending'
    BY <1>14 DEF Killed, Contending
  <2> QED
    BY <2>1, <1>m, <1>a, <1>14 DEF Killed, MainPcs, HandlerPcs
<1>15. ASSUME NEW w \in Workers, ExitLock(w) PROVE G
  BY <1>15, <1>b DEF ExitLock, StopsInHandler, HandlerPcs
<1>16. ASSUME NEW w \in Workers, IncrExit(w) PROVE G
  BY <1>16, <1>b DEF IncrExit, StopsInHandler, HandlerPcs
<1>17. ASSUME NEW t \in Threads, SpuriousWake(t) PROVE G
  <2>1. ~InHandler(t) /\ ~InHandler(Main)
    BY <1>17 DEF SpuriousWake, StopsInHandler
  <2>2. Contending \subseteq Contending'
    BY <2>1, <1>17 DEF SpuriousWake, Contending
  <2> QED
    BY <2>1, <2>2, <1>m, <1>a, <1>17 DEF SpuriousWake
<1>18. ASSUME NEW t \in Threads, SigInt(t) PROVE G
  BY <1>18 DEF SigInt, StopsInHandler, HandlerPcs
<1>19. ASSUME NEW t \in Threads, QuitLock(t) PROVE G
  BY <1>19 DEF QuitLock, StopsInHandler, HandlerPcs
<1>20. ASSUME NEW t \in Threads, QuitStop(t) PROVE G
  BY <1>20 DEF QuitStop, StopsInHandler, HandlerPcs
<1>21. ASSUME NEW t \in Threads, QuitSleep(t) PROVE G
  BY <1>21 DEF QuitSleep, StopsInHandler, HandlerPcs
<1>22. ASSUME NEW t \in Threads, QuitWake(t) PROVE G
  BY <1>22 DEF QuitWake, StopsInHandler, HandlerPcs
<1>23. ASSUME NEW t \in Threads, FreeAll(t) PROVE G
  BY <1>23 DEF FreeAll, StopsInHandler, HandlerPcs
<1>24. ASSUME NEW t \in Threads, Exit(t) PROVE G
  BY <1>24 DEF Exit, StopsInHandler, HandlerPcs
<1>25. ASSUME UNCHANGED vars PROVE G
  <2>1. Contending \subseteq Contending'
    BY <1>25 DEF vars, Contending
  <2> QED
    BY <2>1, <1>m, <1>a, <1>25 DEF vars, MainPcs, HandlerPcs
<1> QED
  BY <1>1, <1>2, <1>3, <1>4, <1>5, <1>6, <1>7, <1>8, <1>9, <1>10, <1>11, <1>12, <1>13,
     <1>14, <1>15, <1>16, <1>17, <1>18, <1>19, <1>20, <1>21, <1>22, <1>23, <1>24, <1>25
  DEF Next, Step, Exited, MainStep, Arrival, Death, WorkerStep, QuitStep

\* The initial state satisfies every invariant.
LEMMA IInvInit == Init => IInv /\ WokenAfterLast /\ NoIdleWhileWork
<1> SUFFICES ASSUME Init PROVE IInv /\ WokenAfterLast /\ NoIdleWhileWork
  OBVIOUS
<1>1. TypeOK
  BY TypeOKInit
<1>2. \A t \in Threads : pc[t] \in {"spawn", "log", "unborn"} /\ fd[t] = NoFd
  BY DEF Init, Threads
<1>3. LocksHeld /\ FdHeld /\ WaitersWait
  BY <1>2, PoolAssumption DEF Init, LocksHeld, FdHeld, WaitersWait, HandlerPcs, Threads
<1>4. StopsInHandler
  BY <1>2 DEF Init, StopsInHandler, InHandler, HandlerPcs, Threads
<1>5. DoneWorkers = {} /\ Workers # {}
  BY <1>2, PoolAssumption DEF DoneWorkers, Threads
<1>6. Cardinality(Workers) # 0 /\ Cardinality({}) = 0
  BY PoolAssumption, FS_EmptySet
<1>7. ExitedCounted /\ ExitSignalNotLost
  BY <1>5, <1>6 DEF Init, ExitedCounted, ExitSignalNotLost
<1>8. ConnectionOwnedOnce
  <2>1. Range(fd) \ {NoFd} = {} /\ Range(stack) = {}
    BY <1>2 DEF Init, Range
  <2>2. IsInjective(stack)
    BY DEF Init, IsInjective
  <2> QED
    BY <1>2, <2>1, <2>2 DEF Init, ConnectionOwnedOnce
<1>9. WokenAfterLast
  BY <1>2 DEF Init, WokenAfterLast
<1>10. NoIdleWhileWork
  BY DEF Init, NoIdleWhileWork
<1> QED
  BY <1>1, <1>3, <1>4, <1>7, <1>8, <1>9, <1>10 DEF IInv

\* A step keeps the inductive invariant.
LEMMA IInvStep == IInv /\ [Next]_vars => IInv'
  BY TypeOKStep, LocksHeldStep, FdHeldStep, WaitersWaitStep, StopsInHandlerStep,
     ExitedCountedStep, ExitSignalNotLostStep, ConnectionOwnedOnceStep DEF IInv

\* The inductive invariant holds of every reachable state.
THEOREM Invariance == Spec => []IInv
<1>1. Init => IInv
  BY IInvInit
<1>2. IInv /\ [Next]_vars => IInv'
  BY IInvStep
<1> QED
  BY <1>1, <1>2, PTL DEF Spec

\* Every variable keeps its type in every behaviour of the pool.
THEOREM TypeCorrect == Spec => []TypeOK
<1>1. IInv => TypeOK
  BY DEF IInv
<1> QED
  BY <1>1, Invariance, PTL

\* However many threads and connections there are and wherever SIGINT strikes,
\* an accepted connection is always in exactly one place.
THEOREM OwnedOnce == Spec => []ConnectionOwnedOnce
<1>1. IInv => ConnectionOwnedOnce
  BY DEF IInv
<1> QED
  BY <1>1, Invariance, PTL

\* The signal of the last pool thread to leave is never lost on quit().
THEOREM ExitSignal == Spec => []ExitSignalNotLost
<1>1. IInv => ExitSignalNotLost
  BY DEF IInv
<1> QED
  BY <1>1, Invariance, PTL

\* No pool thread sleeps through a request that no awake thread will take.
THEOREM NoIdle == Spec => []NoIdleWhileWork
<1>1. Init => NoIdleWhileWork
  BY IInvInit
<1>2. IInv /\ NoIdleWhileWork /\ [Next]_vars => NoIdleWhileWork'
  BY NoIdleWhileWorkStep DEF IInv
<1> QED
  BY <1>1, <1>2, Invariance, PTL DEF Spec

\* Without spurious wake-ups of exitCond, quit() is past its wait only at the end.
LEMMA Woken == ASSUME "exit" \notin SpuriousConds PROVE Spec => []WokenAfterLast
<1>1. Init => WokenAfterLast
  BY IInvInit
<1>2. IInv /\ WokenAfterLast /\ [Next]_vars => WokenAfterLast'
  BY WokenAfterLastStep DEF IInv
<1> QED
  BY <1>1, <1>2, Invariance, PTL DEF Spec

\* If exitCond wakes nobody spuriously, the shared data is freed only when every
\* pool thread has left, although quit() does not wait in a loop.
THEOREM FreedLast ==
  ASSUME "exit" \notin SpuriousConds PROVE Spec => []FreeAfterAllExited
<1>1. IInv /\ WokenAfterLast => FreeAfterAllExited
  BY DoneWorkersFinite DEF IInv, WokenAfterLast, FreeAfterAllExited, ExitedCounted, DoneWorkers
<1> QED
  BY <1>1, Invariance, Woken, PTL

-----------------------------------------------------------------------------
(* No hang *)

\* The guards of the steps of Go that thread t may take.
CanGo(t) ==
  \/ /\ t = Main
     /\ \/ pc[t] = "spawn" /\ \E w \in Workers : pc[w] = "unborn"
        \/ pc[t] \in {"listen", "pushing"}
        \/ pc[t] = "push" /\ stackOwner = Nobody
  \/ /\ t \in Workers
     /\ \/ pc[t] \in {"top", "check", "serve", "exiting"}
        \/ pc[t] = "lock" /\ stackOwner = Nobody
        \/ pc[t] = "wait" /\ t \notin stackWaiters /\ stackOwner = Nobody
        \/ pc[t] = "exit" /\ exitOwner = Nobody
  \/ pc[t] \in {"quitSleep", "quitFree", "quitExit"}
  \/ pc[t] = "quit" /\ exitOwner = Nobody
  \/ pc[t] = "quitStop" /\ stackOwner = Nobody
  \/ pc[t] = "quitWait" /\ t \notin exitWaiters /\ exitOwner = Nobody

\* main() is starting the threads until all are there.
Started ==
  /\ pc[Main] = "spawn" => \E w \in Workers : pc[w] = "unborn"
  /\ pc[Main] \in MainPcs \ {"spawn"} => \A w \in Workers : pc[w] # "unborn"

\* Who may hold a mutex: with LocksHeld, a thread that goes on, or one taken away.
Owners ==
  /\ stackOwner # Logger
  /\ \A t \in Threads : exitOwner = t =>
       \/ pc[t] \in {"exiting", "quitStop", "quitSleep", "quitFree"}
       \/ t \in Workers /\ InHandler(t)

\* Once the pool is stopped no thread falls asleep on stackCond; quit() goes on from there.
Stopped ==
  /\ ~running => stackWaiters = {}
  /\ \A t \in Threads : pc[t] \in {"quitSleep", "quitWait", "quitFree", "quitExit"} => ~running

\* A step keeps it known whether there are threads left to start.
LEMMA StartedStep ==
  TypeOK /\ Started /\ [Next]_vars => Started'
<1> SUFFICES ASSUME TypeOK, Started, [Next]_vars PROVE Started'
  OBVIOUS
<1> USE PoolAssumption DEF TypeOK, Goto, locks, waiters, life, InHandler, Threads, Started
<1>1. ASSUME NEW w \in Workers, Spawn(w) PROVE Started'
  BY <1>1 DEF Spawn, MainPcs, WorkerPcs, HandlerPcs, PcOf
<1>2. ASSUME Listen PROVE Started'
  BY <1>2 DEF Listen, MainPcs, WorkerPcs, HandlerPcs, PcOf
<1>3. ASSUME NEW c \in Fds, Accept(c) PROVE Started'
  BY <1>3 DEF Accept, MainPcs, WorkerPcs, HandlerPcs, PcOf
<1>4. ASSUME MainFails PROVE Started'
  BY <1>4 DEF MainFails, MainPcs, WorkerPcs, HandlerPcs, PcOf
<1>5. ASSUME PushLock PROVE Started'
  BY <1>5 DEF PushLock, MainPcs, WorkerPcs, HandlerPcs, PcOf
<1>6. ASSUME Push PROVE Started'
  BY <1>6 DEF Push, MainPcs, WorkerPcs, HandlerPcs, PcOf
<1>7. ASSUME NEW w \in Workers, LoopTest(w) PROVE Started'
  BY <1>7 DEF LoopTest, MainPcs, WorkerPcs, HandlerPcs, PcOf
<1>8. ASSUME NEW w \in Workers, Lock(w) PROVE Started'
  BY <1>8 DEF Lock, MainPcs, WorkerPcs, HandlerPcs, PcOf
<1>9. ASSUME NEW w \in Workers, Sleep(w) PROVE Started'
  BY <1>9 DEF Sleep, MainPcs, WorkerPcs, HandlerPcs, PcOf
<1>10. ASSUME NEW w \in Workers, Wake(w) PROVE Started'
  BY <1>10 DEF Wake, MainPcs, WorkerPcs, HandlerPcs, PcOf
<1>11. ASSUME NEW w \in Workers, Take(w) PROVE Started'
  BY <1>11 DEF Take, MainPcs, WorkerPcs, HandlerPcs, PcOf
<1>12. ASSUME NEW w \in Workers, Leave(w) PROVE Started'
  BY <1>12 DEF Leave, MainPcs, WorkerPcs, HandlerPcs, PcOf
<1>13. ASSUME NEW w \in Workers, Finish(w) PROVE Started'
  BY <1>13 DEF Finish, MainPcs, WorkerPcs, HandlerPcs, PcOf
<1>14. ASSUME NEW w \in Workers, Killed(w) PROVE Started'
  BY <1>14 DEF Killed, MainPcs, WorkerPcs, HandlerPcs, PcOf
<1>15. ASSUME NEW w \in Workers, ExitLock(w) PROVE Started'
  BY <1>15 DEF ExitLock, MainPcs, WorkerPcs, HandlerPcs, PcOf
<1>16. ASSUME NEW w \in Workers, IncrExit(w) PROVE Started'
  BY <1>16 DEF IncrExit, MainPcs, WorkerPcs, HandlerPcs, PcOf
<1>17. ASSUME NEW t \in Threads, SpuriousWake(t) PROVE Started'
  BY <1>17 DEF SpuriousWake, MainPcs, WorkerPcs, HandlerPcs, PcOf
<1>18. ASSUME NEW t \in Threads, SigInt(t) PROVE Started'
  BY <1>18 DEF SigInt, MainPcs, WorkerPcs, HandlerPcs, PcOf
<1>19. ASSUME NEW t \in Threads, QuitLock(t) PROVE Started'
  BY <1>19 DEF QuitLock, MainPcs, WorkerPcs, HandlerPcs, PcOf
<1>20. ASSUME NEW t \in Threads, QuitStop(t) PROVE Started'
  BY <1>20 DEF QuitStop, MainPcs, WorkerPcs, HandlerPcs, PcOf
<1>21. ASSUME NEW t \in Threads, QuitSleep(t) PROVE Started'
  BY <1>21 DEF QuitSleep, MainPcs, WorkerPcs, HandlerPcs, PcOf
<1>22. ASSUME NEW t \in Threads, QuitWake(t) PROVE Started'
  BY <1>22 DEF QuitWake, MainPcs, WorkerPcs, HandlerPcs, PcOf
<1>23. ASSUME NEW t \in Threads, FreeAll(t) PROVE Started'
  BY <1>23 DEF FreeAll, MainPcs, WorkerPcs, HandlerPcs, PcOf
<1>24. ASSUME NEW t \in Threads, Exit(t) PROVE Started'
  BY <1>24 DEF Exit, MainPcs, WorkerPcs, HandlerPcs, PcOf
<1>25. ASSUME UNCHANGED vars PROVE Started'
  BY <1>25 DEF vars, MainPcs, WorkerPcs, HandlerPcs, PcOf
<1> QED
  BY <1>1, <1>2, <1>3, <1>4, <1>5, <1>6, <1>7, <1>8, <1>9, <1>10, <1>11, <1>12, <1>13,
     <1>14, <1>15, <1>16, <1>17, <1>18, <1>19, <1>20, <1>21, <1>22, <1>23, <1>24, <1>25
  DEF Next, Step, Exited, MainStep, Arrival, Death, WorkerStep, QuitStep

\* A step takes a mutex only for a thread that will give it back, if it is left to go on.
LEMMA OwnersStep ==
  TypeOK /\ LocksHeld /\ Owners /\ [Next]_vars => Owners'
<1> SUFFICES ASSUME TypeOK, LocksHeld, Owners, [Next]_vars PROVE Owners'
  OBVIOUS
<1> USE PoolAssumption DEF TypeOK, Goto, locks, waiters, life, InHandler, Threads, Owners
<1>1. ASSUME NEW w \in Workers, Spawn(w) PROVE Owners'
  BY <1>1 DEF Spawn, LocksHeld, MainPcs, WorkerPcs, HandlerPcs, PcOf
<1>2. ASSUME Listen PROVE Owners'
  BY <1>2 DEF Listen, LocksHeld, MainPcs, WorkerPcs, HandlerPcs, PcOf
<1>3. ASSUME NEW c \in Fds, Accept(c) PROVE Owners'
  BY <1>3 DEF Accept, LocksHeld, MainPcs, WorkerPcs, HandlerPcs, PcOf
<1>4. ASSUME MainFails PROVE Owners'
  BY <1>4 DEF MainFails, LocksHeld, MainPcs, WorkerPcs, HandlerPcs, PcOf
<1>5. ASSUME PushLock PROVE Owners'
  BY <1>5 DEF PushLock, LocksHeld, MainPcs, WorkerPcs, HandlerPcs, PcOf
<1>6. ASSUME Push PROVE Owners'
  BY <1>6 DEF Push, LocksHeld, MainPcs, WorkerPcs, HandlerPcs, PcOf
<1>7. ASSUME NEW w \in Workers, LoopTest(w) PROVE Owners'
  BY <1>7 DEF LoopTest, LocksHeld, MainPcs, WorkerPcs, HandlerPcs, PcOf
<1>8. ASSUME NEW w \in Workers, Lock(w) PROVE Owners'
  BY <1>8 DEF Lock, LocksHeld, MainPcs, WorkerPcs, HandlerPcs, PcOf
<1>9. ASSUME NEW w \in Workers, Sleep(w) PROVE Owners'
  BY <1>9 DEF Sleep, LocksHeld, MainPcs, WorkerPcs, HandlerPcs, PcOf
<1>10. ASSUME NEW w \in Workers, Wake(w) PROVE Owners'
  BY <1>10 DEF Wake, LocksHeld, MainPcs, WorkerPcs, HandlerPcs, PcOf
<1>11. ASSUME NEW w \in Workers, Take(w) PROVE Owners'
  BY <1>11 DEF Take, LocksHeld, MainPcs, WorkerPcs, HandlerPcs, PcOf
<1>12. ASSUME NEW w \in Workers, Leave(w) PROVE Owners'
  BY <1>12 DEF Leave, LocksHeld, MainPcs, WorkerPcs, HandlerPcs, PcOf
<1>13. ASSUME NEW w \in Workers, Finish(w) PROVE Owners'
  BY <1>13 DEF Finish, LocksHeld, MainPcs, WorkerPcs, HandlerPcs, PcOf
<1>14. ASSUME NEW w \in Workers, Killed(w) PROVE Owners'
  BY <1>14 DEF Killed, LocksHeld, MainPcs, WorkerPcs, HandlerPcs, PcOf
<1>15. ASSUME NEW w \in Workers, ExitLock(w) PROVE Owners'
  BY <1>15 DEF ExitLock, LocksHeld, MainPcs, WorkerPcs, HandlerPcs, PcOf
<1>16. ASSUME NEW w \in Workers, IncrExit(w) PROVE Owners'
  BY <1>16 DEF IncrExit, LocksHeld, MainPcs, WorkerPcs, HandlerPcs, PcOf
<1>17. ASSUME NEW t \in Threads, SpuriousWake(t) PROVE Owners'
  BY <1>17 DEF SpuriousWake, LocksHeld, MainPcs, WorkerPcs, HandlerPcs, PcOf
<1>18. ASSUME NEW t \in Threads, SigInt(t) PROVE Owners'
  BY <1>18 DEF SigInt, LocksHeld, MainPcs, WorkerPcs, HandlerPcs, PcOf
<1>19. ASSUME NEW t \in Threads, QuitLock(t) PROVE Owners'
  BY <1>19 DEF QuitLock, LocksHeld, MainPcs, WorkerPcs, HandlerPcs, PcOf
<1>20. ASSUME NEW t \in Threads, QuitStop(t) PROVE Owners'
  BY <1>20 DEF QuitStop, LocksHeld, MainPcs, WorkerPcs, HandlerPcs, PcOf
<1>21. ASSUME NEW t \in Threads, QuitSleep(t) PROVE Owners'
  BY <1>21 DEF QuitSleep, LocksHeld, MainPcs, WorkerPcs, HandlerPcs, PcOf
<1>22. ASSUME NEW t \in Threads, QuitWake(t) PROVE Owners'
  BY <1>22 DEF QuitWake, LocksHeld, MainPcs, WorkerPcs, HandlerPcs, PcOf
<1>23. ASSUME NEW t \in Threads, FreeAll(t) PROVE Owners'
  BY <1>23 DEF FreeAll, LocksHeld, MainPcs, WorkerPcs, HandlerPcs, PcOf
<1>24. ASSUME NEW t \in Threads, Exit(t) PROVE Owners'
  BY <1>24 DEF Exit, LocksHeld, MainPcs, WorkerPcs, HandlerPcs, PcOf
<1>25. ASSUME UNCHANGED vars PROVE Owners'
  BY <1>25 DEF vars, LocksHeld, MainPcs, WorkerPcs, HandlerPcs, PcOf
<1> QED
  BY <1>1, <1>2, <1>3, <1>4, <1>5, <1>6, <1>7, <1>8, <1>9, <1>10, <1>11, <1>12, <1>13,
     <1>14, <1>15, <1>16, <1>17, <1>18, <1>19, <1>20, <1>21, <1>22, <1>23, <1>24, <1>25
  DEF Next, Step, Exited, MainStep, Arrival, Death, WorkerStep, QuitStep

\* A step lets no thread sleep on in a pool that is stopped.
LEMMA StoppedStep ==
  TypeOK /\ Stopped /\ [Next]_vars => Stopped'
<1> SUFFICES ASSUME TypeOK, Stopped, [Next]_vars PROVE Stopped'
  OBVIOUS
<1> USE PoolAssumption DEF TypeOK, Goto, locks, waiters, life, InHandler, Threads, Stopped
<1>1. ASSUME NEW w \in Workers, Spawn(w) PROVE Stopped'
  BY <1>1 DEF Spawn, SignalStack, MainPcs, WorkerPcs, HandlerPcs, PcOf
<1>2. ASSUME Listen PROVE Stopped'
  BY <1>2 DEF Listen, SignalStack, MainPcs, WorkerPcs, HandlerPcs, PcOf
<1>3. ASSUME NEW c \in Fds, Accept(c) PROVE Stopped'
  BY <1>3 DEF Accept, SignalStack, MainPcs, WorkerPcs, HandlerPcs, PcOf
<1>4. ASSUME MainFails PROVE Stopped'
  BY <1>4 DEF MainFails, SignalStack, MainPcs, WorkerPcs, HandlerPcs, PcOf
<1>5. ASSUME PushLock PROVE Stopped'
  BY <1>5 DEF PushLock, SignalStack, MainPcs, WorkerPcs, HandlerPcs, PcOf
<1>6. ASSUME Push PROVE Stopped'
  BY <1>6 DEF Push, SignalStack, MainPcs, WorkerPcs, HandlerPcs, PcOf
<1>7. ASSUME NEW w \in Workers, LoopTest(w) PROVE Stopped'
  BY <1>7 DEF LoopTest, SignalStack, MainPcs, WorkerPcs, HandlerPcs, PcOf
<1>8. ASSUME NEW w \in Workers, Lock(w) PROVE Stopped'
  BY <1>8 DEF Lock, SignalStack, MainPcs, WorkerPcs, HandlerPcs, PcOf
<1>9. ASSUME NEW w \in Workers, Sleep(w) PROVE Stopped'
  BY <1>9 DEF Sleep, SignalStack, MainPcs, WorkerPcs, HandlerPcs, PcOf
<1>10. ASSUME NEW w \in Workers, Wake(w) PROVE Stopped'
  BY <1>10 DEF Wake, SignalStack, MainPcs, WorkerPcs, HandlerPcs, PcOf
<1>11. ASSUME NEW w \in Workers, Take(w) PROVE Stopped'
  BY <1>11 DEF Take, SignalStack, MainPcs, WorkerPcs, HandlerPcs, PcOf
<1>12. ASSUME NEW w \in Workers, Leave(w) PROVE Stopped'
  BY <1>12 DEF Leave, SignalStack, MainPcs, WorkerPcs, HandlerPcs, PcOf
<1>13. ASSUME NEW w \in Workers, Finish(w) PROVE Stopped'
  BY <1>13 DEF Finish, SignalStack, MainPcs, WorkerPcs, HandlerPcs, PcOf
<1>14. ASSUME NEW w \in Workers, Killed(w) PROVE Stopped'
  BY <1>14 DEF Killed, SignalStack, MainPcs, WorkerPcs, HandlerPcs, PcOf
<1>15. ASSUME NEW w \in Workers, ExitLock(w) PROVE Stopped'
  BY <1>15 DEF ExitLock, SignalStack, MainPcs, WorkerPcs, HandlerPcs, PcOf
<1>16. ASSUME NEW w \in Workers, IncrExit(w) PROVE Stopped'
  BY <1>16 DEF IncrExit, SignalStack, MainPcs, WorkerPcs, HandlerPcs, PcOf
<1>17. ASSUME NEW t \in Threads, SpuriousWake(t) PROVE Stopped'
  BY <1>17 DEF SpuriousWake, SignalStack, MainPcs, WorkerPcs, HandlerPcs, PcOf
<1>18. ASSUME NEW t \in Threads, SigInt(t) PROVE Stopped'
  BY <1>18 DEF SigInt, SignalStack, MainPcs, WorkerPcs, HandlerPcs, PcOf
<1>19. ASSUME NEW t \in Threads, QuitLock(t) PROVE Stopped'
  BY <1>19 DEF QuitLock, SignalStack, MainPcs, WorkerPcs, HandlerPcs, PcOf
<1>20. ASSUME NEW t \in Threads, QuitStop(t) PROVE Stopped'
  BY <1>20 DEF QuitStop, SignalStack, MainPcs, WorkerPcs, HandlerPcs, PcOf
<1>21. ASSUME NEW t \in Threads, QuitSleep(t) PROVE Stopped'
  BY <1>21 DEF QuitSleep, SignalStack, MainPcs, WorkerPcs, HandlerPcs, PcOf
<1>22. ASSUME NEW t \in Threads, QuitWake(t) PROVE Stopped'
  BY <1>22 DEF QuitWake, SignalStack, MainPcs, WorkerPcs, HandlerPcs, PcOf
<1>23. ASSUME NEW t \in Threads, FreeAll(t) PROVE Stopped'
  BY <1>23 DEF FreeAll, SignalStack, MainPcs, WorkerPcs, HandlerPcs, PcOf
<1>24. ASSUME NEW t \in Threads, Exit(t) PROVE Stopped'
  BY <1>24 DEF Exit, SignalStack, MainPcs, WorkerPcs, HandlerPcs, PcOf
<1>25. ASSUME UNCHANGED vars PROVE Stopped'
  BY <1>25 DEF vars, SignalStack, MainPcs, WorkerPcs, HandlerPcs, PcOf
<1> QED
  BY <1>1, <1>2, <1>3, <1>4, <1>5, <1>6, <1>7, <1>8, <1>9, <1>10, <1>11, <1>12, <1>13,
     <1>14, <1>15, <1>16, <1>17, <1>18, <1>19, <1>20, <1>21, <1>22, <1>23, <1>24, <1>25
  DEF Next, Step, Exited, MainStep, Arrival, Death, WorkerStep, QuitStep

\* In a state of these invariants the pool has somebody to go on, nothing to do, or lost a thread.
LEMMA SomebodyGoes ==
  ASSUME IInv, NoIdleWhileWork, Started, Owners, Stopped
  PROVE  (\E t \in Threads : CanGo(t)) \/ Resting \/ Interrupted
<1> SUFFICES ASSUME \A t \in Threads : ~CanGo(t), ~Interrupted PROVE Resting
  OBVIOUS
<1> USE PoolAssumption DEF Threads
<1>1. /\ \A t \in Threads : pc[t] \in PcOf(t) \cup HandlerPcs
      /\ stackOwner \in Threads \cup {Nobody} /\ exitOwner \in Threads \cup {Nobody}
  BY DEF IInv, TypeOK
<1>2. ASSUME NEW w \in Workers
      PROVE  /\ ~InHandler(w) /\ pc[w] \in WorkerPcs
             /\ pc[w] = "unborn" => ~InHandler(Main)
  <2>1. InHandler(w) => InHandler(Main)
    BY DEF IInv, StopsInHandler
  <2>2. ~InHandler(w)
    BY <2>1 DEF Interrupted
  <2> QED
    BY <2>2, <1>1 DEF Interrupted, InHandler, PcOf
<1>3. stackOwner = Nobody
  <2> SUFFICES ASSUME NEW t \in Threads, stackOwner = t PROVE FALSE
    BY <1>1
  <2>1. pc[t] \in {"check", "pushing"} \cup HandlerPcs /\ t # Logger
    BY DEF IInv, LocksHeld, Owners
  <2>2. CASE t = Main
    <3>1. ~InHandler(Main)
      BY <2>2 DEF Interrupted
    <3> QED
      BY <3>1, <2>1, <2>2, <1>1 DEF InHandler, PcOf, MainPcs, HandlerPcs, CanGo
  <2>3. CASE t \in Workers
    BY <2>1, <2>3, <1>2 DEF InHandler, WorkerPcs, CanGo
  <2> QED
    BY <2>1, <2>2, <2>3
<1>4. exitOwner = Nobody
  <2> SUFFICES ASSUME NEW t \in Threads, exitOwner = t PROVE FALSE
    BY <1>1
  <2>1. \/ pc[t] \in {"exiting", "quitStop", "quitSleep", "quitFree"}
        \/ t \in Workers /\ InHandler(t)
    BY DEF Owners
  <2>2. pc[t] \in {"exiting", "quitStop", "quitSleep", "quitFree"}
    BY <2>1, <1>2
  <2>3. pc[t] = "exiting"
    BY <2>2, <1>3 DEF CanGo
  <2>4. t \in Workers
    BY <2>3, <1>1 DEF PcOf, MainPcs, HandlerPcs
  <2> QED
    BY <2>3, <2>4 DEF CanGo
<1>5. ASSUME NEW w \in Workers
      PROVE  pc[w] \in {"unborn", "done"} \/ (pc[w] = "wait" /\ w \in stackWaiters)
  BY <1>2, <1>3, <1>4 DEF WorkerPcs, CanGo
<1>6. pc[Main] \in {"accept", "quitWait"} /\ (pc[Main] = "quitWait" => Main \in exitWaiters)
  BY <1>1, <1>3, <1>4 DEF PcOf, MainPcs, HandlerPcs, CanGo, Started
<1>7. CASE pc[Main] = "quitWait"
  <2>1. ~running /\ stackWaiters = {} /\ InHandler(Main)
    BY <1>7 DEF Stopped, InHandler, HandlerPcs
  <2>2. \A w \in Workers : pc[w] = "done"
    BY <2>1, <1>2, <1>5
  <2>3. DoneWorkers = Workers
    BY <2>2 DEF DoneWorkers
  <2>4. exited = Cardinality(Workers)
    BY <2>3 DEF IInv, ExitedCounted
  <2>5. PICK t \in Threads : \/ pc[t] = "quitWait" /\ t \notin exitWaiters
                             \/ pc[t] \in {"quitFree", "quitExit"}
    BY <2>4 DEF IInv, ExitSignalNotLost
  <2> QED
    BY <2>5, <1>4 DEF CanGo
<1>8. CASE pc[Main] = "accept"
  <2>1. ~InHandler(Main) /\ (\A w \in Workers : pc[w] # "unborn")
    BY <1>8 DEF InHandler, HandlerPcs, MainPcs, Started
  <2>2. running
    BY <2>1 DEF IInv, StopsInHandler, InHandler, HandlerPcs
  <2>3. \A w \in Workers : pc[w] = "wait" /\ w \in stackWaiters
    BY <2>1, <2>2, <1>5 DEF IInv, StopsInHandler
  <2>4. Contending = {} /\ stackWaiters # {}
    BY <2>3 DEF Contending
  <2>5. Len(stack) <= 0
    BY <2>1, <2>4, FS_EmptySet DEF NoIdleWhileWork
  <2>6. stack = <<>>
    BY <2>5 DEF IInv, TypeOK
  <2> QED
    BY <1>8, <2>3, <2>6 DEF Resting
<1> QED
  BY <1>6, <1>7, <1>8

\* Started, Owners and Stopped hold throughout.
LEMMA GoesOn == Spec => [](Started /\ Owners /\ Stopped)
<1>1. Init => Started /\ Owners /\ Stopped
  <2> SUFFICES ASSUME Init PROVE Started /\ Owners /\ Stopped
    OBVIOUS
  <2>1. \A t \in Threads : pc[t] = CASE t = Main -> "spawn" [] t = Logger -> "log"
                                     [] t \in Workers -> "unborn"
    BY DEF Init
  <2>2. pc[Main] = "spawn" /\ \A w \in Workers : pc[w] = "unborn"
    BY <2>1, PoolAssumption DEF Threads
  <2>3. \A t \in Threads : pc[t] \in {"spawn", "log", "unborn"}
    BY <2>1, PoolAssumption DEF Threads
  <2> QED
    BY <2>2, <2>3, PoolAssumption DEF Init, Started, Owners, Stopped, Threads, MainPcs
<1>2. IInv /\ Started /\ Owners /\ Stopped /\ [Next]_vars => (Started /\ Owners /\ Stopped)'
  BY StartedStep, OwnersStep, StoppedStep DEF IInv
<1> QED
  BY <1>1, <1>2, Invariance, PTL DEF Spec

\* The pool never comes to a stop, whatever the number of threads and connections,
\* but when there is nothing to do or SIGINT took a thread away from code that the
\* others wait for: HangsOnlyIfInterrupted, with the guards written out.
THEOREM NoHang == Spec => [](alive => (\E t \in Threads : CanGo(t)) \/ Resting \/ Interrupted)
<1>1. IInv /\ NoIdleWhileWork /\ Started /\ Owners /\ Stopped =>
        (alive => (\E t \in Threads : CanGo(t)) \/ Resting \/ Interrupted)
  BY SomebodyGoes
<1> QED
  BY <1>1, GoesOn, Invariance, NoIdle, PTL

\* HangsOnlyIfInterrupted as the run checks it, from the one fact about ENABLED that it
\* needs: a thread whose guard holds has a step.
THEOREM HangOnlyIfInterrupted ==
  Spec /\ [](alive /\ (\E t \in Threads : CanGo(t)) => ENABLED Go) => []HangsOnlyIfInterrupted
<1>1. /\ alive => (\E t \in Threads : CanGo(t)) \/ Resting \/ Interrupted
      /\ alive /\ (\E t \in Threads : CanGo(t)) => ENABLED Go
      => HangsOnlyIfInterrupted
  BY DEF HangsOnlyIfInterrupted
<1> QED
  BY <1>1, NoHang, PTL

-----------------------------------------------------------------------------
(* No spinning: what the steps of the pool wear down *)

\* How far main() is from waiting in accept().
Errand ==
  CASE pc[Main] = "spawn" -> 4 [] pc[Main] = "listen" -> 3
    [] pc[Main] = "push" -> 2 [] pc[Main] = "pushing" -> 1
    [] OTHER -> 0

\* How far a thread is from being asleep or gone, as long as nothing interrupts it.
Rank(t) ==
  CASE pc[t] = "quit" -> 6 [] pc[t] = "quitStop" -> 5 [] pc[t] = "quitSleep" -> 4
    [] pc[t] = "quitWait" -> 3 [] pc[t] = "quitFree" -> 2 [] pc[t] = "quitExit" -> 1
    [] pc[t] = "unborn" -> 5
    [] pc[t] = "lock" -> IF running THEN 2 ELSE 5
    [] pc[t] = "wait" -> IF ~running THEN 5 ELSE IF t \in stackWaiters THEN 0 ELSE 2
    [] pc[t] = "check" -> IF running THEN 1 ELSE 4
    [] pc[t] = "serve" -> 4 [] pc[t] = "top" -> 3
    [] pc[t] = "exit" -> 2 [] pc[t] = "exiting" -> 1
    [] OTHER -> 0

\* A step wears down the first of these that it changes: whether the pool runs, the
\* errand of main(), the stack, and, one thread at a time, the ranks.
Descends ==
  \/ ~alive'
  \/ running /\ ~running'
  \/ running' = running /\ Errand' < Errand
  \/ running' = running /\ Errand' = Errand /\ Len(stack') < Len(stack)
  \/ /\ running' = running /\ Errand' = Errand /\ stack' = stack
     /\ \E t \in Threads : /\ Rank(t)' < Rank(t)
                           /\ \A u \in Threads \ {t} : Rank(u)' = Rank(u)

\* All of it is bounded below.
LEMMA RanksBounded ==
  Errand \in 0 .. 4 /\ \A t \in Threads : Rank(t) \in 0 .. 6
  BY DEF Errand, Rank

\* Every step but a connection, a signal or a spurious wake-up descends.
LEMMA DescendsStep ==
  ASSUME IInv, Stopped, alive, Step, ~Arrival,
         ~\E t \in Threads : SigInt(t) \/ SpuriousWake(t)
  PROVE  Descends
<1> USE PoolAssumption DEF Goto, locks, waiters, life, Threads
<1>a. TypeOK /\ WaitersWait /\ StopsInHandler /\ Stopped
  BY DEF IInv
<1>b. ASSUME ~alive' PROVE Descends
  BY <1>b DEF Descends
<1>c. ASSUME running' = running, stack' = stack, Errand' = Errand, NEW t \in Threads,
             Rank(t)' < Rank(t), \A u \in Threads \ {t} : Rank(u)' = Rank(u)
      PROVE  Descends
  BY <1>c DEF Descends
<1>d. ASSUME running' = running, NEW t \in Workers, NEW l,
             pc' = [pc EXCEPT ![t] = l],
             stackWaiters' \subseteq stackWaiters \cup {t},
             \A u \in Threads \ {t} : pc[u] = "wait" /\ running =>
               (u \in stackWaiters' <=> u \in stackWaiters)
      PROVE  Errand' = Errand /\ \A u \in Threads \ {t} : Rank(u)' = Rank(u)
  <2>1. \A u \in Threads \ {t} : pc'[u] = pc[u]
    BY <1>d, <1>a DEF TypeOK
  <2>2. Errand' = Errand
    BY <2>1 DEF Errand
  <2>3. \A u \in Threads \ {t} : Rank(u)' = Rank(u)
    BY <2>1, <1>d DEF Rank
  <2> QED
    BY <2>2, <2>3
<1>1. ASSUME NEW w \in Workers, Spawn(w) PROVE Descends
  <2>1. CASE pc'[Main] = "listen"
    BY <2>1, <1>1, <1>a DEF Spawn, Errand, TypeOK, Descends
  <2>2. CASE pc'[Main] = "spawn"
    <3>1. Errand' = Errand
      BY <2>2, <1>1, <1>a DEF Spawn, Errand, TypeOK
    <3>2. Rank(w)' < Rank(w)
      BY <1>1, <1>a DEF Spawn, Rank, TypeOK
    <3>3. \A u \in Threads \ {w} : Rank(u)' = Rank(u)
      BY <1>1, <1>a, <2>2 DEF Spawn, Rank, TypeOK
    <3> QED
      BY <3>1, <3>2, <3>3, <1>1, <1>c DEF Spawn
  <2> QED
    BY <2>1, <2>2, <1>1, <1>a DEF Spawn, TypeOK
<1>2. ASSUME Listen PROVE Descends
  BY <1>2, <1>a DEF Listen, Errand, TypeOK, Descends
<1>4. ASSUME MainFails PROVE Descends
  BY <1>4, <1>b DEF MainFails
<1>5. ASSUME PushLock PROVE Descends
  BY <1>5, <1>a DEF PushLock, Errand, TypeOK, Descends
<1>6. ASSUME Push PROVE Descends
  BY <1>6, <1>a DEF Push, Errand, TypeOK, Descends
<1>7. ASSUME NEW w \in Workers, LoopTest(w) PROVE Descends
  <2>1. Rank(w)' < Rank(w)
    BY <1>7, <1>a DEF LoopTest, Rank, TypeOK
  <2> QED
    BY <2>1, <1>7, <1>c, <1>d DEF LoopTest
<1>8. ASSUME NEW w \in Workers, Lock(w) PROVE Descends
  <2>1. Rank(w)' < Rank(w)
    BY <1>8, <1>a DEF Lock, Rank, TypeOK
  <2> QED
    BY <2>1, <1>8, <1>c, <1>d DEF Lock
<1>9. ASSUME NEW w \in Workers, Sleep(w) PROVE Descends
  <2>1. Rank(w)' < Rank(w)
    BY <1>9, <1>a DEF Sleep, Rank, TypeOK
  <2> QED
    BY <2>1, <1>9, <1>c, <1>d DEF Sleep
<1>10. ASSUME NEW w \in Workers, Wake(w) PROVE Descends
  <2>1. Rank(w)' < Rank(w)
    BY <1>10, <1>a DEF Wake, Rank, TypeOK
  <2> QED
    BY <2>1, <1>10, <1>c, <1>d DEF Wake
<1>11. ASSUME NEW w \in Workers, Take(w) PROVE Descends
  <2>1. Len(stack') < Len(stack)
    BY <1>11, <1>a DEF Take, TypeOK, StackEmpty
  <2>2. Errand' = Errand
    BY <1>11, <1>a DEF Take, TypeOK, Errand
  <2> QED
    BY <2>1, <2>2, <1>11 DEF Take, Descends
<1>12. ASSUME NEW w \in Workers, Leave(w) PROVE Descends
  <2>1. Rank(w)' < Rank(w)
    BY <1>12, <1>a DEF Leave, Rank, TypeOK
  <2> QED
    BY <2>1, <1>12, <1>c, <1>d DEF Leave
<1>13. ASSUME NEW w \in Workers, Finish(w) PROVE Descends
  <2>1. Rank(w)' < Rank(w)
    BY <1>13, <1>a DEF Finish, Rank, TypeOK
  <2> QED
    BY <2>1, <1>13, <1>c, <1>d DEF Finish
<1>14. ASSUME NEW w \in Workers, Killed(w) PROVE Descends
  BY <1>14, <1>b DEF Killed
<1>15. ASSUME NEW w \in Workers, ExitLock(w) PROVE Descends
  <2>1. Rank(w)' < Rank(w)
    BY <1>15, <1>a DEF ExitLock, Rank, TypeOK
  <2> QED
    BY <2>1, <1>15, <1>c, <1>d DEF ExitLock
<1>16. ASSUME NEW w \in Workers, IncrExit(w) PROVE Descends
  <2>1. ~running
    BY <1>16, <1>a DEF IncrExit, StopsInHandler
  <2>2. Rank(w)' < Rank(w)
    BY <1>16, <1>a DEF IncrExit, Rank, TypeOK
  <2> QED
    BY <2>1, <2>2, <1>16, <1>c, <1>d DEF IncrExit
<1>q. ASSUME NEW t \in Threads, running' = running, stack' = stack,
             NEW l \in HandlerPcs, InHandler(t), pc' = [pc EXCEPT ![t] = l],
             \A u \in Threads \ {t} : running /\ pc[u] = "wait" =>
               (u \in stackWaiters' <=> u \in stackWaiters),
             Rank(t)' < Rank(t)
      PROVE Descends
  <2>1. \A u \in Threads \ {t} : pc'[u] = pc[u]
    BY <1>q, <1>a DEF TypeOK
  <2>2. pc[t] \in HandlerPcs /\ pc'[t] \in HandlerPcs
    BY <1>q, <1>a DEF TypeOK, InHandler
  <2>3. Errand' = Errand
    BY <2>1, <2>2 DEF Errand, HandlerPcs
  <2>4. \A u \in Threads \ {t} : Rank(u)' = Rank(u)
    BY <2>1, <1>q DEF Rank
  <2> QED
    BY <2>3, <2>4, <1>q, <1>c
<1>19. ASSUME NEW t \in Threads, QuitLock(t) PROVE Descends
  <2>1. Rank(t)' < Rank(t)
    BY <1>19, <1>a DEF QuitLock, Rank, TypeOK
  <2> QED
    BY <2>1, <1>19, <1>q DEF QuitLock, InHandler, HandlerPcs
<1>20. ASSUME NEW t \in Threads, QuitStop(t) PROVE Descends
  <2>1. CASE running
    BY <2>1, <1>20 DEF QuitStop, Descends
  <2>2. CASE ~running
    <3>1. Rank(t)' < Rank(t)
      BY <1>20, <1>a DEF QuitStop, Rank, TypeOK
    <3>2. running' = running
      BY <2>2, <1>20, <1>a DEF QuitStop, TypeOK
    <3> QED
      BY <2>2, <3>1, <3>2, <1>20, <1>q DEF QuitStop, InHandler, HandlerPcs
  <2> QED
    BY <2>1, <2>2
<1>21. ASSUME NEW t \in Threads, QuitSleep(t) PROVE Descends
  <2>1. Rank(t)' < Rank(t)
    BY <1>21, <1>a DEF QuitSleep, Rank, TypeOK
  <2> QED
    BY <2>1, <1>21, <1>q DEF QuitSleep, InHandler, HandlerPcs
<1>22. ASSUME NEW t \in Threads, QuitWake(t) PROVE Descends
  <2>1. Rank(t)' < Rank(t)
    BY <1>22, <1>a DEF QuitWake, Rank, TypeOK
  <2> QED
    BY <2>1, <1>22, <1>q DEF QuitWake, InHandler, HandlerPcs
<1>23. ASSUME NEW t \in Threads, FreeAll(t) PROVE Descends
  <2>1. Rank(t)' < Rank(t)
    BY <1>23, <1>a DEF FreeAll, Rank, TypeOK
  <2> QED
    BY <2>1, <1>23, <1>q DEF FreeAll, InHandler, HandlerPcs
<1>24. ASSUME NEW t \in Threads, Exit(t) PROVE Descends
  BY <1>24, <1>b DEF Exit
<1> QED
  BY <1>1, <1>2, <1>4, <1>5, <1>6, <1>7, <1>8, <1>9, <1>10, <1>11, <1>12, <1>13,
     <1>14, <1>15, <1>16, <1>19, <1>20, <1>21, <1>22, <1>23, <1>24
  DEF Step, MainStep, Arrival, Death, WorkerStep, QuitStep

\* Apart from connections, signals and spurious wake-ups the pool never spins: every
\* step of a thread takes it closer to rest or to the end.
THEOREM NeverSpins ==
  Spec => [][alive => Descends \/ Arrival \/ \E t \in Threads : SigInt(t) \/ SpuriousWake(t)]_vars
<1> DEFINE A == alive => Descends \/ Arrival \/ \E t \in Threads : SigInt(t) \/ SpuriousWake(t)
<1>1. IInv /\ Stopped /\ [Next]_vars => [A]_vars
  <2>1. ASSUME IInv, Stopped, Next, alive, ~Arrival,
               ~\E t \in Threads : SigInt(t) \/ SpuriousWake(t)
        PROVE  Descends
    <3>1. Step
      BY <2>1 DEF Next, Exited
    <3> QED
      BY <3>1, <2>1, DescendsStep
  <2> QED
    BY <2>1
<1> QED
  BY <1>1, Invariance, GoesOn, PTL DEF Spec

\* If the one SIGINT finds main() past its last pthread_create and outside push(),
\* quit() takes no thread away from code that others wait for.
Untouched ==
  InHandler(Main) =>
    /\ sigints >= 1 /\ stackOwner # Main
    /\ \A w \in Workers : pc[w] # "unborn" /\ ~InHandler(w)

\* A step keeps it so, when a second SIGINT does not come.
LEMMA UntouchedStep ==
  ASSUME MaxSigints <= 1, SigWindow \subseteq {"listen", "accept", "push"},
         TypeOK, LocksHeld, StopsInHandler, Started, Untouched, [Next]_vars
  PROVE  Untouched'
<1> USE PoolAssumption DEF TypeOK, Goto, locks, waiters, life, InHandler, Threads, LocksHeld,
        StopsInHandler, Started, Untouched
<1>1. ASSUME NEW w \in Workers, Spawn(w) PROVE Untouched'
  BY <1>1 DEF Spawn, MainPcs, WorkerPcs, HandlerPcs, PcOf, SignalStack
<1>2. ASSUME Listen PROVE Untouched'
  BY <1>2 DEF Listen, MainPcs, WorkerPcs, HandlerPcs, PcOf, SignalStack
<1>3. ASSUME NEW c \in Fds, Accept(c) PROVE Untouched'
  BY <1>3 DEF Accept, MainPcs, WorkerPcs, HandlerPcs, PcOf, SignalStack
<1>4. ASSUME MainFails PROVE Untouched'
  BY <1>4 DEF MainFails, MainPcs, WorkerPcs, HandlerPcs, PcOf, SignalStack
<1>5. ASSUME PushLock PROVE Untouched'
  BY <1>5 DEF PushLock, MainPcs, WorkerPcs, HandlerPcs, PcOf, SignalStack
<1>6. ASSUME Push PROVE Untouched'
  BY <1>6 DEF Push, MainPcs, WorkerPcs, HandlerPcs, PcOf, SignalStack
<1>7. ASSUME NEW w \in Workers, LoopTest(w) PROVE Untouched'
  BY <1>7 DEF LoopTest, MainPcs, WorkerPcs, HandlerPcs, PcOf, SignalStack
<1>8. ASSUME NEW w \in Workers, Lock(w) PROVE Untouched'
  BY <1>8 DEF Lock, MainPcs, WorkerPcs, HandlerPcs, PcOf, SignalStack
<1>9. ASSUME NEW w \in Workers, Sleep(w) PROVE Untouched'
  BY <1>9 DEF Sleep, MainPcs, WorkerPcs, HandlerPcs, PcOf, SignalStack
<1>10. ASSUME NEW w \in Workers, Wake(w) PROVE Untouched'
  BY <1>10 DEF Wake, MainPcs, WorkerPcs, HandlerPcs, PcOf, SignalStack
<1>11. ASSUME NEW w \in Workers, Take(w) PROVE Untouched'
  BY <1>11 DEF Take, MainPcs, WorkerPcs, HandlerPcs, PcOf, SignalStack
<1>12. ASSUME NEW w \in Workers, Leave(w) PROVE Untouched'
  BY <1>12 DEF Leave, MainPcs, WorkerPcs, HandlerPcs, PcOf, SignalStack
<1>13. ASSUME NEW w \in Workers, Finish(w) PROVE Untouched'
  BY <1>13 DEF Finish, MainPcs, WorkerPcs, HandlerPcs, PcOf, SignalStack
<1>14. ASSUME NEW w \in Workers, Killed(w) PROVE Untouched'
  BY <1>14 DEF Killed, MainPcs, WorkerPcs, HandlerPcs, PcOf, SignalStack
<1>15. ASSUME NEW w \in Workers, ExitLock(w) PROVE Untouched'
  BY <1>15 DEF ExitLock, MainPcs, WorkerPcs, HandlerPcs, PcOf, SignalStack
<1>16. ASSUME NEW w \in Workers, IncrExit(w) PROVE Untouched'
  BY <1>16 DEF IncrExit, MainPcs, WorkerPcs, HandlerPcs, PcOf, SignalStack
<1>17. ASSUME NEW t \in Threads, SpuriousWake(t) PROVE Untouched'
  BY <1>17 DEF SpuriousWake, MainPcs, WorkerPcs, HandlerPcs, PcOf, SignalStack
<1>18. ASSUME NEW t \in Threads, SigInt(t) PROVE Untouched'
  BY <1>18 DEF SigInt, MainPcs, WorkerPcs, HandlerPcs, PcOf, SignalStack
<1>19. ASSUME NEW t \in Threads, QuitLock(t) PROVE Untouched'
  BY <1>19 DEF QuitLock, MainPcs, WorkerPcs, HandlerPcs, PcOf, SignalStack
<1>20. ASSUME NEW t \in Threads, QuitStop(t) PROVE Untouched'
  BY <1>20 DEF QuitStop, MainPcs, WorkerPcs, HandlerPcs, PcOf, SignalStack
<1>21. ASSUME NEW t \in Threads, QuitSleep(t) PROVE Untouched'
  BY <1>21 DEF QuitSleep, MainPcs, WorkerPcs, HandlerPcs, PcOf, SignalStack
<1>22. ASSUME NEW t \in Threads, QuitWake(t) PROVE Untouched'
  BY <1>22 DEF QuitWake, MainPcs, WorkerPcs, HandlerPcs, PcOf, SignalStack
<1>23. ASSUME NEW t \in Threads, FreeAll(t) PROVE Untouched'
  BY <1>23 DEF FreeAll, MainPcs, WorkerPcs, HandlerPcs, PcOf, SignalStack
<1>24. ASSUME NEW t \in Threads, Exit(t) PROVE Untouched'
  BY <1>24 DEF Exit, MainPcs, WorkerPcs, HandlerPcs, PcOf, SignalStack
<1>25. ASSUME UNCHANGED vars PROVE Untouched'
  BY <1>25 DEF vars, MainPcs, WorkerPcs, HandlerPcs, PcOf, SignalStack
<1> QED
  BY <1>1, <1>2, <1>3, <1>4, <1>5, <1>6, <1>7, <1>8, <1>9, <1>10, <1>11, <1>12, <1>13,
     <1>14, <1>15, <1>16, <1>17, <1>18, <1>19, <1>20, <1>21, <1>22, <1>23, <1>24, <1>25
  DEF Next, Step, Exited, MainStep, Arrival, Death, WorkerStep, QuitStep

\* A shutdown goes on to its end when one SIGINT comes while main() waits for a
\* connection or has just accepted one: until the process has exited, there is
\* always a thread that can take a step of it.
THEOREM ShutdownGoesOn ==
  ASSUME MaxSigints <= 1, SigWindow \subseteq {"listen", "accept", "push"}
  PROVE  Spec => [](InHandler(Main) /\ alive => \E t \in Threads : CanGo(t))
<1>1. Init => Untouched
  <2> SUFFICES ASSUME Init PROVE ~InHandler(Main)
    BY DEF Untouched
  <2>1. pc[Main] = "spawn"
    BY PoolAssumption DEF Init, Threads
  <2> QED
    BY <2>1 DEF InHandler, HandlerPcs
<1>2. IInv /\ Started /\ Untouched /\ [Next]_vars => Untouched'
  BY UntouchedStep DEF IInv
<1>3. /\ alive => (\E t \in Threads : CanGo(t)) \/ Resting \/ Interrupted
      /\ Untouched
      => (InHandler(Main) /\ alive => \E t \in Threads : CanGo(t))
  BY DEF Resting, Interrupted, Untouched, InHandler, HandlerPcs
<1> QED
  BY <1>1, <1>2, <1>3, Invariance, GoesOn, NoHang, PTL DEF Spec

-----------------------------------------------------------------------------
(* Refinement *)

\* The initial state of the pool is that of the dispatcher.
LEMMA RefinementInit == Init => D!Init
<1> SUFFICES ASSUME Init PROVE D!Init
  OBVIOUS
<1>1. \A t \in Threads : fd[t] = NoFd
  BY DEF Init
<1>2. Range(stack) = {}
  BY DEF Init, Range
<1>3. Phase = "open"
  BY DEF Init, Phase
<1>4. [w \in Workers |-> fd[w]] = [w \in Workers |-> NoFd] /\ fd[Main] = NoFd
  BY <1>1 DEF Threads
<1> QED
  BY <1>2, <1>3, <1>4 DEF D!Init

\* Every step of the pool is a step of the dispatcher or changes nothing there.
LEMMA RefinementStep ==
  ASSUME IInv, WokenAfterLast, alive, Next PROVE [D!Next]_(D!vars)
<1> DEFINE G == [D!Next]_(D!vars)
<1> USE PoolAssumption DEF Threads, Goto, locks, waiters, life
<1>a. TypeOK /\ FdHeld /\ StopsInHandler /\ ConnectionOwnedOnce
  BY DEF IInv
<1>b. ASSUME freed \/ \E t \in Threads : pc[t] = "quitFree"
      PROVE  ~running /\ \A w \in Workers : pc[w] = "done" /\ fd[w] = NoFd
  <2>1. \A w \in Workers : pc[w] = "done"
    BY <1>b, DoneWorkersFinite DEF IInv, WokenAfterLast, ExitedCounted, DoneWorkers
  <2>2. \A w \in Workers : fd[w] = NoFd
    BY <2>1, <1>a DEF FdHeld, InHandler, HandlerPcs
  <2> QED
    BY <2>1, <2>2, <1>a DEF StopsInHandler
<1>s. ASSUME UNCHANGED <<stack, fd, running, freed, alive>> PROVE G
  BY <1>s DEF D!vars, Phase
<1>d. ASSUME ~alive', UNCHANGED <<stack, fd>> PROVE G
  <2>1. Phase' = "dead"
    BY <1>d DEF Phase
  <2> QED
    BY <1>d, <2>1 DEF D!Next, D!Die
<1>1. ASSUME NEW w \in Workers, Spawn(w) PROVE G
  BY <1>1, <1>s DEF Spawn
<1>2. ASSUME Listen PROVE G
  BY <1>2, <1>s DEF Listen
<1>3. ASSUME NEW c \in Fds, Accept(c) PROVE G
  <2>1. fd[Main] = NoFd /\ c # NoFd /\ ~freed
    BY <1>3, <1>a, <1>b DEF Accept, FdHeld, InHandler, HandlerPcs, NoFd
  <2>2. Phase = "open" /\ Phase' = "open"
    BY <2>1, <1>3 DEF Accept, Phase
  <2>3. [w \in Workers |-> fd[w]]' = [w \in Workers |-> fd[w]]
    BY <1>3, <1>a DEF Accept, TypeOK
  <2>4. fd'[Main] = c /\ stack' = stack
    BY <1>3, <1>a DEF Accept, TypeOK
  <2>5. c \notin Range(stack) /\ \A w \in Workers : fd[w] # c
    BY <1>3, <2>1, <1>a DEF Accept, ConnectionOwnedOnce, TypeOK, Range
  <2> QED
    BY <2>1, <2>2, <2>3, <2>4, <2>5 DEF D!Next, D!Arrive, D!Held, D!Busy
<1>4. ASSUME MainFails PROVE G
  BY <1>4, <1>d DEF MainFails
<1>5. ASSUME PushLock PROVE G
  BY <1>5, <1>s DEF PushLock
<1>6. ASSUME Push PROVE G
  <2> DEFINE c == fd[Main]
  <2>1. c \in Fds /\ c # NoFd
    BY <1>6, <1>a DEF Push, FdHeld, InHandler, HandlerPcs, TypeOK
  <2>2. fd' = [fd EXCEPT ![Main] = NoFd] /\ stack' = <<c>> \o stack
    BY <1>6 DEF Push
  <2>3. Range(stack') = {c} \cup Range(stack)
    BY <2>1, <2>2, <1>a, PushedRange DEF ConnectionOwnedOnce, TypeOK
  <2>4. fd'[Main] = NoFd /\ [w \in Workers |-> fd[w]]' = [w \in Workers |-> fd[w]]
    BY <2>2, <1>a DEF TypeOK
  <2>5. Phase' = Phase
    BY <1>6 DEF Push, Phase
  <2> QED
    BY <2>1, <2>3, <2>4, <2>5 DEF D!vars
<1>7. ASSUME NEW w \in Workers, LoopTest(w) PROVE G
  BY <1>7, <1>s DEF LoopTest
<1>8. ASSUME NEW w \in Workers, Lock(w) PROVE G
  BY <1>8, <1>s DEF Lock
<1>9. ASSUME NEW w \in Workers, Sleep(w) PROVE G
  BY <1>9, <1>s DEF Sleep
<1>10. ASSUME NEW w \in Workers, Wake(w) PROVE G
  BY <1>10, <1>s DEF Wake
<1>11. ASSUME NEW w \in Workers, Take(w) PROVE G
  <2>0. PICK c : c = Head(stack)
    OBVIOUS
  <2>1. stack # <<>> /\ fd[w] = NoFd /\ ~freed
    BY <1>11, <1>a, <1>b DEF Take, StackEmpty, FdHeld, InHandler, HandlerPcs
  <2>2. fd' = [fd EXCEPT ![w] = c] /\ stack' = Tail(stack)
    BY <2>0, <1>11 DEF Take
  <2>3. c \in Range(stack) \ Range(stack') /\ Range(stack) = {c} \cup Range(stack')
    BY <2>0, <2>1, <2>2, <1>a, PoppedRange DEF ConnectionOwnedOnce, TypeOK
  <2>4. c \in Fds /\ c # fd[Main]
    <3>1. c \in Fds
      BY <2>3, <1>a, RangeOfSeq DEF TypeOK
    <3>2. fd[Main] # NoFd => fd[Main] \notin Range(stack)
      BY <1>a DEF ConnectionOwnedOnce
    <3> QED
      BY <3>1, <3>2, <2>3 DEF NoFd
  <2>5. fd'[Main] = fd[Main]
    BY <2>2, <1>a DEF TypeOK
  <2>6. [v \in Workers |-> fd[v]]' = [[v \in Workers |-> fd[v]] EXCEPT ![w] = c]
    BY <2>2, <1>a DEF TypeOK
  <2>7. Phase = "open" /\ Phase' = "open"
    BY <2>1, <1>11 DEF Take, Phase
  <2>8. D!Take(w, c)
    BY <2>1, <2>3, <2>4, <2>5, <2>6, <2>7 DEF D!Take
  <2> QED
    BY <2>4, <2>8 DEF D!Next
<1>12. ASSUME NEW w \in Workers, Leave(w) PROVE G
  BY <1>12, <1>s DEF Leave
<1>13. ASSUME NEW w \in Workers, Finish(w) PROVE G
  <2>1. fd[w] # NoFd /\ ~freed
    BY <1>13, <1>a, <1>b DEF Finish, FdHeld, InHandler, HandlerPcs
  <2>2. fd' = [fd EXCEPT ![w] = NoFd] /\ stack' = stack
    BY <1>13 DEF Finish
  <2>3. fd'[Main] = fd[Main]
    BY <2>2, <1>a DEF TypeOK
  <2>4. [v \in Workers |-> fd[v]]' = [[v \in Workers |-> fd[v]] EXCEPT ![w] = NoFd]
    BY <2>2, <1>a DEF TypeOK
  <2>5. Phase \in {"open", "draining"} /\ Phase' = Phase
    BY <2>1, <1>13 DEF Finish, Phase
  <2>6. D!Done(w)
    BY <2>1, <2>2, <2>3, <2>4, <2>5 DEF D!Done
  <2> QED
    BY <2>6 DEF D!Next
<1>14. ASSUME NEW w \in Workers, Killed(w) PROVE G
  BY <1>14, <1>d DEF Killed
<1>15. ASSUME NEW w \in Workers, ExitLock(w) PROVE G
  BY <1>15, <1>s DEF ExitLock
<1>16. ASSUME NEW w \in Workers, IncrExit(w) PROVE G
  BY <1>16, <1>s DEF IncrExit
<1>17. ASSUME NEW t \in Threads, SpuriousWake(t) PROVE G
  BY <1>17, <1>s DEF SpuriousWake
<1>18. ASSUME NEW t \in Threads, SigInt(t) PROVE G
  BY <1>18, <1>s DEF SigInt
<1>19. ASSUME NEW t \in Threads, QuitLock(t) PROVE G
  BY <1>19, <1>s DEF QuitLock
<1>20. ASSUME NEW t \in Threads, QuitStop(t) PROVE G
  <2>1. UNCHANGED <<stack, fd, freed, alive>> /\ ~running'
    BY <1>20 DEF QuitStop
  <2>2. CASE running
    <3>1. ~freed
      BY <2>2, <1>b
    <3>2. Phase = "open" /\ Phase' = "draining"
      BY <2>1, <2>2, <3>1 DEF Phase
    <3> QED
      BY <2>1, <3>2 DEF D!Next, D!Stop
  <2>3. CASE ~running
    <3>1. running' = FALSE /\ running = FALSE
      BY <2>3, <1>a, <1>20 DEF QuitStop, TypeOK
    <3> QED
      BY <2>1, <3>1, <1>s
  <2> QED
    BY <2>2, <2>3
<1>21. ASSUME NEW t \in Threads, QuitSleep(t) PROVE G
  BY <1>21, <1>s DEF QuitSleep
<1>22. ASSUME NEW t \in Threads, QuitWake(t) PROVE G
  BY <1>22, <1>s DEF QuitWake
<1>23. ASSUME NEW t \in Threads, FreeAll(t) PROVE G
  <2>1. UNCHANGED <<stack, fd, running, alive>> /\ freed'
    BY <1>23 DEF FreeAll
  <2>2. ~running /\ \A w \in Workers : fd[w] = NoFd
    BY <1>23, <1>b DEF FreeAll
  <2>3. CASE freed
    BY <2>1, <2>3, <1>a, <1>s DEF TypeOK
  <2>4. CASE ~freed
    <3>1. Phase = "draining" /\ Phase' = "drained"
      BY <2>1, <2>2, <2>4 DEF Phase
    <3> QED
      BY <2>1, <2>2, <3>1 DEF D!Next, D!Drained, D!Busy
  <2> QED
    BY <2>3, <2>4
<1>24. ASSUME NEW t \in Threads, Exit(t) PROVE G
  BY <1>24, <1>d DEF Exit
<1>25. ASSUME UNCHANGED vars PROVE G
  BY <1>25, <1>s DEF vars
<1> QED
  BY <1>1, <1>2, <1>3, <1>4, <1>5, <1>6, <1>7, <1>8, <1>9, <1>10, <1>11, <1>12, <1>13,
     <1>14, <1>15, <1>16, <1>17, <1>18, <1>19, <1>20, <1>21, <1>22, <1>23, <1>24, <1>25
  DEF Next, Step, Exited, MainStep, Arrival, Death, WorkerStep, QuitStep

\* If exitCond wakes nobody spuriously, the pool implements the dispatcher: no
\* connection is taken twice, and a shutdown finishes what is being served.
THEOREM Refinement ==
  ASSUME "exit" \notin SpuriousConds PROVE Spec => ImplementsDispatch
<1>1. Init => D!Init
  BY RefinementInit
<1>2. IInv /\ WokenAfterLast /\ [Next]_vars => [D!Next]_(D!vars)
  <2>1. ASSUME UNCHANGED vars PROVE UNCHANGED D!vars
    BY <2>1 DEF vars, D!vars, Phase
  <2>2. ASSUME Next, ~alive PROVE UNCHANGED vars
    BY <2>2 DEF Next, Exited
  <2> QED
    BY <2>1, <2>2, RefinementStep
<1> QED
  BY <1>1, <1>2, Invariance, Woken, PTL DEF Spec, ImplementsDispatch, D!Spec

=============================================================================
