----------------------------- MODULE ThreadPool -----------------------------
(***************************************************************************)
(* The thread pool of threadPool.c: the main thread accepts connections    *)
(* and pushes them on a stack, the pool threads pop and serve them, and    *)
(* SIGINT runs quit() on whichever thread the kernel interrupts.           *)
(*                                                                         *)
(* A step is what a thread does between two points where another thread,   *)
(* or a signal handler, can come in between: a lock, a wait, an unlocked   *)
(* read of a shared variable.  What a pool thread does with a connection   *)
(* once it has popped it is one step here, Finish.  The count of requests  *)
(* serviced, which is only printed, is left out; connections may arrive    *)
(* without end, the descriptors a closed one frees being used again.       *)
(***************************************************************************)
EXTENDS Naturals, Sequences, FiniteSets, Functions

CONSTANTS
  Workers,        \* the POOLSIZE pool threads
  Main,           \* the thread that runs main()
  Logger,         \* the thread of writeLog(), here only a target of SIGINT
  Nobody,         \* the owner of a free mutex
  Fds,            \* the descriptors accept() may return
  MaxSigints,     \* bound: SIGINTs delivered in a behaviour
  SigWindow,      \* the points of main() at which the first SIGINT may come
  SpuriousConds   \* the condition variables that may wake up spuriously

Threads == Workers \cup {Main, Logger}
NoFd == 0

MainPcs    == {"spawn", "listen", "accept", "push", "pushing"}
WorkerPcs  == {"unborn", "top", "lock", "check", "wait", "serve",
               "exit", "exiting", "done"}
HandlerPcs == {"quit", "quitStop", "quitSleep", "quitWait", "quitFree",
               "quitExit"}

\* Descriptors 0 to 2 stay open on /dev/null after daemon(), so accept()
\* never returns 0, the value stackEmpty() takes for "no request".
ASSUME PoolAssumption ==
  /\ IsFiniteSet(Workers) /\ Workers # {}
  /\ Main \notin Workers /\ Logger \notin Workers \cup {Main}
  /\ Nobody \notin Threads
  /\ Fds \subseteq Nat \ {0}
  /\ MaxSigints \in Nat
  /\ SigWindow \subseteq MainPcs
  /\ SpuriousConds \subseteq {"stack", "exit"}

VARIABLES
  pc,            \* where each thread is
  stack,         \* requests: the accepted descriptors, the top first
  fd,            \* connfd of main() and connFd of each pool thread
  open,          \* the descriptors of client connections that are open
  stackOwner,    \* the thread that holds stackMutex
  exitOwner,     \* the thread that holds exitMutex
  stackWaiters,  \* the threads asleep on stackCond
  exitWaiters,   \* the threads asleep on exitCond
  running, exited,
  freed,         \* freeAll() has run
  alive,         \* the process has not exited
  sigints        \* how many SIGINTs have come

vars == <<pc, stack, fd, open, stackOwner, exitOwner, stackWaiters, exitWaiters,
          running, exited, freed, alive, sigints>>

locks    == <<stackOwner, exitOwner>>
waiters  == <<stackWaiters, exitWaiters>>
life     == <<freed, alive>>

StackEmpty == ~(stack # <<>> /\ Head(stack) # NoFd)
InHandler(t) == pc[t] \in HandlerPcs
Goto(t, l) == pc' = [pc EXCEPT ![t] = l]

Init ==
  /\ pc = [t \in Threads |-> CASE t = Main -> "spawn" [] t = Logger -> "log"
                           [] t \in Workers -> "unborn"]
  /\ stack = <<>>
  /\ fd = [t \in Threads |-> NoFd]
  /\ open = {}
  /\ stackOwner = Nobody /\ exitOwner = Nobody
  /\ stackWaiters = {} /\ exitWaiters = {}
  /\ running = TRUE /\ exited = 0
  /\ freed = FALSE /\ alive = TRUE
  /\ sigints = 0

-----------------------------------------------------------------------------
(* The main thread *)

\* pthread_create of one pool thread; after the last one main goes on.
Spawn(w) ==
  /\ pc[Main] = "spawn" /\ pc[w] = "unborn"
  /\ pc' = [pc EXCEPT ![w] = "top",
                      ![Main] = IF \E v \in Workers \ {w} : pc[v] = "unborn"
                                THEN "spawn" ELSE "listen"]
  /\ UNCHANGED <<stack, fd, open, locks, waiters, running, exited, life, sigints>>

Listen ==
  /\ pc[Main] = "listen"
  /\ Goto(Main, "accept")
  /\ UNCHANGED <<stack, fd, open, locks, waiters, running, exited, life, sigints>>

Accept(c) ==
  /\ pc[Main] = "accept" /\ running
  /\ c \in Fds \ open
  /\ open' = open \cup {c}
  /\ fd' = [fd EXCEPT ![Main] = c]
  /\ Goto(Main, "push")
  /\ UNCHANGED <<stack, locks, waiters, running, exited, life, sigints>>

\* socket(), bind() or accept() fails: error() ends the process.
MainFails ==
  /\ pc[Main] \in {"listen", "accept"}
  /\ alive' = FALSE
  /\ UNCHANGED <<pc, stack, fd, open, locks, waiters, running, exited, freed,
                 sigints>>

PushLock ==
  /\ pc[Main] = "push" /\ stackOwner = Nobody
  /\ stackOwner' = Main
  /\ Goto(Main, "pushing")
  /\ UNCHANGED <<stack, fd, open, exitOwner, waiters, running, exited, life, sigints>>

\* pthread_cond_signal(&stackCond): wakes one sleeping thread, if there is one.
SignalStack ==
  \/ stackWaiters = {} /\ UNCHANGED stackWaiters
  \/ \E t \in stackWaiters : stackWaiters' = stackWaiters \ {t}

\* Mutant: push() without its signal.
PushNoSignal ==
  /\ pc[Main] = "pushing"
  /\ stack' = <<fd[Main]>> \o stack
  /\ stackOwner' = Nobody
  /\ fd' = [fd EXCEPT ![Main] = NoFd]
  /\ Goto(Main, "accept")
  /\ UNCHANGED <<open, exitOwner, waiters, running, exited, life, sigints>>

Push ==
  /\ pc[Main] = "pushing"
  /\ stack' = <<fd[Main]>> \o stack
  /\ SignalStack
  /\ stackOwner' = Nobody
  /\ fd' = [fd EXCEPT ![Main] = NoFd]
  /\ Goto(Main, "accept")
  /\ UNCHANGED <<open, exitOwner, exitWaiters, running, exited, life, sigints>>

-----------------------------------------------------------------------------
(* A pool thread: the loop of serviceRequest() *)

\* while (running), read without the lock.
LoopTest(w) ==
  /\ pc[w] = "top"
  /\ Goto(w, IF running THEN "lock" ELSE "exit")
  /\ UNCHANGED <<stack, fd, open, locks, waiters, running, exited, life, sigints>>

Lock(w) ==
  /\ pc[w] = "lock" /\ stackOwner = Nobody
  /\ stackOwner' = w
  /\ Goto(w, "check")
  /\ UNCHANGED <<stack, fd, open, exitOwner, waiters, running, exited, life, sigints>>

Sleep(w) ==
  /\ pc[w] = "check" /\ StackEmpty /\ running
  /\ stackOwner' = Nobody
  /\ stackWaiters' = stackWaiters \cup {w}
  /\ Goto(w, "wait")
  /\ UNCHANGED <<stack, fd, open, exitOwner, exitWaiters, running, exited, life, sigints>>

\* pthread_cond_wait() returns once it has the mutex again.
Wake(w) ==
  /\ pc[w] = "wait" /\ w \notin stackWaiters /\ stackOwner = Nobody
  /\ stackOwner' = w
  /\ Goto(w, "check")
  /\ UNCHANGED <<stack, fd, open, exitOwner, waiters, running, exited, life, sigints>>

\* Mutant: the top of the stack is read and left there.
TakeNoPop(w) ==
  /\ pc[w] = "check" /\ ~StackEmpty /\ running
  /\ fd' = [fd EXCEPT ![w] = Head(stack)]
  /\ stackOwner' = Nobody
  /\ Goto(w, "serve")
  /\ UNCHANGED <<stack, open, exitOwner, waiters, running, exited, life, sigints>>

\* pop() and unlock.
Take(w) ==
  /\ pc[w] = "check" /\ ~StackEmpty /\ running
  /\ fd' = [fd EXCEPT ![w] = Head(stack)]
  /\ stack' = Tail(stack)
  /\ stackOwner' = Nobody
  /\ Goto(w, "serve")
  /\ UNCHANGED <<open, exitOwner, waiters, running, exited, life, sigints>>

\* Mutant: the break out of the loop forgets to unlock.
LeaveLocked(w) ==
  /\ pc[w] = "check" /\ ~running
  /\ Goto(w, "top")
  /\ UNCHANGED <<stack, fd, open, locks, waiters, running, exited, life, sigints>>

Leave(w) ==
  /\ pc[w] = "check" /\ ~running
  /\ stackOwner' = Nobody
  /\ Goto(w, "top")
  /\ UNCHANGED <<stack, fd, open, exitOwner, waiters, running, exited, life, sigints>>

\* Mutant: a path that goes on without close(connFd).
FinishNoClose(w) ==
  /\ pc[w] = "serve"
  /\ fd' = [fd EXCEPT ![w] = NoFd]
  /\ Goto(w, "top")
  /\ UNCHANGED <<stack, open, locks, waiters, running, exited, life, sigints>>

\* Every path through a request ends with close(connFd).
Finish(w) ==
  /\ pc[w] = "serve"
  /\ open' = open \ {fd[w]}
  /\ fd' = [fd EXCEPT ![w] = NoFd]
  /\ Goto(w, "top")
  /\ UNCHANGED <<stack, locks, waiters, running, exited, life, sigints>>

\* A write to a connection the client has closed raises SIGPIPE, which nothing
\* catches or ignores: the process ends.
Killed(w) ==
  /\ pc[w] = "serve"
  /\ alive' = FALSE
  /\ UNCHANGED <<pc, stack, fd, open, locks, waiters, running, exited, freed,
                 sigints>>

\* Mutant: exited is counted without exitMutex.
ExitNoLock(w) ==
  /\ pc[w] = "exit"
  /\ Goto(w, "exiting")
  /\ UNCHANGED <<stack, fd, open, locks, waiters, running, exited, life, sigints>>

ExitLock(w) ==
  /\ pc[w] = "exit" /\ exitOwner = Nobody
  /\ exitOwner' = w
  /\ Goto(w, "exiting")
  /\ UNCHANGED <<stack, fd, open, stackOwner, waiters, running, exited, life, sigints>>

\* Mutant: every thread that leaves signals exitCond, not only the last.
IncrExitEarly(w) ==
  /\ pc[w] = "exiting"
  /\ exited' = exited + 1
  /\ \/ exitWaiters = {} /\ UNCHANGED exitWaiters
     \/ \E t \in exitWaiters : exitWaiters' = exitWaiters \ {t}
  /\ stackWaiters' = {}
  /\ exitOwner' = Nobody
  /\ Goto(w, "done")
  /\ UNCHANGED <<stack, fd, open, stackOwner, running, life, sigints>>

\* incrExit(): the last thread signals exitCond, the others broadcast stackCond.
IncrExit(w) ==
  /\ pc[w] = "exiting"
  /\ exited' = exited + 1
  /\ \/ /\ exited' = Cardinality(Workers)
        /\ \/ exitWaiters = {} /\ UNCHANGED exitWaiters
           \/ \E t \in exitWaiters : exitWaiters' = exitWaiters \ {t}
        /\ UNCHANGED stackWaiters
     \/ /\ exited' # Cardinality(Workers)
        /\ stackWaiters' = {}
        /\ UNCHANGED exitWaiters
  /\ exitOwner' = Nobody
  /\ Goto(w, "done")
  /\ UNCHANGED <<stack, fd, open, stackOwner, running, life, sigints>>

SpuriousWake(t) ==
  /\ \/ /\ "stack" \in SpuriousConds /\ t \in stackWaiters
        /\ stackWaiters' = stackWaiters \ {t}
        /\ UNCHANGED exitWaiters
     \/ /\ "exit" \in SpuriousConds /\ t \in exitWaiters
        /\ exitWaiters' = exitWaiters \ {t}
        /\ UNCHANGED stackWaiters
  /\ UNCHANGED <<pc, stack, fd, open, locks, running, exited, life, sigints>>

-----------------------------------------------------------------------------
(* SIGINT and quit(), which never returns to the code it interrupted: the  *)
(* thread keeps whatever mutex it held.  Linux delivers the signal to the  *)
(* main thread, and to a pool thread only while main runs the handler and  *)
(* so has SIGINT blocked.                                                  *)

SigInt(t) ==
  /\ sigints < MaxSigints
  /\ \/ t = Main /\ pc[Main] \in SigWindow
     \/ /\ t # Main /\ InHandler(Main)
        /\ pc[t] \notin HandlerPcs \cup {"unborn", "done"}
  /\ sigints' = sigints + 1
  /\ Goto(t, "quit")
  /\ UNCHANGED <<stack, fd, open, locks, waiters, running, exited, life>>

\* Mutant: quit() stops the pool before it holds exitMutex.
QuitNoLock(t) ==
  /\ pc[t] = "quit"
  /\ Goto(t, "quitStop")
  /\ UNCHANGED <<stack, fd, open, locks, waiters, running, exited, life, sigints>>

QuitLock(t) ==
  /\ pc[t] = "quit" /\ exitOwner = Nobody
  /\ exitOwner' = t
  /\ Goto(t, "quitStop")
  /\ UNCHANGED <<stack, fd, open, stackOwner, waiters, running, exited, life, sigints>>

\* Mutant: no broadcast.
QuitNoBroadcast(t) ==
  /\ pc[t] = "quitStop" /\ stackOwner = Nobody
  /\ running' = FALSE
  /\ Goto(t, "quitSleep")
  /\ UNCHANGED <<stack, fd, open, locks, waiters, exited, life, sigints>>

\* Under stackMutex: running = 0 and a broadcast.
QuitStop(t) ==
  /\ pc[t] = "quitStop" /\ stackOwner = Nobody
  /\ running' = FALSE
  /\ stackWaiters' = {}
  /\ Goto(t, "quitSleep")
  /\ UNCHANGED <<stack, fd, open, locks, exitWaiters, exited, life, sigints>>

\* Mutant: quit() waits for stackCond.
QuitWrongCond(t) ==
  /\ pc[t] = "quitSleep"
  /\ exitOwner' = Nobody
  /\ stackWaiters' = stackWaiters \cup {t}
  /\ Goto(t, "quitWait")
  /\ UNCHANGED <<stack, fd, open, stackOwner, exitWaiters, running, exited, life, sigints>>

\* pthread_cond_wait(&exitCond, &exitMutex), once and not in a loop.
QuitSleep(t) ==
  /\ pc[t] = "quitSleep"
  /\ exitOwner' = Nobody
  /\ exitWaiters' = exitWaiters \cup {t}
  /\ Goto(t, "quitWait")
  /\ UNCHANGED <<stack, fd, open, stackOwner, stackWaiters, running, exited, life, sigints>>

QuitWake(t) ==
  /\ pc[t] = "quitWait" /\ t \notin exitWaiters /\ exitOwner = Nobody
  /\ exitOwner' = t
  /\ Goto(t, "quitFree")
  /\ UNCHANGED <<stack, fd, open, stackOwner, waiters, running, exited, life, sigints>>

\* freeAll(), close(listenfd), unlock; then the mutexes are destroyed.
FreeAll(t) ==
  /\ pc[t] = "quitFree"
  /\ freed' = TRUE
  /\ exitOwner' = Nobody
  /\ Goto(t, "quitExit")
  /\ UNCHANGED <<stack, fd, open, stackOwner, waiters, running, exited, alive, sigints>>

Exit(t) ==
  /\ pc[t] = "quitExit"
  /\ alive' = FALSE
  /\ UNCHANGED <<pc, stack, fd, open, locks, waiters, running, exited, freed, sigints>>

-----------------------------------------------------------------------------
MainStep == (\E w \in Workers : Spawn(w)) \/ Listen \/ PushLock \/ Push
Arrival == \E c \in Fds : Accept(c)
Death == MainFails \/ (\E w \in Workers : Killed(w))
WorkerStep(w) ==
  \/ LoopTest(w) \/ Lock(w) \/ Sleep(w) \/ Wake(w) \/ Take(w) \/ Leave(w)
  \/ Finish(w) \/ ExitLock(w) \/ IncrExit(w)
QuitStep(t) ==
  \/ QuitLock(t) \/ QuitStop(t) \/ QuitSleep(t) \/ QuitWake(t) \/ FreeAll(t) \/ Exit(t)

Step ==
  \/ MainStep \/ Arrival \/ Death
  \/ \E w \in Workers : WorkerStep(w)
  \/ \E t \in Threads : SpuriousWake(t) \/ SigInt(t) \/ QuitStep(t)

\* A process that has exited stays so: not a deadlock.
Exited == ~alive /\ UNCHANGED vars

Next == (alive /\ Step) \/ Exited

Spec == Init /\ [][Next]_vars

\* The kernel schedules every thread that can run, and a request is served
\* in finite time.  Connections, failures and signals need not come.
Fairness ==
  /\ WF_vars(alive /\ MainStep)
  /\ \A w \in Workers : WF_vars(alive /\ WorkerStep(w))
  /\ \A t \in Threads : WF_vars(alive /\ QuitStep(t))

FairSpec == Spec /\ Fairness

-----------------------------------------------------------------------------
(* What holds of every reachable state *)

PcOf(t) == CASE t = Main -> MainPcs [] t = Logger -> {"log"}
             [] t \in Workers -> WorkerPcs

\* Every variable has its type: threads are at points of their own code,
\* the stack holds descriptors, mutexes belong to a thread or to nobody.
TypeOK ==
  /\ pc \in [Threads -> MainPcs \cup WorkerPcs \cup HandlerPcs \cup {"log"}]
  /\ \A t \in Threads : pc[t] \in PcOf(t) \cup HandlerPcs
  /\ stack \in Seq(Fds)
  /\ fd \in [Threads -> Fds \cup {NoFd}]
  /\ open \subseteq Fds
  /\ stackOwner \in Threads \cup {Nobody}
  /\ exitOwner \in Threads \cup {Nobody}
  /\ stackWaiters \subseteq Workers
  /\ exitWaiters \subseteq Threads
  /\ running \in BOOLEAN /\ exited \in Nat
  /\ freed \in BOOLEAN /\ alive \in BOOLEAN
  /\ sigints \in 0 .. MaxSigints

\* An accepted connection is in exactly one place until it is closed: once on
\* the stack, or in the hands of one thread.  None is dropped between accept()
\* and close(), and no two threads ever serve the same one, whatever the order
\* of pushes, pops and signals.
ConnectionOwnedOnce ==
  /\ IsInjective(stack)
  /\ \A t \in Threads : fd[t] # NoFd => fd[t] \in open \ Range(stack)
  /\ \A t, u \in Threads : t # u /\ fd[t] # NoFd => fd[t] # fd[u]
  /\ open = Range(stack) \cup (Range(fd) \ {NoFd})

\* The pool threads on their way to the stack, none of them asleep.
Contending ==
  {w \in Workers : \/ pc[w] \in {"top", "lock", "check"}
                   \/ pc[w] = "wait" /\ w \notin stackWaiters}

\* While a pool thread sleeps, each request on the stack has a pool thread of
\* its own awake and on its way to take it: the signal in push() is never lost,
\* and one signal for each request is enough.
NoIdleWhileWork ==
  ~InHandler(Main) /\ stackWaiters # {} => Len(stack) <= Cardinality(Contending)

\* freeAll() and the destruction of the mutexes come when no pool thread runs
\* any more, so that none can touch the stack or a mutex afterwards.
FreeAfterAllExited == freed => \A w \in Workers : pc[w] = "done"

\* Once the last pool thread has left, some quit() has been woken or is past
\* its wait: the one signal of exitCond does not come before the wait.
ExitSignalNotLost ==
  exited = Cardinality(Workers) =>
    \E t \in Threads : \/ pc[t] = "quitWait" /\ t \notin exitWaiters
                       \/ pc[t] \in {"quitFree", "quitExit"}

\* What goes on without a client, a signal, a failure or a spurious wake-up.
Go == MainStep \/ (\E w \in Workers : WorkerStep(w)) \/ (\E t \in Threads : QuitStep(t))

\* Nothing to do: main() waits for a connection, the pool threads for a push().
Resting ==
  /\ pc[Main] = "accept" /\ stack = <<>>
  /\ \A w \in Workers : pc[w] = "wait" /\ w \in stackWaiters

\* The shutdown took a thread away from code the others wait for: main() inside
\* push() or before the last pthread_create, or, by a second SIGINT, a pool
\* thread, which then never counts as exited.
Interrupted ==
  InHandler(Main) /\ (stackOwner = Main \/ \E w \in Workers : pc[w] = "unborn" \/ InHandler(w))

\* The pool comes to a stop only when there is nothing to do or when a shutdown was
\* interrupted: in no other way do threads ever wait for each other for good.
HangsOnlyIfInterrupted == alive /\ ~ENABLED Go => Resting \/ Interrupted

-----------------------------------------------------------------------------
(* The inductive invariant behind them *)

\* Who holds a mutex.  A thread in quit() may still hold what it held when the
\* signal came.
LocksHeld ==
  \A t \in Threads :
    /\ pc[t] \in {"check", "pushing"} => stackOwner = t
    /\ stackOwner = t => pc[t] \in {"check", "pushing"} \cup HandlerPcs
    /\ pc[t] \in {"exiting", "quitStop", "quitSleep", "quitFree"} => exitOwner = t

FdHeld ==
  \A t \in Threads : ~InHandler(t) =>
    (fd[t] # NoFd <=> pc[t] \in {"push", "pushing", "serve"})

WaitersWait ==
  /\ \A w \in stackWaiters : pc[w] = "wait" \/ InHandler(w)
  /\ \A t \in exitWaiters : pc[t] = "quitWait"

\* Main is the first to run quit(), and only quit() stops the pool.
StopsInHandler ==
  /\ (\E t \in Threads : InHandler(t)) => InHandler(Main)
  /\ ~running =>
       \E t \in Threads : pc[t] \in {"quitSleep", "quitWait", "quitFree", "quitExit"}
  /\ (\E w \in Workers : pc[w] \in {"exit", "exiting", "done"}) => ~running

DoneWorkers == {w \in Workers : pc[w] = "done"}
ExitedCounted == exited = Cardinality(DoneWorkers)

\* quit() goes past its wait only when every pool thread has left.
WokenAfterLast ==
  /\ \A t \in Threads :
       (pc[t] = "quitWait" /\ t \notin exitWaiters) \/ pc[t] \in {"quitFree", "quitExit"}
         => exited = Cardinality(Workers)
  /\ freed => exited = Cardinality(Workers)

IInv ==
  /\ TypeOK
  /\ LocksHeld
  /\ FdHeld
  /\ WaitersWait
  /\ StopsInHandler
  /\ ExitedCounted
  /\ ExitSignalNotLost
  /\ ConnectionOwnedOnce

-----------------------------------------------------------------------------
(* What must happen *)

\* If connections stop arriving, every accepted one is served and closed,
\* unless quit() runs or the process dies.  (The pool serves the newest first:
\* while connections keep arriving, an old one may wait for ever.)
Served ==
  <>[][~Arrival]_vars =>
    \A c \in Fds : (alive /\ c \in open) ~> (c \notin open \/ InHandler(Main) \/ ~alive)

\* A SIGINT that comes while main() waits in accept() ends the process.
ShutdownCompletes == InHandler(Main) ~> ~alive

-----------------------------------------------------------------------------
(* The pool as a dispatcher of connections *)

Phase == CASE ~alive -> "dead" [] alive /\ freed -> "drained"
           [] alive /\ ~freed /\ ~running -> "draining"
           [] alive /\ ~freed /\ running -> "open"

D == INSTANCE Dispatch WITH
  Conns <- Fds, Servers <- Workers, None <- NoFd,
  waiting <- Range(stack) \cup ({fd[Main]} \ {NoFd}),
  held <- [w \in Workers |-> fd[w]],
  phase <- Phase

\* The pool dispatches connections as Dispatch says.
ImplementsDispatch == D!Spec
=============================================================================
