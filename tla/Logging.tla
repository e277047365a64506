------------------------------- MODULE Logging -------------------------------
(***************************************************************************)
(* The log queue of logging.c: threads push messages, the logger thread    *)
(* pops and writes them.                                                   *)
(*                                                                         *)
(* writeLog() locks qMutex once, before its loop, and unlocks it in every  *)
(* round: from the second round on it tests the queue without the lock and *)
(* unlocks, or waits with, a mutex it does not hold.  POSIX leaves that    *)
(* undefined; the normal mutex of glibc is then simply free, whoever held  *)
(* it, and that is what is modelled.  The list is modelled by its          *)
(* pointers, because what the lock should have made atomic no longer is.   *)
(* stoplogging() is never called: the logger's loop has no end.            *)
(***************************************************************************)
EXTENDS Naturals, Sequences, Functions

CONSTANTS
  Pushers,      \* the threads that call logpush()
  Logger,       \* the thread that runs writeLog()
  Nobody,       \* the owner of a free mutex
  MaxMessages,  \* bound: messages logged in a behaviour
  Long,         \* the messages longer than the logger's buffer
  Spurious      \* qCond may wake the logger spuriously

NULL == 0
Messages == 1 .. MaxMessages

ASSUME LoggingAssumption ==
  /\ Logger \notin Pushers /\ Nobody \notin Pushers \cup {Logger}
  /\ MaxMessages \in Nat /\ Long \subseteq Messages
  /\ Spurious \in BOOLEAN

VARIABLES
  pendingLogs,   \* the newest message in the list; each points to an older one
  next,
  freed,         \* the list elements that logpop() has freed
  qMutex,        \* who holds it
  asleep,        \* the logger sleeps on qCond
  pc,            \* where each pusher and the logger are
  msg,           \* the message of each pusher
  currentP, prevP,   \* the locals of logpop()
  logged,        \* how many messages were begun
  linked,        \* the messages in the order in which they entered the list
  written,       \* the messages in the log file
  excluded       \* never yet were two threads in their critical sections at once

vars == <<pendingLogs, next, freed, qMutex, asleep, pc, msg, currentP, prevP,
          logged, linked, written, excluded>>

list    == <<pendingLogs, next, freed>>
popping == <<currentP, prevP>>
history == <<linked, written, excluded>>

queueEmpty == pendingLogs = NULL
Goto(t, l) == pc' = [pc EXCEPT ![t] = l]

\* Between lock and unlock, or where writeLog() behaves as if it were.
InSection(t) == pc[t] \in {"read", "reread", "link", "signal", "test", "wait", "unlock", "find",
                        "walk", "unlink"}
Enter(t) == excluded' = (excluded /\ \A u \in Pushers \cup {Logger} : u # t => ~InSection(u))

Init ==
  /\ pendingLogs = NULL
  /\ next = [m \in Messages |-> NULL]
  /\ freed = {}
  /\ qMutex = Nobody
  /\ asleep = FALSE
  /\ pc = [t \in Pushers \cup {Logger} |-> IF t = Logger THEN "start" ELSE "idle"]
  /\ msg = [p \in Pushers |-> NULL]
  /\ currentP = NULL /\ prevP = NULL
  /\ logged = 0
  /\ linked = <<>> /\ written = <<>>
  /\ excluded = TRUE

-----------------------------------------------------------------------------
(* logpush() *)

Begin(p) ==
  /\ pc[p] = "idle"
  /\ logged < MaxMessages
  /\ logged' = logged + 1
  /\ msg' = [msg EXCEPT ![p] = logged']
  /\ Goto(p, "lock")
  /\ UNCHANGED <<list, qMutex, asleep, popping, history>>

PushLock(p) ==
  /\ pc[p] = "lock" /\ qMutex = Nobody
  /\ qMutex' = p
  /\ Enter(p)
  /\ Goto(p, "read")
  /\ UNCHANGED <<list, asleep, msg, popping, logged, linked, written>>

\* The list is tested, and tested again unless it was empty: if the logger has
\* emptied it in between, the message is not linked at all.
TestEmpty(p) ==
  /\ pc[p] = "read"
  /\ Goto(p, IF queueEmpty THEN "link" ELSE "reread")
  /\ UNCHANGED <<list, qMutex, asleep, msg, popping, logged, history>>

ReadHead(p) ==
  /\ pc[p] = "reread"
  /\ IF queueEmpty
     THEN Goto(p, "signal") /\ UNCHANGED next
     ELSE Goto(p, "link") /\ next' = [next EXCEPT ![msg[p]] = pendingLogs]
  /\ UNCHANGED <<pendingLogs, freed, qMutex, asleep, msg, popping, logged, history>>

\* Mutant: an empty list is not given its first element.
NewHeadIfAny(p) == IF queueEmpty THEN NULL ELSE msg[p]

NewHead(p) == msg[p]

Link(p) ==
  /\ pc[p] = "link"
  /\ pendingLogs' = NewHead(p)
  /\ linked' = Append(linked, msg[p])
  /\ Goto(p, "signal")
  /\ UNCHANGED <<next, freed, qMutex, asleep, msg, popping, logged, written, excluded>>

\* Mutant: no signal.
SignalNobody == UNCHANGED asleep

SignalCond == asleep' = FALSE

\* pthread_cond_signal() and unlock, whoever has the mutex by now.
Signal(p) ==
  /\ pc[p] = "signal"
  /\ SignalCond
  /\ qMutex' = Nobody
  /\ msg' = [msg EXCEPT ![p] = NULL]
  /\ Goto(p, "idle")
  /\ UNCHANGED <<list, popping, logged, history>>

-----------------------------------------------------------------------------
(* writeLog() and logpop() *)

Start ==
  /\ pc[Logger] = "start" /\ qMutex = Nobody
  /\ qMutex' = Logger
  /\ Goto(Logger, "test")
  /\ UNCHANGED <<list, asleep, msg, popping, logged, history>>

\* while (queueEmpty()), under the lock only after a wait.
Test ==
  /\ pc[Logger] = "test"
  /\ Goto(Logger, IF queueEmpty THEN "wait" ELSE "unlock")
  /\ UNCHANGED <<list, qMutex, asleep, msg, popping, logged, history>>

\* Wait and Unlock free qMutex, held or not.
Wait ==
  /\ pc[Logger] = "wait"
  /\ asleep' = TRUE
  /\ qMutex' = Nobody
  /\ Goto(Logger, "asleep")
  /\ UNCHANGED <<list, msg, popping, logged, history>>

Wake ==
  /\ pc[Logger] = "asleep" /\ ~asleep /\ qMutex = Nobody
  /\ qMutex' = Logger
  /\ Goto(Logger, "test")
  /\ UNCHANGED <<list, asleep, msg, popping, logged, history>>

SpuriousWake ==
  /\ Spurious /\ asleep
  /\ asleep' = FALSE
  /\ UNCHANGED <<list, qMutex, pc, msg, popping, logged, history>>

Unlock ==
  /\ pc[Logger] = "unlock"
  /\ qMutex' = Nobody
  /\ Goto(Logger, "pop")
  /\ UNCHANGED <<list, asleep, msg, popping, logged, history>>

PopLock ==
  /\ pc[Logger] = "pop" /\ qMutex = Nobody
  /\ qMutex' = Logger
  /\ Goto(Logger, "find")
  /\ UNCHANGED <<list, asleep, msg, popping, logged, history>>

\* The walk to the last element, the oldest, begins.  (The list is never empty
\* here: nobody else removes what the logger has seen.)
Find ==
  /\ pc[Logger] = "find" /\ ~queueEmpty
  /\ currentP' = pendingLogs
  /\ Goto(Logger, "walk")
  /\ UNCHANGED <<list, qMutex, asleep, msg, prevP, logged, history>>

\* One round of the walk; at its end the message is copied.  An element that was
\* freed may lead anywhere, and a long message runs over the end of the logger's
\* buffer, whose size is not looked at: there the model stops following.
Walk ==
  /\ pc[Logger] = "walk"
  /\ IF currentP \notin freed /\ next[currentP] # NULL
     THEN /\ prevP' = currentP /\ currentP' = next[currentP]
          /\ UNCHANGED pc
     ELSE /\ UNCHANGED popping
          /\ Goto(Logger, IF currentP \in freed THEN "undefined"
                          ELSE IF currentP \in Long THEN "overrun"
                          ELSE "unlink")
  /\ UNCHANGED <<list, qMutex, asleep, msg, logged, history>>

\* Mutant: the element is unlinked and not freed.
FreeNothing == UNCHANGED freed

FreeElement == freed' = freed \cup {currentP}

\* Mutant: pendingLogs keeps the last element.
KeepHead == UNCHANGED pendingLogs

ResetHead == pendingLogs' = NULL

Unlink ==
  /\ pc[Logger] = "unlink"
  /\ FreeElement
  /\ IF prevP # NULL
     THEN next' = [next EXCEPT ![prevP] = NULL] /\ UNCHANGED pendingLogs
     ELSE ResetHead /\ UNCHANGED next
  /\ qMutex' = Nobody
  /\ Goto(Logger, "write")
  /\ UNCHANGED <<asleep, msg, popping, logged, history>>

\* Mutant: the message of the element before is in the buffer.
BufferOfPrevious == prevP

Buffer == currentP

Write ==
  /\ pc[Logger] = "write"
  /\ written' = Append(written, Buffer)
  /\ currentP' = NULL /\ prevP' = NULL
  /\ Enter(Logger)
  /\ Goto(Logger, "test")
  /\ UNCHANGED <<list, qMutex, asleep, msg, logged, linked>>

Push(p) == Begin(p) \/ PushLock(p) \/ TestEmpty(p) \/ ReadHead(p) \/ Link(p) \/ Signal(p)
LoggerStep ==
  \/ Start \/ Test \/ Wait \/ Wake \/ Unlock
  \/ PopLock \/ Find \/ Walk \/ Unlink \/ Write

Next == (\E p \in Pushers : Push(p)) \/ LoggerStep \/ SpuriousWake

Spec == Init /\ [][Next]_vars

\* A thread that logs gets on with it, and so does the logger; nothing has to
\* be logged.
FairSpec ==
  /\ Spec
  /\ \A p \in Pushers : WF_vars(PushLock(p) \/ TestEmpty(p) \/ ReadHead(p) \/ Link(p) \/ Signal(p))
  /\ WF_vars(LoggerStep)

-----------------------------------------------------------------------------
(* What holds *)

\* Every variable has its type.
TypeOK ==
  /\ pendingLogs \in Messages \cup {NULL}
  /\ next \in [Messages -> Messages \cup {NULL}]
  /\ freed \subseteq Messages
  /\ qMutex \in Pushers \cup {Logger, Nobody}
  /\ asleep \in BOOLEAN
  /\ pc \in [Pushers \cup {Logger} ->
               {"idle", "lock", "read", "reread", "link", "signal", "start", "test", "wait",
                "asleep", "unlock", "pop", "find", "walk", "unlink", "write", "undefined",
                "overrun"}]
  /\ msg \in [Pushers -> Messages \cup {NULL}]
  /\ {currentP, prevP} \subseteq Messages \cup {NULL}
  /\ logged \in 0 .. MaxMessages
  /\ linked \in Seq(Messages) /\ written \in Seq(Messages)
  /\ excluded \in BOOLEAN

\* What is written was linked, and is written once, whatever the mutex no longer
\* excludes (several threads log while the logger is busy).
WrittenOnce == IsInjective(written) /\ Range(written) \subseteq Range(linked)

\* What the logger has taken out of the list so far.
Out == written \o (IF pc[Logger] = "write" THEN <<currentP>> ELSE <<>>)
\* The list holds what was linked after the first n messages, the newest first.
Waiting(n) ==
  /\ pendingLogs = IF Len(linked) = n THEN NULL ELSE linked[Len(linked)]
  /\ \A i \in n + 1 .. Len(linked) :
       next[linked[i]] = IF i = n + 1 THEN NULL ELSE linked[i - 1]

\* As long as no two threads have been in their sections at once, the list is a
\* queue: what was linked is written in that order, is in the hands of
\* the logger, or still waits in the list.
FifoWhileExcluded ==
  excluded =>
    /\ Len(Out) <= Len(linked) /\ \A i \in DOMAIN Out : Out[i] = linked[i]
    /\ Waiting(Len(Out))

\* The list does what LogQueue promises, whoever holds the mutex: a message enters it
\* once and is taken out once, and in order until two threads meet in their sections.
Q == INSTANCE LogQueue WITH entered <- linked, left <- Out, apart <- excluded
ImplementsLogQueue == Q!Spec

\* The logger sleeps, with no signal on its way, only when the list is empty:
\* the signal of logpush() comes after the message is in the list.
SleepsOnlyIfEmpty ==
  excluded /\ asleep /\ (\A p \in Pushers : pc[p] = "idle") => queueEmpty

\* The logger never walks into an element it has freed, as long as it has not
\* run beside a thread that was linking to it.
NoFreedElement == excluded => pc[Logger] # "undefined"

\* What is logged gets written, unless the logger overruns its buffer or runs
\* beside another thread in its section: as it does not hold the mutex after its
\* first round, it may sleep on a message that was linked just before.  (Spurious
\* wake-ups must end: the mutex is not fair.)
EveryMessageWritten ==
  <>[][~SpuriousWake]_vars =>
    \A m \in Messages :
      (logged >= m) ~> (m \in Range(written) \/ ~excluded \/ pc[Logger] = "overrun")

-----------------------------------------------------------------------------
(* What a comment says and the code does not do *)

\* The messages that the list leads to from m: next only ever points to a message that was
\* in the list before, so the recursion ends.
Queue[m \in Messages] == {m} \cup (IF next[m] = NULL THEN {} ELSE Queue[next[m]])
Queued == IF queueEmpty THEN {} ELSE Queue[pendingLogs]

\* A message once linked is in the list, in the hands of the logger, or written.
NoMessageLost ==
  Range(linked) \subseteq Queued \cup Range(written) \cup {currentP}
=============================================================================
