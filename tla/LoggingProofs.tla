---------------------------- MODULE LoggingProofs ----------------------------
(***************************************************************************)
(* Theorems about the log queue, for any number of threads and messages.   *)
(*                                                                         *)
(* Some of it holds whatever the mutex excludes (Sound): a message is      *)
(* linked once, and what the logger has taken out is just what it has      *)
(* freed, which it never takes again.  The rest needs that no two threads  *)
(* have met in their sections (Exclusive): then the list is a queue, and   *)
(* the logger is where it believes to be (Ordered).  The list then loses   *)
(* nothing, nobody is stuck and nobody goes round; and with or without the *)
(* mutex it implements LogQueue.                                           *)
(***************************************************************************)
EXTENDS Logging, SequenceLemmas

PusherPcs == {"idle", "lock", "read", "reread", "link", "signal"}
LoggerPcs == {"start", "test", "wait", "asleep", "unlock", "pop", "find", "walk",
              "unlink", "write", "undefined", "overrun"}

Typed ==
  /\ pendingLogs \in Messages \cup {NULL}
  /\ next \in [Messages -> Messages \cup {NULL}]
  /\ freed \subseteq Messages
  /\ qMutex \in Pushers \cup {Logger, Nobody} /\ asleep \in BOOLEAN
  /\ pc \in [Pushers \cup {Logger} -> PusherPcs \cup LoggerPcs]
  /\ \A p \in Pushers : pc[p] \in PusherPcs
  /\ pc[Logger] \in LoggerPcs
  /\ msg \in [Pushers -> Messages \cup {NULL}]
  /\ currentP \in Messages \cup {NULL} /\ prevP \in Messages \cup {NULL}
  /\ logged \in 0 .. MaxMessages
  /\ linked \in Seq(Messages) /\ written \in Seq(Messages)
  /\ excluded \in BOOLEAN

\* What is in a thread's hands and not in the list yet.
Carries(p) == pc[p] \in {"lock", "read", "reread", "link"}
Carried ==
  \A p \in Pushers : Carries(p) =>
    /\ msg[p] \in 1 .. logged /\ msg[p] \notin Range(linked)
    /\ pc[p] # "link" => next[msg[p]] = NULL
    /\ \A q \in Pushers : q # p /\ Carries(q) => msg[q] # msg[p]

\* What is linked, and what the pointers lead to.
Reached ==
  /\ Range(linked) \subseteq 1 .. logged /\ IsInjective(linked)
  /\ \A m \in Messages : m > logged => next[m] = NULL
  /\ pendingLogs \in Range(linked) \cup {NULL}
  /\ \A m \in Messages : next[m] \in Range(linked) \cup {NULL}
  /\ pc[Logger] \in {"unlock", "pop", "find"} => pendingLogs # NULL
  /\ pc[Logger] \in {"walk", "unlink", "write"} => currentP \in Range(linked)
  /\ pc[Logger] \notin {"walk", "unlink", "write", "undefined", "overrun"} => prevP = NULL

\* What is taken out is freed, and is taken out once.
TakenOnce ==
  /\ freed = Range(Out) /\ IsInjective(Out) /\ Range(Out) \subseteq Range(linked)
  /\ pc[Logger] = "unlink" => currentP \notin freed

Sound == Carried /\ Reached /\ TakenOnce

\* A pusher in its section has the mutex, and the logger is in none of its own.
Exclusive ==
  /\ \A p \in Pushers : InSection(p) => qMutex = p
  /\ InSection(Logger) => \A p \in Pushers : ~InSection(p)

\* Where the logger is in the list.
Walking ==
  pc[Logger] = "walk" =>
    \E k \in Len(Out) + 1 .. Len(linked) :
      /\ currentP = linked[k]
      /\ prevP = IF k = Len(linked) THEN NULL ELSE linked[k + 1]
Unlinking ==
  pc[Logger] = "unlink" =>
    /\ Len(Out) < Len(linked) /\ currentP = linked[Len(Out) + 1]
    /\ prevP = IF Len(Out) + 1 = Len(linked) THEN NULL ELSE linked[Len(Out) + 2]

\* The list is a queue, the logger knows its place there and why it may sleep.
Ordered ==
  /\ FifoWhileExcluded
  /\ \A p \in Pushers : pc[p] = "link" => next[msg[p]] = pendingLogs
  /\ Walking /\ Unlinking
  /\ pc[Logger] = "wait" => pendingLogs = NULL
  /\ asleep /\ pendingLogs # NULL => \E p \in Pushers : pc[p] = "signal"
  /\ pc[Logger] # "undefined"

IInv == Typed /\ Sound /\ (excluded => Exclusive /\ Ordered)

-----------------------------------------------------------------------------
(* Types *)

\* The logger is none of the threads that log, NULL is no message, and neither is anybody.
LEMMA Apart ==
  /\ \A p \in Pushers : p # Logger
  /\ NULL \notin Messages /\ Nobody \notin Pushers /\ Nobody # Logger
  /\ \A m \in Messages : m \in Nat /\ 1 <= m /\ m <= MaxMessages
  /\ MaxMessages \in Nat
  BY LoggingAssumption DEF NULL, Messages

\* At the start there is nothing to be typed but the threads.
LEMMA TypedInit == Init => Typed
<1> SUFFICES ASSUME Init PROVE Typed
  OBVIOUS
<1>1. /\ pc \in [Pushers \cup {Logger} -> PusherPcs \cup LoggerPcs]
      /\ \A p \in Pushers : pc[p] = "idle"
      /\ pc[Logger] = "start"
  BY Apart DEF Init, PusherPcs, LoggerPcs
<1>2. next \in [Messages -> Messages \cup {NULL}] /\ msg \in [Pushers -> Messages \cup {NULL}]
  BY DEF Init
<1>3. linked \in Seq(Messages) /\ written \in Seq(Messages)
  BY DEF Init
<1>4. /\ pendingLogs = NULL /\ freed = {} /\ qMutex = Nobody /\ asleep = FALSE
      /\ currentP = NULL /\ prevP = NULL /\ logged = 0 /\ excluded = TRUE
  BY DEF Init
<1>5. logged \in 0 .. MaxMessages
  BY <1>4, Apart
<1> QED
  BY <1>1, <1>2, <1>3, <1>4, <1>5 DEF Typed, PusherPcs, LoggerPcs

\* Every step keeps the types.
LEMMA TypedStep == ASSUME Typed, Sound, [Next]_vars PROVE Typed'
<1> USE DEF list, popping, history, Goto
<1>p. ASSUME NEW p \in Pushers, NEW l \in PusherPcs, Goto(p, l)
      PROVE  /\ pc' \in [Pushers \cup {Logger} -> PusherPcs \cup LoggerPcs]
             /\ \A q \in Pushers : pc'[q] \in PusherPcs
             /\ pc'[Logger] \in LoggerPcs
  BY <1>p, Apart DEF Typed
<1>l. ASSUME NEW l \in LoggerPcs, Goto(Logger, l)
      PROVE  /\ pc' \in [Pushers \cup {Logger} -> PusherPcs \cup LoggerPcs]
             /\ \A q \in Pushers : pc'[q] \in PusherPcs
             /\ pc'[Logger] \in LoggerPcs
  BY <1>l, Apart DEF Typed
<1>1. ASSUME NEW p \in Pushers, Begin(p) PROVE Typed'
  <2>1. Goto(p, "lock") /\ "lock" \in PusherPcs
    BY <1>1 DEF Begin, PusherPcs
  <2>2. logged' \in Messages /\ logged' \in 0 .. MaxMessages
    BY <1>1, Apart DEF Begin, Typed, Messages
  <2> QED
    BY <1>1, <1>p, <2>1, <2>2 DEF Begin, Typed
<1>2. ASSUME NEW p \in Pushers, PushLock(p) PROVE Typed'
  <2>1. Goto(p, "read") /\ "read" \in PusherPcs
    BY <1>2 DEF PushLock, PusherPcs
  <2> QED
    BY <1>2, <1>p, <2>1 DEF PushLock, Typed, Enter
<1>3. ASSUME NEW p \in Pushers, TestEmpty(p) PROVE Typed'
  <2>1. PICK l \in PusherPcs : Goto(p, l)
    BY <1>3 DEF TestEmpty, PusherPcs
  <2> QED
    BY <1>3, <1>p, <2>1 DEF TestEmpty, Typed
<1>4. ASSUME NEW p \in Pushers, ReadHead(p) PROVE Typed'
  <2>1. PICK l \in PusherPcs : Goto(p, l)
    BY <1>4 DEF ReadHead, PusherPcs
  <2>2. next' \in [Messages -> Messages \cup {NULL}]
    BY <1>4 DEF ReadHead, Typed
  <2> QED
    BY <1>4, <1>p, <2>1, <2>2 DEF ReadHead, Typed
<1>5. ASSUME NEW p \in Pushers, Link(p) PROVE Typed'
  <2>1. Goto(p, "signal") /\ "signal" \in PusherPcs
    BY <1>5 DEF Link, PusherPcs
  <2>2. msg[p] \in Messages
    BY <1>5, Apart DEF Link, Sound, Carried, Carries, Typed, NULL
  <2>3. linked' \in Seq(Messages) /\ pendingLogs' \in Messages
    BY <1>5, <2>2, AppendFacts DEF Link, NewHead, Typed
  <2> QED
    BY <1>5, <1>p, <2>1, <2>3 DEF Link, Typed
<1>6. ASSUME NEW p \in Pushers, Signal(p) PROVE Typed'
  <2>1. Goto(p, "idle") /\ "idle" \in PusherPcs
    BY <1>6 DEF Signal, PusherPcs
  <2> QED
    BY <1>6, <1>p, <2>1 DEF Signal, SignalCond, Typed
<1>7. ASSUME Start \/ Test \/ Wait \/ Wake \/ Unlock \/ PopLock PROVE Typed'
  <2>1. PICK l \in LoggerPcs : Goto(Logger, l)
    BY <1>7 DEF Start, Test, Wait, Wake, Unlock, PopLock, LoggerPcs
  <2> QED
    BY <1>7, <1>l, <2>1 DEF Start, Test, Wait, Wake, Unlock, PopLock, Typed
<1>8. ASSUME Find PROVE Typed'
  <2>1. Goto(Logger, "walk") /\ "walk" \in LoggerPcs
    BY <1>8 DEF Find, LoggerPcs
  <2> QED
    BY <1>8, <1>l, <2>1 DEF Find, Typed
<1>9. ASSUME Walk PROVE Typed'
  <2>0. currentP \in Messages
    BY <1>9, Apart DEF Walk, Sound, Reached, Typed, Range
  <2>1. CASE currentP \notin freed /\ next[currentP] # NULL
    BY <1>9, <2>0, <2>1 DEF Walk, Typed
  <2>2. CASE ~(currentP \notin freed /\ next[currentP] # NULL)
    <3>1. PICK l \in LoggerPcs : Goto(Logger, l)
      BY <1>9, <2>2 DEF Walk, LoggerPcs
    <3> QED
      BY <1>9, <1>l, <2>2, <3>1 DEF Walk, Typed
  <2> QED
    BY <2>1, <2>2
<1>10. ASSUME Unlink PROVE Typed'
  <2>1. Goto(Logger, "write") /\ "write" \in LoggerPcs
    BY <1>10 DEF Unlink, LoggerPcs
  <2>2. currentP \in Messages
    BY <1>10 DEF Unlink, Sound, Reached, Typed, Range
  <2> QED
    BY <1>10, <1>l, <2>1, <2>2 DEF Unlink, FreeElement, ResetHead, Typed
<1>11. ASSUME Write PROVE Typed'
  <2>1. Goto(Logger, "test") /\ "test" \in LoggerPcs
    BY <1>11 DEF Write, LoggerPcs
  <2>2. currentP \in Messages
    BY <1>11 DEF Write, Sound, Reached, Typed, Range
  <2>3. written' \in Seq(Messages)
    BY <1>11, <2>2, AppendFacts DEF Write, Buffer, Typed
  <2>4. excluded' \in BOOLEAN
    BY <1>11 DEF Write, Enter
  <2> QED
    BY <1>11, <1>l, <2>1, <2>3, <2>4 DEF Write, Typed
<1>12. CASE SpuriousWake \/ UNCHANGED vars
  BY <1>12 DEF SpuriousWake, vars, Typed
<1> QED
  BY <1>1, <1>2, <1>3, <1>4, <1>5, <1>6, <1>7, <1>8, <1>9, <1>10, <1>11, <1>12
  DEF Next, Push, LoggerStep

-----------------------------------------------------------------------------
(* What steps leave alone *)

\* A thread that logs moves only itself, the logger only itself.
LEMMA OthersStay ==
  ASSUME Typed
  PROVE  /\ \A p \in Pushers : Push(p) =>
              \A t \in Pushers \cup {Logger} : t # p => pc'[t] = pc[t]
         /\ LoggerStep => \A p \in Pushers : pc'[p] = pc[p]
<1> USE Apart DEF Goto, Typed
<1>1. ASSUME NEW p \in Pushers, Push(p), NEW t \in Pushers \cup {Logger}, t # p
      PROVE  pc'[t] = pc[t]
  BY <1>1 DEF Push, Begin, PushLock, TestEmpty, ReadHead, Link, Signal
<1>2. ASSUME LoggerStep, NEW p \in Pushers PROVE pc'[p] = pc[p]
  BY <1>2 DEF LoggerStep, Start, Test, Wait, Wake, Unlock, PopLock, Find, Walk, Unlink, Write
<1> QED
  BY <1>1, <1>2

\* Out is a sequence of messages.
LEMMA OutTyped ==
  ASSUME Typed, Reached
  PROVE  Out \in Seq(Messages) /\ DOMAIN Out = 1 .. Len(Out) /\ Len(Out) \in Nat
<1>1. pc[Logger] = "write" => currentP \in Messages
  BY DEF Typed, Reached, Range
<1>2. Out \in Seq(Messages)
  BY <1>1 DEF Out, Typed
<1> QED
  BY <1>2

\* Only Unlink takes a message out.
LEMMA OutGrows ==
  ASSUME Typed, Reached, [Next]_vars
  PROVE  IF Unlink THEN Out' = Append(Out, currentP) ELSE Out' = Out
<1> USE DEF Goto, Typed, list, popping, history
<1>1. CASE Unlink
  <2>1. Out = written /\ Out' = written \o <<currentP>> /\ currentP \in Messages
    <3>1. Out = written
      BY <1>1 DEF Unlink, Out
    <3>2. pc'[Logger] = "write" /\ written' = written /\ currentP' = currentP
      BY <1>1 DEF Unlink
    <3> QED
      BY <1>1, <3>1, <3>2 DEF Unlink, Out, Reached, Range
  <2> QED
    BY <1>1, <2>1
<1>2. CASE Write
  <2>1. pc[Logger] = "write" /\ pc'[Logger] = "test" /\ written' = Append(written, currentP)
        /\ currentP \in Messages
    BY <1>2 DEF Write, Buffer, Reached, Range
  <2>2. Out = written \o <<currentP>> /\ Out' = Append(written, currentP)
    BY <2>1 DEF Out
  <2>3. ~Unlink
    BY <2>1 DEF Unlink
  <2> QED
    BY <2>1, <2>2, <2>3
<1>3. CASE ~Unlink /\ ~Write
  <2>1. /\ pc'[Logger] = "write" <=> pc[Logger] = "write"
        /\ pc[Logger] = "write" => currentP' = currentP
        /\ written' = written
    <3>1. ASSUME NEW p \in Pushers, Push(p)
          PROVE  pc'[Logger] = pc[Logger] /\ currentP' = currentP /\ written' = written
      <4>1. pc'[Logger] = pc[Logger]
        BY <3>1, OthersStay, Apart
      <4> QED
        BY <3>1, <4>1 DEF Push, Begin, PushLock, TestEmpty, ReadHead, Link, Signal
    <3>2. CASE SpuriousWake \/ UNCHANGED vars
      BY <3>2 DEF SpuriousWake, vars
    <3>3. CASE Start \/ Test \/ Wait \/ Wake \/ Unlock \/ PopLock
      BY <3>3 DEF Start, Test, Wait, Wake, Unlock, PopLock
    <3>4. CASE Find \/ Walk
      BY <3>4 DEF Find, Walk
    <3> QED
      BY <1>3, <3>1, <3>2, <3>3, <3>4 DEF Next, LoggerStep
  <2> QED
    BY <1>3, <2>1 DEF Out
<1> QED
  BY <1>1, <1>2, <1>3

-----------------------------------------------------------------------------
(* Whatever the mutex excludes *)

\* A message that is not linked is in one thread's hands, and is new.
LEMMA CarriedStep ==
  ASSUME Typed, Sound, [Next]_vars
  PROVE  Carried'
<1> USE Apart DEF Goto, list, popping, history
<1>t. /\ Carried /\ Reached /\ pc \in [Pushers \cup {Logger} -> PusherPcs \cup LoggerPcs]
      /\ msg \in [Pushers -> Messages \cup {NULL}] /\ next \in [Messages -> Messages \cup {NULL}]
      /\ linked \in Seq(Messages) /\ logged \in Nat /\ 1 .. logged \subseteq Messages
  BY DEF Typed, Sound, Messages
<1>1. ASSUME NEW p \in Pushers, Begin(p) PROVE Carried'
  <2>1. /\ logged' = logged + 1 /\ logged' \in Messages /\ msg' = [msg EXCEPT ![p] = logged']
        /\ pc' = [pc EXCEPT ![p] = "lock"] /\ UNCHANGED <<next, linked>>
    BY <1>1, <1>t DEF Begin, Messages
  <2>2. logged' \notin Range(linked) /\ next[logged'] = NULL
    BY <1>t, <2>1 DEF Reached
  <2>3. ASSUME NEW q \in Pushers, q # p
        PROVE  msg'[q] = msg[q] /\ pc'[q] = pc[q]
    BY <1>t, <2>1, <2>3
  <2>4. msg'[p] = logged' /\ pc'[p] = "lock"
    BY <1>t, <2>1
  <2>5. \A q \in Pushers : q # p /\ Carries(q) => msg[q] \in 1 .. logged
    BY <1>t DEF Carried
  <2> QED
    BY <1>t, <2>1, <2>2, <2>3, <2>4, <2>5 DEF Carried, Carries
<1>2. ASSUME NEW p \in Pushers, PushLock(p) \/ TestEmpty(p) PROVE Carried'
  <2>1. /\ UNCHANGED <<msg, next, linked, logged>> /\ Carries(p)
        /\ \A q \in Pushers : q # p => pc'[q] = pc[q]
        /\ pc'[p] \in {"read", "reread", "link"} /\ pc[p] \in {"lock", "read"}
    BY <1>2, <1>t DEF PushLock, TestEmpty, Carries
  <2> QED
    BY <1>t, <2>1 DEF Carried, Carries
<1>3. ASSUME NEW p \in Pushers, ReadHead(p) PROVE Carried'
  <2>1. /\ UNCHANGED <<msg, linked, logged>> /\ Carries(p)
        /\ \A q \in Pushers : q # p => pc'[q] = pc[q]
        /\ pc'[p] \in {"signal", "link"}
        /\ \A m \in Messages : m # msg[p] => next'[m] = next[m]
    BY <1>3, <1>t DEF ReadHead, Carries
  <2> QED
    BY <1>t, <2>1 DEF Carried, Carries, Messages
<1>4. ASSUME NEW p \in Pushers, Link(p) PROVE Carried'
  <2>1. /\ UNCHANGED <<msg, next, logged>> /\ Carries(p)
        /\ \A q \in Pushers : q # p => pc'[q] = pc[q]
        /\ pc'[p] = "signal" /\ linked' = Append(linked, msg[p])
    BY <1>4, <1>t DEF Link, Carries
  <2>2. Range(linked') = Range(linked) \cup {msg[p]}
    BY <1>t, <2>1, AppendRange DEF Carried
  <2> QED
    <3>1. ASSUME NEW q \in Pushers, Carries(q)'
          PROVE  /\ msg'[q] \in 1 .. logged' /\ msg'[q] \notin Range(linked')
                 /\ pc'[q] # "link" => next'[msg'[q]] = NULL
                 /\ \A r \in Pushers : r # q /\ Carries(r)' => msg'[r] # msg'[q]
      <4>1. \A r \in Pushers : Carries(r)' => r # p /\ pc'[r] = pc[r] /\ Carries(r)
        BY <2>1 DEF Carries
      <4>2. /\ msg[q] \in 1 .. logged /\ msg[q] \notin Range(linked)
            /\ pc[q] # "link" => next[msg[q]] = NULL
            /\ \A r \in Pushers : r # q /\ Carries(r) => msg[r] # msg[q]
        BY <1>t, <3>1, <4>1 DEF Carried
      <4>3. msg[p] # msg[q]
        BY <2>1, <3>1, <4>1, <4>2
      <4> QED
        BY <2>1, <2>2, <3>1, <4>1, <4>2, <4>3
    <3> QED
      BY <3>1 DEF Carried
<1>5. ASSUME NEW p \in Pushers, Signal(p) PROVE Carried'
  <2>1. /\ UNCHANGED <<next, linked, logged>>
        /\ \A q \in Pushers : q # p => pc'[q] = pc[q] /\ msg'[q] = msg[q]
        /\ pc'[p] = "idle"
    BY <1>5, <1>t DEF Signal
  <2>2. \A q \in Pushers : Carries(q)' => q # p /\ Carries(q) /\ pc'[q] = pc[q] /\ msg'[q] = msg[q]
    BY <2>1 DEF Carries
  <2> QED
    BY <1>t, <2>1, <2>2 DEF Carried
<1>6. CASE LoggerStep
  <2>1. /\ UNCHANGED <<msg, linked, logged>> /\ \A q \in Pushers : pc'[q] = pc[q]
    <3>1. \A q \in Pushers : pc'[q] = pc[q]
      BY <1>6, OthersStay
    <3> QED
      BY <1>6, <3>1 DEF LoggerStep, Start, Test, Wait, Wake, Unlock, PopLock, Find, Walk,
         Unlink, Write
  <2>2. \A m \in Messages : next'[m] = next[m] \/ next'[m] = NULL
    <3>1. CASE Unlink
      BY <1>t, <3>1 DEF Unlink
    <3>2. CASE ~Unlink
      BY <1>6, <3>2 DEF LoggerStep, Start, Test, Wait, Wake, Unlock, PopLock, Find, Walk, Write
    <3> QED
      BY <3>1, <3>2
  <2> QED
    BY <1>t, <2>1, <2>2 DEF Carried, Carries, Messages
<1>7. CASE SpuriousWake \/ UNCHANGED vars
  BY <1>7, <1>t DEF SpuriousWake, vars, Carried, Carries
<1> QED
  BY <1>1, <1>2, <1>3, <1>4, <1>5, <1>6, <1>7 DEF Next, Push

\* The list leads only to what was linked, and what was linked stays so.
LEMMA ReachedStep ==
  ASSUME Typed, Sound, [Next]_vars
  PROVE  Reached' /\ Range(linked) \subseteq Range(linked')
<1> USE Apart DEF Goto, list, popping, history
<1>t. /\ Carried /\ Reached /\ pc \in [Pushers \cup {Logger} -> PusherPcs \cup LoggerPcs]
      /\ next \in [Messages -> Messages \cup {NULL}]
      /\ linked \in Seq(Messages) /\ logged \in Nat /\ 1 .. logged \subseteq Messages /\ pendingLogs \in Messages \cup {NULL}
      /\ currentP \in Messages \cup {NULL} /\ pc[Logger] \in LoggerPcs
  BY DEF Typed, Sound, Messages
<1>p. ASSUME NEW p \in Pushers, Push(p)
      PROVE  pc'[Logger] = pc[Logger] /\ UNCHANGED popping
  <2>1. pc'[Logger] = pc[Logger]
    BY <1>p, OthersStay
  <2> QED
    BY <1>p, <2>1 DEF Push, Begin, PushLock, TestEmpty, ReadHead, Link, Signal
<1>1. ASSUME NEW p \in Pushers, Begin(p) PROVE Reached' /\ linked' = linked
  <2>1. pc'[Logger] = pc[Logger] /\ UNCHANGED popping
    BY <1>1, <1>p DEF Push
  <2>2. logged' = logged + 1 /\ UNCHANGED <<pendingLogs, next, linked>>
    BY <1>1 DEF Begin
  <2> QED
    BY <1>t, <2>1, <2>2 DEF Reached
<1>2. ASSUME NEW p \in Pushers, PushLock(p) \/ TestEmpty(p) \/ Signal(p)
      PROVE  Reached' /\ linked' = linked
  <2>1. pc'[Logger] = pc[Logger] /\ UNCHANGED popping
    BY <1>2, <1>p DEF Push
  <2>2. UNCHANGED <<pendingLogs, next, linked, logged>>
    BY <1>2 DEF PushLock, TestEmpty, Signal
  <2> QED
    BY <1>t, <2>1, <2>2 DEF Reached
<1>3. ASSUME NEW p \in Pushers, ReadHead(p) PROVE Reached' /\ linked' = linked
  <2>1. pc'[Logger] = pc[Logger] /\ UNCHANGED popping
    BY <1>3, <1>p DEF Push
  <2>2. /\ UNCHANGED <<pendingLogs, linked, logged>>
        /\ \A m \in Messages : next'[m] = next[m] \/ (m = msg[p] /\ next'[m] = pendingLogs)
    BY <1>3, <1>t DEF ReadHead
  <2>3. msg[p] <= logged
    BY <1>3, <1>t DEF ReadHead, Carried, Carries
  <2> QED
    BY <1>t, <2>1, <2>2, <2>3 DEF Reached
<1>4. ASSUME NEW p \in Pushers, Link(p)
      PROVE  Reached' /\ Range(linked') = Range(linked) \cup {msg[p]}
  <2>1. pc'[Logger] = pc[Logger] /\ UNCHANGED popping
    BY <1>4, <1>p DEF Push
  <2>2. /\ UNCHANGED <<next, logged>> /\ linked' = Append(linked, msg[p])
        /\ pendingLogs' = msg[p]
    BY <1>4 DEF Link, NewHead
  <2>3. msg[p] \in 1 .. logged /\ msg[p] \notin Range(linked) /\ msg[p] \in Messages
    BY <1>4, <1>t DEF Link, Carried, Carries, Typed
  <2>4. Range(linked') = Range(linked) \cup {msg[p]} /\ IsInjective(linked')
    BY <1>t, <2>2, <2>3, AppendRange DEF Reached
  <2> QED
    BY <1>t, <2>1, <2>2, <2>3, <2>4 DEF Reached
<1>5. ASSUME Start \/ Test \/ Wait \/ Wake \/ Unlock \/ PopLock PROVE Reached' /\ linked' = linked
  <2>1. /\ UNCHANGED <<pendingLogs, next, linked, logged, popping>>
        /\ pc'[Logger] \in {"test", "wait", "unlock", "asleep", "pop", "find"}
        /\ pc[Logger] \in {"start", "test", "wait", "unlock", "asleep", "pop"}
        /\ pc'[Logger] \in {"unlock", "pop", "find"} => pendingLogs # NULL
    BY <1>5, <1>t DEF Start, Test, Wait, Wake, Unlock, PopLock, Reached, queueEmpty
  <2> QED
    BY <1>t, <2>1 DEF Reached
<1>6. ASSUME Find PROVE Reached' /\ linked' = linked
  BY <1>6, <1>t DEF Find, Reached, queueEmpty
<1>7. ASSUME Walk PROVE Reached' /\ linked' = linked
  <2>0. currentP \in Range(linked) /\ currentP \in Messages
    BY <1>7, <1>t DEF Walk, Reached, Range
  <2>1. CASE currentP \notin freed /\ next[currentP] # NULL
    BY <1>7, <1>t, <2>0, <2>1 DEF Walk, Reached
  <2>2. CASE ~(currentP \notin freed /\ next[currentP] # NULL)
    BY <1>7, <1>t, <2>0, <2>2 DEF Walk, Reached
  <2> QED
    BY <2>1, <2>2
<1>8. ASSUME Unlink PROVE Reached' /\ linked' = linked
  <2>1. /\ UNCHANGED <<linked, logged, popping>> /\ pc'[Logger] = "write" /\ pc[Logger] = "unlink"
        /\ pendingLogs' \in {pendingLogs, NULL}
        /\ \A m \in Messages : next'[m] \in {next[m], NULL}
    BY <1>8, <1>t DEF Unlink, ResetHead
  <2> QED
    BY <1>t, <2>1 DEF Reached
<1>9. ASSUME Write PROVE Reached' /\ linked' = linked
  BY <1>9, <1>t DEF Write, Reached
<1>10. CASE SpuriousWake \/ UNCHANGED vars
  BY <1>10, <1>t DEF SpuriousWake, vars, Reached
<1> QED
  BY <1>1, <1>2, <1>3, <1>4, <1>5, <1>6, <1>7, <1>8, <1>9, <1>10 DEF Next, Push, LoggerStep

\* What the logger takes out it frees at once, and it never takes what is freed.
LEMMA TakenStep ==
  ASSUME Typed, Sound, [Next]_vars
  PROVE  TakenOnce'
<1> USE Apart DEF Goto, list, popping, history
<1>t. Reached /\ TakenOnce /\ Out \in Seq(Messages) /\ Typed'
      /\ Range(linked) \subseteq Range(linked')
      /\ pc \in [Pushers \cup {Logger} -> PusherPcs \cup LoggerPcs]
  BY OutTyped, TypedStep, ReachedStep DEF Sound, Typed
<1>1. CASE Unlink
  <2>1. currentP \notin Range(Out) /\ currentP \in Range(linked) /\ currentP \in Messages
    BY <1>1, <1>t DEF Unlink, TakenOnce, Reached, Typed, Range
  <2>2. Out' = Append(Out, currentP) /\ freed' = freed \cup {currentP} /\ pc'[Logger] = "write"
    BY <1>1, <1>t, OutGrows DEF Unlink, FreeElement
  <2>3. /\ Range(Append(Out, currentP)) = Range(Out) \cup {currentP}
        /\ IsInjective(Append(Out, currentP))
    BY <1>t, <2>1, AppendRange DEF TakenOnce
  <2> QED
    BY <1>t, <2>1, <2>2, <2>3 DEF TakenOnce
<1>2. CASE ~Unlink
  <2>1. Out' = Out
    BY <1>2, <1>t, OutGrows
  <2>2. freed' = freed
    BY <1>2 DEF Next, Push, LoggerStep, Begin, PushLock, TestEmpty, ReadHead, Link, Signal,
       Start, Test, Wait, Wake, Unlock, PopLock, Find, Walk, Write, SpuriousWake, vars
  <2>3. pc'[Logger] = "unlink" => currentP' \notin freed'
    <3>1. CASE Walk
      <4>1. CASE currentP \notin freed /\ next[currentP] # NULL
        BY <1>t, <3>1, <4>1 DEF Walk
      <4>2. CASE ~(currentP \notin freed /\ next[currentP] # NULL)
        BY <1>t, <2>2, <3>1, <4>2 DEF Walk
      <4> QED
        BY <4>1, <4>2
    <3>2. CASE ~Walk /\ LoggerStep
      BY <1>2, <1>t, <3>2 DEF LoggerStep, Start, Test, Wait, Wake, Unlock, PopLock, Find, Write
    <3>3. CASE SpuriousWake \/ UNCHANGED vars
      BY <1>t, <3>3, <2>2 DEF SpuriousWake, vars, TakenOnce
    <3>4. ASSUME NEW p \in Pushers, Push(p) PROVE pc'[Logger] = pc[Logger] /\ currentP' = currentP
      <4>1. pc'[Logger] = pc[Logger]
        BY <3>4, OthersStay
      <4> QED
        BY <3>4, <4>1 DEF Push, Begin, PushLock, TestEmpty, ReadHead, Link, Signal
    <3> QED
      BY <1>t, <2>2, <3>1, <3>2, <3>3, <3>4 DEF Next, TakenOnce
  <2> QED
    BY <1>t, <2>1, <2>2, <2>3 DEF TakenOnce
<1> QED
  BY <1>1, <1>2

-----------------------------------------------------------------------------
(* As long as the mutex excludes *)

\* Once two threads have met in their sections it is noted for good.
LEMMA ExcludedBefore ==
  ASSUME [Next]_vars, excluded', Typed
  PROVE  excluded
<1> USE DEF history
<1>1. CASE \E p \in Pushers : Push(p)
  BY <1>1 DEF Push, Begin, PushLock, TestEmpty, ReadHead, Link, Signal, Enter
<1>2. CASE LoggerStep
  BY <1>2 DEF LoggerStep, Start, Test, Wait, Wake, Unlock, PopLock, Find, Walk, Unlink, Write, Enter
<1>3. CASE SpuriousWake \/ UNCHANGED vars
  BY <1>3 DEF SpuriousWake, vars
<1> QED
  BY <1>1, <1>2, <1>3 DEF Next

\* Who enters its section while nobody is in one has it to itself, if it was given the
\* mutex or if it is noted that nobody was there.
LEMMA ExclusiveStep ==
  ASSUME Typed, Exclusive, [Next]_vars, excluded'
  PROVE  Exclusive'
<1> USE Apart DEF Goto, list, popping, history
<1>t. pc \in [Pushers \cup {Logger} -> PusherPcs \cup LoggerPcs] /\ excluded \in BOOLEAN
  BY DEF Typed
<1>o. /\ \A p \in Pushers : Push(p) => pc'[Logger] = pc[Logger] /\ \A q \in Pushers \ {p} : pc'[q] = pc[q]
      /\ LoggerStep => \A q \in Pushers : pc'[q] = pc[q]
  BY OthersStay
<1>1. ASSUME NEW p \in Pushers, Begin(p) PROVE Exclusive'
  <2>1. ~InSection(p)' /\ qMutex' = qMutex /\ Push(p)
    BY <1>1, <1>t DEF Begin, InSection, Push
  <2> QED
    BY <1>o, <2>1 DEF Exclusive, InSection
<1>2. ASSUME NEW p \in Pushers, PushLock(p) PROVE Exclusive'
  <2>1. qMutex' = p /\ Push(p) /\ \A u \in Pushers \cup {Logger} : u # p => ~InSection(u)
    BY <1>2 DEF PushLock, Push, Enter
  <2>2. \A u \in Pushers \cup {Logger} : u # p => ~InSection(u)'
    BY <1>o, <2>1 DEF InSection
  <2> QED
    BY <2>1, <2>2 DEF Exclusive
<1>3. ASSUME NEW p \in Pushers, TestEmpty(p) \/ ReadHead(p) \/ Link(p) PROVE Exclusive'
  <2>1. InSection(p) /\ qMutex' = qMutex /\ Push(p)
    BY <1>3 DEF TestEmpty, ReadHead, Link, Push, InSection
  <2> QED
    BY <1>o, <2>1 DEF Exclusive, InSection
<1>4. ASSUME NEW p \in Pushers, Signal(p) PROVE Exclusive'
  <2>1. InSection(p) /\ ~InSection(p)' /\ Push(p)
    BY <1>4, <1>t DEF Signal, Push, InSection
  <2>2. \A u \in Pushers \cup {Logger} : u # p => ~InSection(u)
    BY <2>1 DEF Exclusive
  <2>3. \A u \in Pushers \cup {Logger} : ~InSection(u)'
    BY <1>o, <2>1, <2>2 DEF InSection
  <2> QED
    BY <2>3 DEF Exclusive
<1>5. CASE LoggerStep
  <2>1. \A p \in Pushers : ~InSection(p) \/ (qMutex' = qMutex /\ ~InSection(Logger)')
    <3>1. CASE Start \/ Wake \/ PopLock
      BY <3>1 DEF Start, Wake, PopLock, Exclusive
    <3>2. CASE Test \/ Wait \/ Unlock \/ Find \/ Walk \/ Unlink
      BY <3>2 DEF Test, Wait, Unlock, Find, Walk, Unlink, InSection, Exclusive
    <3>3. CASE Write
      BY <3>3 DEF Write, Enter
    <3> QED
      BY <1>5, <3>1, <3>2, <3>3 DEF LoggerStep
  <2>2. \A p \in Pushers : InSection(p)' <=> InSection(p)
    BY <1>5, <1>o DEF InSection
  <2> QED
    BY <2>1, <2>2 DEF Exclusive
<1>6. CASE SpuriousWake \/ UNCHANGED vars
  BY <1>6 DEF SpuriousWake, vars, Exclusive, InSection
<1> QED
  BY <1>1, <1>2, <1>3, <1>4, <1>5, <1>6 DEF Next, Push

\* The facts about the list while it is a queue.
LEMMA QueueFacts ==
  ASSUME Typed, Sound, Ordered, excluded
  PROVE  LET n == Len(Out)
             len == Len(linked)
         IN  /\ n \in Nat /\ len \in Nat /\ n <= len /\ DOMAIN Out = 1 .. n
             /\ DOMAIN linked = 1 .. len /\ \A i \in 1 .. len : linked[i] \in Messages
             /\ Out \in Seq(Messages)
             /\ \A i \in 1 .. n : Out[i] = linked[i]
             /\ pendingLogs = IF len = n THEN NULL ELSE linked[len]
             /\ \A i \in n + 1 .. len : /\ next[linked[i]] = IF i = n + 1 THEN NULL ELSE linked[i - 1]
                                        /\ linked[i] \notin freed
             /\ \A i, j \in 1 .. len : linked[i] = linked[j] => i = j
<1>1. Out \in Seq(Messages) /\ Len(Out) \in Nat /\ DOMAIN Out = 1 .. Len(Out)
  BY OutTyped DEF Sound
<1>2. /\ DOMAIN linked = 1 .. Len(linked) /\ Len(linked) \in Nat
      /\ \A i \in 1 .. Len(linked) : linked[i] \in Messages
  BY DEF Typed
<1>3. /\ Len(Out) <= Len(linked) /\ \A i \in 1 .. Len(Out) : Out[i] = linked[i]
      /\ Waiting(Len(Out))
  BY <1>1 DEF Ordered, FifoWhileExcluded
<1>4. \A i, j \in 1 .. Len(linked) : linked[i] = linked[j] => i = j
  BY <1>2 DEF Sound, Reached, IsInjective
<1>5. ASSUME NEW i \in Len(Out) + 1 .. Len(linked) PROVE linked[i] \notin freed
  <2>1. SUFFICES ASSUME linked[i] \in freed PROVE FALSE
    OBVIOUS
  <2>2. PICK j \in 1 .. Len(Out) : Out[j] = linked[i]
    BY <1>1, <2>1 DEF Sound, TakenOnce, Range
  <2>3. j \in 1 .. Len(linked) /\ i \in 1 .. Len(linked) /\ i # j
    BY <1>1, <1>2, <1>3
  <2> QED
    BY <1>3, <1>4, <2>2, <2>3
<1> QED
  BY <1>1, <1>2, <1>3, <1>4, <1>5 DEF Waiting

\* A step of a thread that logs leaves the logger where it was in the list.
LEMMA PusherOrdered ==
  ASSUME Typed, Sound, Exclusive, Ordered, excluded, excluded',
         NEW p \in Pushers, Push(p)
  PROVE  Ordered'
<1> USE Apart DEF Goto, list, popping, history
<1>t. /\ pc \in [Pushers \cup {Logger} -> PusherPcs \cup LoggerPcs] /\ Carried
      /\ next \in [Messages -> Messages \cup {NULL}] /\ linked \in Seq(Messages)
      /\ \A q \in Pushers : pc[q] \in PusherPcs
  BY DEF Typed, Sound
<1>o. /\ \A t \in Pushers \cup {Logger} : t # p => pc'[t] = pc[t]
      /\ pc'[Logger] = pc[Logger] /\ UNCHANGED popping
  <2>1. \A t \in Pushers \cup {Logger} : t # p => pc'[t] = pc[t]
    BY OthersStay
  <2> QED
    BY <2>1 DEF Push, Begin, PushLock, TestEmpty, ReadHead, Link, Signal
<1>u. Out' = Out
  <2>1. ~Unlink
    BY <1>o, <1>t DEF Unlink
  <2> QED
    BY <2>1, OutGrows DEF Sound, Next
<1>s. Unlinking /\ Walking /\ pc[Logger] # "undefined" /\ (pc[Logger] = "wait" => pendingLogs = NULL)
  BY DEF Ordered
<1>e. ASSUME InSection(p)
      PROVE  \A t \in Pushers \cup {Logger} : t # p => ~InSection(t)
  BY <1>e DEF Exclusive
<1>1. CASE Begin(p) \/ PushLock(p) \/ TestEmpty(p)
  <2>1. /\ UNCHANGED <<pendingLogs, next, linked, asleep>>
        /\ \A q \in Pushers : pc[q] # "idle" => msg'[q] = msg[q]
        /\ pc[p] # "signal"
        /\ pc'[p] = "link" => pendingLogs = NULL /\ next[msg[p]] = NULL
    <3>1. CASE Begin(p)
      BY <1>t, <3>1 DEF Begin, Typed
    <3>2. CASE PushLock(p)
      BY <1>t, <3>2 DEF PushLock
    <3>3. CASE TestEmpty(p)
      BY <1>t, <3>3 DEF TestEmpty, queueEmpty, Carried, Carries
    <3> QED
      BY <1>1, <3>1, <3>2, <3>3
  <2>2. FifoWhileExcluded'
    BY <1>u, <2>1 DEF Ordered, FifoWhileExcluded, Waiting
  <2>3. ASSUME NEW q \in Pushers, pc'[q] = "link" PROVE next'[msg'[q]] = pendingLogs'
    <3>1. CASE q = p
      <4>1. pc[p] # "idle"
        BY <1>1, <1>t, <2>3, <3>1 DEF Begin, PushLock, TestEmpty
      <4> QED
        BY <2>1, <2>3, <3>1, <4>1
    <3>2. CASE q # p
      BY <1>o, <2>1, <2>3, <3>2 DEF Ordered
    <3> QED
      BY <3>1, <3>2
  <2>4. asleep' /\ pendingLogs' # NULL => \E q \in Pushers : pc'[q] = "signal"
    BY <1>o, <2>1 DEF Ordered
  <2>5. Unlinking' /\ Walking'
    BY <1>o, <1>s, <1>u, <2>1 DEF Walking, Unlinking
  <2> QED
    BY <1>o, <1>s, <2>1, <2>2, <2>3, <2>4, <2>5 DEF Ordered, Walking, Unlinking
<1>2. CASE ReadHead(p)
  <2>0. InSection(p)
    BY <1>2 DEF ReadHead, InSection
  <2>1. /\ UNCHANGED <<pendingLogs, linked, asleep, msg>>
        /\ pc[p] = "reread"
        /\ \A m \in Messages : m # msg[p] => next'[m] = next[m]
        /\ pc'[p] = "link" => next'[msg[p]] = pendingLogs
    <3>1. msg[p] \in Messages
      BY <1>2, <1>t DEF ReadHead, Carried, Carries, Typed, Messages
    <3> QED
      BY <1>2, <1>t, <3>1 DEF ReadHead
  <2>2. FifoWhileExcluded'
    <3>1. msg[p] \notin Range(linked)
      BY <1>t, <2>1 DEF Carried, Carries
    <3>2. \A i \in 1 .. Len(linked) : linked[i] \in Messages /\ linked[i] # msg[p]
      BY <1>t, <3>1 DEF Range
    <3>3. Len(Out) \in Nat /\ Len(linked) \in Nat
      BY <1>t, OutTyped DEF Sound
    <3> QED
      BY <1>u, <2>1, <3>2, <3>3 DEF Ordered, FifoWhileExcluded, Waiting
  <2>3. ASSUME NEW q \in Pushers, pc'[q] = "link" PROVE next'[msg'[q]] = pendingLogs'
    <3>1. CASE q = p
      BY <2>1, <2>3, <3>1
    <3>2. CASE q # p
      BY <1>e, <1>o, <2>0, <2>3, <3>2 DEF InSection
    <3> QED
      BY <3>1, <3>2
  <2>4. asleep' /\ pendingLogs' # NULL => \E q \in Pushers : pc'[q] = "signal"
    BY <1>o, <2>1 DEF Ordered
  <2>5. Unlinking' /\ Walking'
    BY <1>o, <1>s, <1>u, <2>1 DEF Walking, Unlinking
  <2> QED
    BY <1>o, <1>s, <2>1, <2>2, <2>3, <2>4, <2>5 DEF Ordered, Walking, Unlinking
<1>3. CASE Link(p)
  <2>0. InSection(p) /\ pc[p] = "link"
    BY <1>3 DEF Link, InSection
  <2> DEFINE m == msg[p]
             n == Len(Out)
             len == Len(linked)
  <2>1. /\ UNCHANGED <<next, msg, asleep>> /\ pc'[p] = "signal"
        /\ pendingLogs' = m /\ linked' = Append(linked, m) /\ m \in Messages
    <3>1. m \in 1 .. logged /\ logged <= MaxMessages /\ logged \in Nat
      BY <1>t, <2>0 DEF Carried, Carries, Typed
    <3> QED
      BY <1>3, <1>t, <3>1 DEF Link, NewHead, Messages
  <2>2. /\ Len(linked') = len + 1 /\ linked'[len + 1] = m
        /\ \A i \in 1 .. len : linked'[i] = linked[i]
    BY <1>t, <2>1, AppendFacts
  <2>3. FifoWhileExcluded'
    <3>1. /\ n \in Nat /\ len \in Nat /\ n <= len /\ DOMAIN Out = 1 .. n
          /\ \A i \in 1 .. n : Out[i] = linked[i]
          /\ pendingLogs = IF len = n THEN NULL ELSE linked[len]
          /\ \A i \in n + 1 .. len : next[linked[i]] = IF i = n + 1 THEN NULL ELSE linked[i - 1]
      BY QueueFacts
    <3>2. next[m] = pendingLogs
      BY <2>0 DEF Ordered
    <3>3. ASSUME NEW i \in n + 1 .. len + 1
          PROVE  next'[linked'[i]] = IF i = n + 1 THEN NULL ELSE linked'[i - 1]
      <4>1. CASE i = len + 1
        <5>1. CASE len = n
          BY <2>1, <2>2, <3>1, <3>2, <4>1, <5>1
        <5>2. CASE len # n
          <6>1. len \in 1 .. len /\ i - 1 = len /\ i # n + 1
            BY <3>1, <4>1, <5>2
          <6> QED
            BY <2>1, <2>2, <3>1, <3>2, <4>1, <5>2, <6>1
        <5> QED
          BY <5>1, <5>2
      <4>2. CASE i # len + 1
        <5>1. i \in n + 1 .. len /\ i \in 1 .. len /\ (i # n + 1 => i - 1 \in 1 .. len)
          BY <3>1, <4>2
        <5> QED
          BY <2>1, <2>2, <3>1, <5>1
      <4> QED
        BY <4>1, <4>2
    <3>4. len + 1 # n /\ n <= len + 1 /\ \A i \in 1 .. n : i \in 1 .. len
      <4>1. n \in Nat /\ len \in Nat /\ n <= len
        BY <3>1
      <4> HIDE DEF n, len
      <4> QED
        BY <4>1
    <3>5. Len(Out') = n /\ Len(linked') = len + 1 /\ pendingLogs' = linked'[len + 1]
      BY <1>u, <2>1, <2>2
    <3>6. \A i \in DOMAIN Out' : Out'[i] = linked'[i]
      BY <1>u, <2>2, <3>1, <3>4
    <3> HIDE DEF n, len, m
    <3> QED
      BY <3>3, <3>4, <3>5, <3>6 DEF FifoWhileExcluded, Waiting
  <2>4. ~InSection(Logger) /\ pc[Logger] \notin {"walk", "unlink", "wait"}
    BY <1>e, <2>0 DEF InSection
  <2>5. \A q \in Pushers : pc'[q] # "link"
    BY <1>e, <1>o, <2>0, <2>1 DEF InSection
  <2> QED
    BY <1>o, <1>s, <2>1, <2>3, <2>4, <2>5 DEF Ordered, Walking, Unlinking
<1>4. CASE Signal(p)
  <2>0. InSection(p)
    BY <1>4 DEF Signal, InSection
  <2>1. UNCHANGED <<pendingLogs, next, linked>> /\ asleep' = FALSE /\ pc'[p] = "idle"
    BY <1>4, <1>t DEF Signal, SignalCond
  <2>2. FifoWhileExcluded'
    BY <1>u, <2>1 DEF Ordered, FifoWhileExcluded, Waiting
  <2>3. \A q \in Pushers : pc'[q] # "link"
    BY <1>e, <1>o, <2>0, <2>1 DEF InSection
  <2>5. Unlinking' /\ Walking'
    BY <1>o, <1>s, <1>u, <2>1 DEF Walking, Unlinking
  <2> QED
    BY <1>o, <1>s, <2>1, <2>2, <2>3, <2>5 DEF Ordered, Walking, Unlinking
<1> QED
  BY <1>1, <1>2, <1>3, <1>4 DEF Push

\* A step of the logger finds the list as it left it.
LEMMA LoggerOrdered ==
  ASSUME Typed, Sound, Exclusive, Ordered, excluded, excluded', LoggerStep
  PROVE  Ordered'
<1> USE Apart DEF Goto, list, popping, history
<1>t. /\ pc \in [Pushers \cup {Logger} -> PusherPcs \cup LoggerPcs] /\ Reached
      /\ next \in [Messages -> Messages \cup {NULL}]
      /\ pc[Logger] \in LoggerPcs
      /\ currentP \in Messages \cup {NULL} /\ prevP \in Messages \cup {NULL}
  BY DEF Typed, Sound
<1>o. \A q \in Pushers : pc'[q] = pc[q]
  BY OthersStay
<1>u. IF Unlink THEN Out' = Append(Out, currentP) ELSE Out' = Out
  BY OutGrows DEF Sound, Next
<1>m. msg' = msg /\ linked' = linked
  BY DEF LoggerStep, Start, Test, Wait, Wake, Unlock, PopLock, Find, Walk, Unlink, Write
<1>i. InSection(Logger) => \A q \in Pushers : pc[q] # "link" /\ pc[q] # "signal"
  BY DEF Exclusive, InSection
<1> DEFINE n == Len(Out)
           len == Len(linked)
<1>q. /\ n \in Nat /\ len \in Nat /\ n <= len /\ DOMAIN Out = 1 .. n /\ Out \in Seq(Messages)
      /\ \A i \in 1 .. len : linked[i] \in Messages
      /\ \A i \in 1 .. n : Out[i] = linked[i]
      /\ pendingLogs = IF len = n THEN NULL ELSE linked[len]
      /\ \A i \in n + 1 .. len : /\ next[linked[i]] = IF i = n + 1 THEN NULL ELSE linked[i - 1]
                                 /\ linked[i] \notin freed
      /\ \A i, j \in 1 .. len : linked[i] = linked[j] => i = j
  BY QueueFacts
\* What holds after a step that leaves the list as it is.
<1>s. ASSUME UNCHANGED <<pendingLogs, next>>, Out' = Out
      PROVE  /\ FifoWhileExcluded'
             /\ \A q \in Pushers : pc'[q] = "link" => next'[msg'[q]] = pendingLogs'
  <2>1. FifoWhileExcluded'
    BY <1>s, <1>m DEF Ordered, FifoWhileExcluded, Waiting
  <2> QED
    BY <1>s, <1>m, <1>o, <2>1 DEF Ordered
<1>1. CASE Start \/ Test \/ Wake \/ Unlock \/ PopLock \/ Wait \/ Write
  <2>1. /\ UNCHANGED <<pendingLogs, next>> /\ ~Unlink
        /\ pc'[Logger] \notin {"walk", "unlink", "undefined"}
        /\ pc'[Logger] = "wait" => pendingLogs = NULL
        /\ asleep' => asleep \/ pendingLogs = NULL
    <3>1. CASE Start \/ Test \/ Wake
      BY <1>t, <3>1 DEF Start, Test, Wake, Unlink, queueEmpty
    <3>2. CASE Unlock \/ PopLock \/ Write
      BY <1>t, <3>2 DEF Unlock, PopLock, Write, Unlink
    <3>3. CASE Wait
      BY <1>t, <3>3 DEF Wait, Unlink, Ordered
    <3> QED
      BY <1>1, <3>1, <3>2, <3>3
  <2>2. asleep' /\ pendingLogs' # NULL => \E q \in Pushers : pc'[q] = "signal"
    BY <1>o, <2>1 DEF Ordered
  <2> QED
    BY <1>s, <1>u, <2>1, <2>2 DEF Ordered, Walking, Unlinking
<1>2. CASE Find
  <2>1. /\ UNCHANGED <<pendingLogs, next, asleep, prevP>> /\ ~Unlink
        /\ pc'[Logger] = "walk" /\ currentP' = pendingLogs /\ pendingLogs # NULL /\ prevP = NULL
    BY <1>2, <1>t DEF Find, Unlink, queueEmpty, Reached
  <2>2. Out' = Out
    BY <1>u, <2>1
  <2>3. len \in n + 1 .. len /\ currentP' = linked[len]
    <3>1. len # n /\ pendingLogs = linked[len]
      BY <1>q, <2>1
    <3>2. n \in Nat /\ len \in Nat /\ n <= len
      BY <1>q
    <3> HIDE DEF n, len
    <3> QED
      BY <2>1, <3>1, <3>2
  <2>4. asleep' /\ pendingLogs' # NULL => \E q \in Pushers : pc'[q] = "signal"
    BY <1>o, <2>1 DEF Ordered
  <2> QED
    BY <1>m, <1>s, <2>1, <2>2, <2>3, <2>4 DEF Ordered, Walking, Unlinking
<1>3. CASE Walk
  <2>1. /\ UNCHANGED <<pendingLogs, next, asleep>> /\ ~Unlink /\ pc[Logger] = "walk"
    BY <1>3, <1>t DEF Walk, Unlink
  <2>2. Out' = Out
    BY <1>u, <2>1
  <2>3. PICK k \in n + 1 .. len :
          /\ currentP = linked[k]
          /\ prevP = IF k = len THEN NULL ELSE linked[k + 1]
    BY <2>1 DEF Ordered, Walking, Unlinking
  <2>4. /\ currentP \notin freed
        /\ next[currentP] = IF k = n + 1 THEN NULL ELSE linked[k - 1]
    BY <1>q, <2>3
  <2>5. asleep' /\ pendingLogs' # NULL => \E q \in Pushers : pc'[q] = "signal"
    BY <1>o, <2>1 DEF Ordered
  <2>6. CASE next[currentP] # NULL
    <3>1. prevP' = currentP /\ currentP' = next[currentP] /\ pc' = pc
      BY <1>3, <2>4, <2>6 DEF Walk
    <3>2. k # n + 1
      BY <2>4, <2>6
    <3>3. k - 1 \in n + 1 .. len /\ k - 1 # len /\ (k - 1) + 1 = k
      <4>1. n \in Nat /\ len \in Nat
        BY <1>q
      <4> HIDE DEF n, len
      <4> QED
        BY <3>2, <4>1
    <3>4. currentP' = linked[k - 1] /\ prevP' = linked[(k - 1) + 1]
      BY <2>3, <2>4, <3>1, <3>2, <3>3
    <3> QED
      BY <1>m, <1>s, <2>1, <2>2, <2>5, <3>1, <3>3, <3>4 DEF Ordered, Walking, Unlinking
  <2>7. CASE next[currentP] = NULL
    <3>1. UNCHANGED popping /\ pc'[Logger] \in {"overrun", "unlink"}
      BY <1>3, <1>t, <2>4, <2>7 DEF Walk
    <3>2. k = n + 1
      <4>1. k \in Nat /\ n \in Nat /\ len \in Nat /\ n + 1 <= k /\ k <= len
        BY <1>q, <2>3
      <4>2. SUFFICES ASSUME k # n + 1 PROVE FALSE
        OBVIOUS
      <4>3. next[currentP] = linked[k - 1]
        BY <2>4, <4>2
      <4>4. k - 1 \in 1 .. len
        <5> HIDE DEF n, len
        <5> QED
          BY <4>1, <4>2
      <4> QED
        BY <1>q, <2>7, <4>3, <4>4
    <3>3. n < len /\ (n + 1) + 1 = n + 2
      <4>1. n \in Nat /\ len \in Nat
        BY <1>q
      <4> HIDE DEF n, len
      <4> QED
        BY <3>2, <4>1
    <3>4. /\ currentP' = linked[n + 1]
          /\ prevP' = IF n + 1 = len THEN NULL ELSE linked[n + 2]
      BY <2>3, <3>1, <3>2, <3>3
    <3> QED
      BY <1>m, <1>s, <2>1, <2>2, <2>5, <3>1, <3>3, <3>4 DEF Ordered, Walking, Unlinking
  <2> QED
    BY <2>6, <2>7
<1>4. CASE Unlink
  <2>1. /\ pc[Logger] = "unlink" /\ pc'[Logger] = "write" /\ asleep' = asleep
        /\ n < len /\ currentP = linked[n + 1]
        /\ prevP = IF n + 1 = len THEN NULL ELSE linked[n + 2]
        /\ Out' = Append(Out, currentP)
    BY <1>4, <1>t, <1>u DEF Unlink, Ordered, Walking, Unlinking
  <2>2. n \in Nat /\ len \in Nat
    BY <1>q
  <2>3. n + 1 \in 1 .. len /\ \A i \in 1 .. n : i \in 1 .. len
    <3> HIDE DEF n, len
    <3> QED
      BY <2>1, <2>2
  <2>4. /\ Len(Out') = n + 1 /\ DOMAIN Out' = 1 .. n + 1
        /\ \A i \in 1 .. n + 1 : Out'[i] = linked[i]
    <3>1. /\ Len(Out') = n + 1 /\ DOMAIN Out' = 1 .. n + 1 /\ Out'[n + 1] = currentP
          /\ \A i \in 1 .. n : Out'[i] = Out[i]
      BY <1>q, <2>1, <2>3, AppendFacts
    <3>2. \A i \in 1 .. n + 1 : i \in 1 .. n \/ i = n + 1
      <4> HIDE DEF n
      <4> QED
        BY <2>2
    <3> QED
      BY <1>q, <2>1, <3>1, <3>2
  <2>5. /\ pendingLogs' = IF len = n + 1 THEN NULL ELSE linked[len]
        /\ \A i \in n + 2 .. len : next'[linked[i]] = IF i = n + 2 THEN NULL ELSE linked[i - 1]
    <3>1. CASE n + 1 = len
      <4>1. pendingLogs' = NULL
        BY <1>4, <2>1, <3>1 DEF Unlink, ResetHead
      <4>2. n + 2 .. len = {}
        <5> HIDE DEF n, len
        <5> QED
          BY <2>2, <3>1
      <4> QED
        BY <3>1, <4>1, <4>2
    <3>2. CASE n + 1 # len
      <4>1. /\ n + 2 \in 1 .. len /\ len # n
            /\ \A i \in n + 2 .. len : i \in n + 1 .. len /\ i \in 1 .. len /\ i # n + 1
        <5> HIDE DEF n, len
        <5> QED
          BY <2>1, <2>2, <3>2
      <4>2. prevP = linked[n + 2] /\ prevP \in Messages
        BY <1>q, <2>1, <3>2, <4>1
      <4>3. pendingLogs' = pendingLogs /\ next' = [next EXCEPT ![prevP] = NULL]
        BY <1>4, <4>2 DEF Unlink
      <4>4. ASSUME NEW i \in n + 2 .. len
            PROVE  next'[linked[i]] = IF i = n + 2 THEN NULL ELSE linked[i - 1]
        <5>1. i \in n + 1 .. len /\ i \in 1 .. len /\ i # n + 1 /\ linked[i] \in Messages
          BY <1>q, <4>1
        <5>2. next[linked[i]] = linked[i - 1] /\ (linked[i] = prevP <=> i = n + 2)
          BY <1>q, <4>1, <4>2, <5>1
        <5> QED
          BY <1>t, <4>2, <4>3, <5>1, <5>2
      <4> QED
        BY <1>q, <3>2, <4>1, <4>3, <4>4
    <3> QED
      BY <3>1, <3>2
  <2>6. FifoWhileExcluded'
    <3>1. (n + 1) + 1 = n + 2 /\ n + 1 <= len
      <4> HIDE DEF n, len
      <4> QED
        BY <2>1, <2>2
    <3>2. Len(linked') = len
      BY <1>m
    <3> HIDE DEF n, len
    <3> QED
      BY <1>m, <2>4, <2>5, <3>1, <3>2 DEF FifoWhileExcluded, Waiting
  <2>7. pendingLogs' # NULL => pendingLogs # NULL
    BY <1>4 DEF Unlink, ResetHead
  <2>8. /\ \A q \in Pushers : pc'[q] # "link"
        /\ ~asleep' \/ pendingLogs' = NULL
    BY <1>i, <1>o, <2>1, <2>7 DEF InSection, Ordered
  <2> QED
    BY <2>1, <2>6, <2>8 DEF Ordered, Walking, Unlinking
<1> QED
  BY <1>1, <1>2, <1>3, <1>4 DEF LoggerStep

-----------------------------------------------------------------------------
(* The theorems *)

\* Nothing is linked at the start, and nobody is in a section.
LEMMA InvInit == Init => IInv
<1> SUFFICES ASSUME Init PROVE IInv
  OBVIOUS
<1>1. Typed /\ pc[Logger] = "start" /\ \A p \in Pushers : pc[p] = "idle"
  BY TypedInit, Apart DEF Init
<1>2. /\ linked = <<>> /\ Out = <<>> /\ Range(linked) = {} /\ Range(Out) = {}
      /\ pendingLogs = NULL /\ freed = {} /\ prevP = NULL /\ asleep = FALSE
  BY <1>1 DEF Init, Out, Range
<1>3. Carried
  BY <1>1 DEF Carried, Carries
<1>4. Reached
  BY <1>1, <1>2 DEF Init, Reached, IsInjective
<1>5. TakenOnce
  BY <1>1, <1>2 DEF TakenOnce, IsInjective
<1>6. Exclusive
  BY <1>1 DEF Exclusive, InSection
<1>7. Ordered
  BY <1>1, <1>2 DEF Ordered, FifoWhileExcluded, Waiting, Walking, Unlinking
<1> QED
  BY <1>1, <1>3, <1>4, <1>5, <1>6, <1>7 DEF IInv, Sound

\* IInv is inductive.
LEMMA InvStep == IInv /\ [Next]_vars => IInv'
<1> SUFFICES ASSUME IInv, [Next]_vars PROVE IInv'
  OBVIOUS
<1>1. Typed' /\ Sound'
  BY TypedStep, CarriedStep, ReachedStep, TakenStep DEF IInv, Sound
<1>2. ASSUME excluded' PROVE Exclusive' /\ Ordered'
  <2>1. Typed /\ Sound /\ excluded /\ Exclusive /\ Ordered
    BY <1>2, ExcludedBefore DEF IInv
  <2>2. Exclusive'
    BY <1>2, <2>1, ExclusiveStep
  <2>3. CASE SpuriousWake \/ UNCHANGED vars
    <3>1. /\ UNCHANGED <<pendingLogs, next, pc, msg, popping, linked, written>>
          /\ asleep' => asleep
      BY <2>3 DEF SpuriousWake, vars, list, history, popping
    <3>2. Out' = Out
      BY <3>1 DEF Out, popping
    <3> QED
      BY <2>1, <2>2, <3>1, <3>2 DEF Ordered, FifoWhileExcluded, Waiting, Walking, Unlinking, popping
  <2> QED
    BY <1>2, <2>1, <2>2, <2>3, PusherOrdered, LoggerOrdered DEF Next
<1> QED
  BY <1>1, <1>2 DEF IInv

\* In every state: what is linked is linked once, what is taken out is freed, and as long as
\* the mutex has excluded the list is a queue.
THEOREM Invariance == Spec => []IInv
  BY InvInit, InvStep, PTL DEF Spec

\* Every variable keeps its type.
THEOREM TypeCorrect == Spec => []TypeOK
<1>1. IInv => TypeOK
  BY DEF IInv, Typed, TypeOK, PusherPcs, LoggerPcs
<1> QED
  BY Invariance, <1>1, PTL

\* writeLog() writes no message twice, and none that logpush() has not linked, also when
\* it has unlocked the mutex under another thread.
THEOREM NothingTwice == Spec => []WrittenOnce
<1>1. IInv => WrittenOnce
  <2> SUFFICES ASSUME IInv PROVE WrittenOnce
    OBVIOUS
  <2>1. /\ written \in Seq(Messages) /\ Out \in Seq(Messages)
        /\ IsInjective(Out) /\ Range(Out) \subseteq Range(linked)
    BY OutTyped DEF IInv, Typed, Sound, TakenOnce
  <2>2. /\ Len(written) \in Nat /\ Len(Out) \in Nat /\ Len(written) <= Len(Out)
        /\ DOMAIN written = 1 .. Len(written) /\ DOMAIN Out = 1 .. Len(Out)
        /\ \A i \in 1 .. Len(written) : Out[i] = written[i]
    <3>1. CASE pc[Logger] = "write"
      <4>1. currentP \in Messages
        BY <3>1 DEF IInv, Typed, Sound, Reached, Range
      <4> QED
        BY <2>1, <3>1, <4>1 DEF Out
    <3>2. CASE pc[Logger] # "write"
      BY <2>1, <3>2 DEF Out
    <3> QED
      BY <3>1, <3>2
  <2>3. \A i \in DOMAIN written : i \in DOMAIN Out /\ Out[i] = written[i]
    BY <2>2
  <2> QED
    BY <2>1, <2>3 DEF WrittenOnce, IsInjective, Range
<1> QED
  BY Invariance, <1>1, PTL

\* Until two threads have been in their sections at once, the list is a queue.
THEOREM IsQueue == Spec => []FifoWhileExcluded
<1>1. IInv => FifoWhileExcluded
  BY DEF IInv, Ordered, FifoWhileExcluded
<1> QED
  BY Invariance, <1>1, PTL

\* Until then, the logger sleeps on no message whose thread has done its signal.
THEOREM SleepsOnEmpty == Spec => []SleepsOnlyIfEmpty
<1>1. IInv => SleepsOnlyIfEmpty
  BY DEF IInv, Ordered, SleepsOnlyIfEmpty, queueEmpty
<1> QED
  BY Invariance, <1>1, PTL

\* Until then, logpop() never reads an element it has freed.
THEOREM WalksOnLive == Spec => []NoFreedElement
<1>1. IInv => NoFreedElement
  BY DEF IInv, Ordered, NoFreedElement
<1> QED
  BY Invariance, <1>1, PTL

\* logpop() always finds a message: nobody else removes what writeLog() has seen.
THEOREM PopFindsOne == Spec => [](pc[Logger] = "find" => ~queueEmpty)
<1>1. IInv => (pc[Logger] = "find" => ~queueEmpty)
  BY DEF IInv, Sound, Reached, queueEmpty
<1> QED
  BY Invariance, <1>1, PTL

-----------------------------------------------------------------------------
(* What the comment says, as long as the mutex excludes *)

\* Queue is what next leads to: of the sets that hold m and what next leads to from each of
\* their members, the smallest is one that the definition describes.
LEMMA QueueLeads ==
  ASSUME Typed
  PROVE  \A m \in Messages :
           Queue[m] = {m} \cup (IF next[m] = NULL THEN {} ELSE Queue[next[m]])
<1> DEFINE Closed(C) == \A x \in C : next[x] # NULL => next[x] \in C
           F == [m \in Messages |->
                   {k \in Messages : \A C \in SUBSET Messages : m \in C /\ Closed(C) => k \in C}]
           G(f) == [m \in Messages |-> {m} \cup (IF next[m] = NULL THEN {} ELSE f[next[m]])]
<1>1. \A m \in Messages : next[m] \in Messages \cup {NULL}
  BY DEF Typed
<1>2. ASSUME NEW m \in Messages
      PROVE  F[m] = {m} \cup (IF next[m] = NULL THEN {} ELSE F[next[m]])
  <2> DEFINE E == {m} \cup (IF next[m] = NULL THEN {} ELSE F[next[m]])
  <2>1. E \subseteq F[m]
    <3>1. m \in F[m]
      OBVIOUS
    <3>2. ASSUME next[m] # NULL, NEW k \in F[next[m]] PROVE k \in F[m]
      <4>1. next[m] \in Messages
        BY <1>1, <3>2
      <4>2. k \in Messages /\ \A C \in SUBSET Messages : next[m] \in C /\ Closed(C) => k \in C
        BY <3>2, <4>1
      <4>3. \A C \in SUBSET Messages : m \in C /\ Closed(C) => k \in C
        BY <3>2, <4>2
      <4> QED
        BY <4>2, <4>3
    <3> HIDE DEF F
    <3> QED
      BY <3>1, <3>2
  <2>2. E \in SUBSET Messages /\ m \in E
    BY <1>1
  <2>3. Closed(E)
    <3> SUFFICES ASSUME NEW x \in E, next[x] # NULL PROVE next[x] \in E
      OBVIOUS
    <3>1. \A y \in Messages : y \in F[y]
      OBVIOUS
    <3>2. CASE x = m
      BY <1>1, <3>1, <3>2
    <3>3. CASE x # m
      <4>1. next[m] # NULL /\ next[m] \in Messages /\ x \in F[next[m]]
        BY <1>1, <3>3
      <4>2. x \in Messages /\ next[x] \in Messages
        BY <1>1, <4>1
      <4>3. \A C \in SUBSET Messages : next[m] \in C /\ Closed(C) => next[x] \in C
        BY <4>1
      <4>4. next[x] \in F[next[m]]
        BY <4>1, <4>2, <4>3
      <4> QED
        BY <4>1, <4>4
    <3> QED
      BY <3>2, <3>3
  <2>4. F[m] \subseteq E
    <3> HIDE DEF E
    <3> QED
      BY <2>2, <2>3
  <2> HIDE DEF F
  <2> QED
    BY <2>1, <2>4
<1>3. F = G(F)
  <2>1. F = [m \in Messages |-> F[m]]
    OBVIOUS
  <2> HIDE DEF F
  <2> QED
    BY <1>2, <2>1
<1>4. Queue = G(Queue)
  <2>1. Queue = CHOOSE f : f = G(f)
    BY Zenon DEF Queue
  <2> HIDE DEF F, G
  <2> QED
    BY <1>3, <2>1
<1> QED
  BY <1>4

\* As long as no two threads have met in their sections, no message is lost: what
\* NoMessageLost says, and the code without its lock breaks.
THEOREM NoneLostWhileExcluded == Spec => [](excluded => NoMessageLost)
<1>1. IInv => (excluded => NoMessageLost)
  <2> SUFFICES ASSUME IInv, excluded, NEW x \in Range(linked)
               PROVE  x \in Queued \cup Range(written) \cup {currentP}
    BY DEF NoMessageLost
  <2>0. PICK n, len, head : n = Len(Out) /\ len = Len(linked) /\ head = linked[len]
    OBVIOUS
  <2>1. /\ n \in Nat /\ len \in Nat /\ n <= len /\ DOMAIN Out = 1 .. n
        /\ DOMAIN linked = 1 .. len /\ \A i \in 1 .. len : linked[i] \in Messages
        /\ \A i \in 1 .. n : Out[i] = linked[i]
        /\ pendingLogs = IF len = n THEN NULL ELSE head
        /\ \A i \in n + 1 .. len : next[linked[i]] = IF i = n + 1 THEN NULL ELSE linked[i - 1]
    BY <2>0, QueueFacts DEF IInv
  <2>2. PICK j \in 1 .. len : x = linked[j]
    BY <2>1 DEF Range
  <2>3. CASE j <= n
    <3>1. x \in Range(Out)
      BY <2>1, <2>2, <2>3 DEF Range
    <3>2. Range(Out) \subseteq Range(written) \cup {currentP}
      BY DEF Out, Range, IInv, Typed
    <3> QED
      BY <3>1, <3>2
  <2>4. CASE n < j
    <3> DEFINE Seen(i) == Queue[linked[i]] \subseteq Queue[head]
               Lost == {d \in 0 .. len - (n + 1) : ~Seen(len - d)}
    <3>1. \A m \in Messages : Queue[m] = {m} \cup (IF next[m] = NULL THEN {} ELSE Queue[next[m]])
      BY QueueLeads DEF IInv
    <3>2. Lost = {}
      <4> SUFFICES ASSUME Lost # {} PROVE FALSE
        OBVIOUS
      <4>1. Lost \subseteq Nat
        OBVIOUS
      <4>2. PICK d \in Lost : \A e \in Lost : d <= e
        <5> HIDE DEF Lost
        <5> QED
          BY <4>1, LeastMember
      <4>3. Seen(len)
        BY <2>0
      <4>4. d \in 0 .. len - (n + 1) /\ ~Seen(len - d)
        OBVIOUS
      <4>5. d # 0 /\ d \in Nat
        <5> HIDE DEF Seen
        <5>1. len - 0 = len
          BY <2>1
        <5> QED
          BY <4>3, <4>4, <5>1
      <4>6. Seen(len - (d - 1))
        <5> HIDE DEF Seen
        <5>1. d - 1 \in 0 .. len - (n + 1) /\ ~(d <= d - 1)
          BY <2>1, <4>4, <4>5
        <5>2. d - 1 \notin Lost
          <6> HIDE DEF Lost
          <6> QED
            BY <4>2, <5>1
        <5> QED
          BY <5>1, <5>2
      <4>7. /\ len - (d - 1) \in n + 1 .. len /\ len - (d - 1) # n + 1
            /\ len - (d - 1) - 1 = len - d /\ len - d \in 1 .. len /\ len - (d - 1) \in 1 .. len
        BY <2>1, <4>4, <4>5
      <4>8. next[linked[len - (d - 1)]] = linked[len - d] /\ linked[len - d] # NULL
        BY <2>1, <4>7, Apart
      <4>9. Queue[linked[len - d]] \subseteq Queue[linked[len - (d - 1)]]
        <5>1. PICK a : a = linked[len - (d - 1)]
          OBVIOUS
        <5>2. a \in Messages /\ next[a] # NULL /\ next[a] = linked[len - d]
          BY <2>1, <4>7, <4>8, <5>1
        <5>3. Queue[a] = {a} \cup Queue[next[a]]
          BY <3>1, <5>2
        <5> QED
          BY <5>1, <5>2, <5>3
      <4> QED
        BY <4>4, <4>6, <4>9
    <3>3. len - j \in 0 .. len - (n + 1) /\ len - (len - j) = j
      BY <2>1, <2>2, <2>4
    <3>4. Queue[linked[j]] \subseteq Queue[head]
      BY <3>2, <3>3
    <3>5. x \in Queue[linked[j]]
      BY <2>1, <2>2, <3>1
    <3>6. pendingLogs = head /\ head \in Messages
      <4>1. len # n /\ len \in 1 .. len
        BY <2>1, <2>2, <2>4
      <4> QED
        BY <2>0, <2>1, <4>1
    <3> QED
      BY <3>4, <3>5, <3>6, Apart DEF Queued, queueEmpty
  <2> QED
    BY <2>1, <2>2, <2>3, <2>4
<1> QED
  BY Invariance, <1>1, PTL

-----------------------------------------------------------------------------
(* Why what is logged gets written *)

\* Who holds qMutex is between its lock and its unlock, whatever the others do.
MutexHeld ==
  /\ \A p \in Pushers : qMutex = p => pc[p] \in {"read", "reread", "link", "signal"}
  /\ qMutex = Logger =>
       pc[Logger] \in {"test", "wait", "unlock", "find", "walk", "unlink", "undefined", "overrun"}
  /\ asleep => pc[Logger] = "asleep"

\* A step keeps it so.
LEMMA MutexHeldStep ==
  ASSUME Typed, MutexHeld, [Next]_vars
  PROVE  MutexHeld'
<1> USE Apart DEF Goto, list, popping, history
<1>t. /\ pc \in [Pushers \cup {Logger} -> PusherPcs \cup LoggerPcs]
      /\ \A p \in Pushers : Push(p) => pc'[Logger] = pc[Logger] /\ \A q \in Pushers \ {p} : pc'[q] = pc[q]
      /\ LoggerStep => \A q \in Pushers : pc'[q] = pc[q]
  BY OthersStay DEF Typed
<1>1. ASSUME NEW p \in Pushers, Begin(p) PROVE MutexHeld'
  BY <1>1, <1>t DEF Begin, Push, MutexHeld
<1>2. ASSUME NEW p \in Pushers, PushLock(p) PROVE MutexHeld'
  BY <1>2, <1>t DEF PushLock, Push, MutexHeld
<1>3. ASSUME NEW p \in Pushers, TestEmpty(p) \/ ReadHead(p) \/ Link(p) PROVE MutexHeld'
  <2>1. /\ Push(p) /\ UNCHANGED <<qMutex, asleep>>
        /\ pc'[p] \in {"read", "reread", "link", "signal"}
    BY <1>3, <1>t DEF TestEmpty, ReadHead, Link, Push
  <2> QED
    BY <1>t, <2>1 DEF MutexHeld
<1>4. ASSUME NEW p \in Pushers, Signal(p) PROVE MutexHeld'
  BY <1>4, <1>t DEF Signal, SignalCond, Push, MutexHeld
<1>5. CASE Start \/ Wake \/ PopLock
  BY <1>5, <1>t DEF Start, Wake, PopLock, LoggerStep, MutexHeld
<1>6. CASE Test \/ Wait \/ Unlock
  BY <1>6, <1>t DEF Test, Wait, Unlock, LoggerStep, MutexHeld
<1>7. CASE Find \/ Walk
  BY <1>7, <1>t DEF Find, Walk, LoggerStep, MutexHeld
<1>8. CASE Unlink
  BY <1>8, <1>t DEF Unlink, LoggerStep, MutexHeld
<1>9. CASE Write
  <2>1. UNCHANGED <<qMutex, asleep>> /\ pc[Logger] = "write" /\ pc'[Logger] = "test"
    BY <1>9, <1>t DEF Write
  <2> QED
    BY <1>9, <1>t, <2>1 DEF LoggerStep, MutexHeld
<1>10. CASE SpuriousWake \/ UNCHANGED vars
  BY <1>10 DEF SpuriousWake, vars, MutexHeld
<1> QED
  BY <1>1, <1>2, <1>3, <1>4, <1>5, <1>6, <1>7, <1>8, <1>9, <1>10 DEF Next, Push, LoggerStep

\* The guards of the steps of thread t, beginning to log aside.
CanGo(t) ==
  \/ /\ t \in Pushers
     /\ pc[t] \in {"read", "reread", "link", "signal"} \/ (pc[t] = "lock" /\ qMutex = Nobody)
  \/ /\ t = Logger
     /\ \/ pc[t] \in {"test", "wait", "unlock", "walk", "unlink", "write"}
        \/ pc[t] = "find" /\ ~queueEmpty
        \/ pc[t] \in {"start", "pop"} /\ qMutex = Nobody
        \/ pc[t] = "asleep" /\ ~asleep /\ qMutex = Nobody

\* The threads never wait for each other for good: they come to rest when all is logged and
\* the logger sleeps, as long as the mutex excludes on an empty list, or when the logger
\* has run over its buffer.
THEOREM NeverStuck ==
  Spec => [](\/ \E t \in Pushers \cup {Logger} : CanGo(t)
             \/ pc[Logger] \in {"overrun", "undefined"}
             \/ asleep /\ (\A p \in Pushers : pc[p] = "idle") /\ (excluded => queueEmpty))
<1> DEFINE P == \/ \E t \in Pushers \cup {Logger} : CanGo(t)
                \/ pc[Logger] \in {"overrun", "undefined"}
                \/ asleep /\ (\A p \in Pushers : pc[p] = "idle") /\ (excluded => queueEmpty)
<1>1. Init => MutexHeld
  BY Apart DEF Init, MutexHeld
<1>2. IInv /\ MutexHeld /\ [Next]_vars => MutexHeld'
  BY MutexHeldStep DEF IInv
<1>3. IInv /\ MutexHeld => P
  <2> SUFFICES ASSUME IInv, MutexHeld, \A t \in Pushers \cup {Logger} : ~CanGo(t),
                      pc[Logger] \notin {"overrun", "undefined"}
               PROVE  asleep /\ (\A p \in Pushers : pc[p] = "idle") /\ (excluded => queueEmpty)
    OBVIOUS
  <2>1. /\ \A p \in Pushers : pc[p] \in PusherPcs
        /\ pc[Logger] \in LoggerPcs /\ qMutex \in Pushers \cup {Logger, Nobody}
    BY DEF IInv, Typed
  <2>2. pc[Logger] = "find" => ~queueEmpty
    BY DEF IInv, Sound, Reached, queueEmpty
  <2>3. qMutex = Nobody
    <3>1. \A p \in Pushers : qMutex # p
      BY DEF MutexHeld, CanGo
    <3>2. qMutex # Logger
      BY <2>2 DEF MutexHeld, CanGo
    <3> QED
      BY <2>1, <3>1, <3>2
  <2>4. \A p \in Pushers : pc[p] = "idle"
    BY <2>1, <2>3 DEF CanGo, PusherPcs
  <2>5. asleep
    BY <2>1, <2>2, <2>3 DEF CanGo, LoggerPcs
  <2>6. excluded => queueEmpty
    BY <2>4, <2>5 DEF IInv, Ordered, queueEmpty
  <2> QED
    BY <2>4, <2>5, <2>6
<1> QED
  BY <1>1, <1>2, <1>3, Invariance, PTL DEF Spec

\* The list leads only to older messages, so that a walk ends, even beside a thread that
\* changes the list.
Acyclic ==
  \A i \in 1 .. Len(linked) :
    next[linked[i]] # NULL => \E j \in 1 .. i - 1 : next[linked[i]] = linked[j]

\* A step keeps it so: a message gets its pointer before it is linked itself.
LEMMA AcyclicStep ==
  ASSUME Typed, Sound, Acyclic, [Next]_vars
  PROVE  Acyclic'
<1> USE Apart
<1>t. /\ linked \in Seq(Messages) /\ Len(linked) \in Nat
      /\ DOMAIN linked = 1 .. Len(linked) /\ \A i \in 1 .. Len(linked) : linked[i] \in Messages
      /\ next \in [Messages -> Messages \cup {NULL}]
      /\ msg \in [Pushers -> Messages \cup {NULL}]
  BY DEF Typed
<1>1. ASSUME linked' = linked,
             \A m \in Range(linked) : next'[m] = next[m] \/ next'[m] = NULL
      PROVE  Acyclic'
  BY <1>t, <1>1 DEF Acyclic, Range
<1>2. ASSUME NEW p \in Pushers, ReadHead(p) PROVE Acyclic'
  <2>1. msg[p] \notin Range(linked)
    BY <1>2 DEF ReadHead, Sound, Carried, Carries
  <2>2. linked' = linked /\ (next' = next \/ next' = [next EXCEPT ![msg[p]] = pendingLogs])
    BY <1>2 DEF ReadHead, history
  <2>3. \A m \in Range(linked) : m \in Messages /\ m # msg[p]
    BY <1>t, <2>1 DEF Range
  <2> QED
    BY <1>1, <1>t, <2>2, <2>3
<1>3. ASSUME NEW p \in Pushers, Link(p) PROVE Acyclic'
  <2>0. PICK n, e : n = Len(linked) /\ e = msg[p]
    OBVIOUS
  <2>1. e \in Messages /\ next' = next /\ linked' = Append(linked, e)
    <3>1. msg[p] \in 1 .. logged /\ 1 .. logged \subseteq Messages
      BY <1>3 DEF Link, Sound, Carried, Carries, Typed, Messages
    <3> QED
      BY <1>3, <2>0, <3>1 DEF Link
  <2>2. /\ Len(linked') = n + 1 /\ linked'[n + 1] = e
        /\ \A i \in 1 .. n : linked'[i] = linked[i]
    BY <1>t, <2>0, <2>1, AppendFacts
  <2>3. next[e] # NULL => \E j \in 1 .. n : next[e] = linked[j]
    BY <1>t, <2>0, <2>1 DEF Sound, Reached, Range
  <2>4. ASSUME NEW i \in 1 .. n, next[linked[i]] # NULL
        PROVE  \E j \in 1 .. i - 1 : next[linked[i]] = linked[j] /\ linked'[j] = linked[j]
    <3>1. PICK j \in 1 .. i - 1 : next[linked[i]] = linked[j]
      BY <2>0, <2>4 DEF Acyclic
    <3>2. j \in 1 .. n
      BY <1>t, <2>0, <3>1
    <3> QED
      BY <2>2, <3>1, <3>2
  <2>5. ASSUME NEW i \in 1 .. n + 1, next'[linked'[i]] # NULL
        PROVE  \E j \in 1 .. i - 1 : next'[linked'[i]] = linked'[j]
    <3>1. CASE i = n + 1
      BY <1>t, <2>0, <2>1, <2>2, <2>3, <2>5, <3>1
    <3>2. CASE i # n + 1
      <4>1. i \in 1 .. n
        BY <1>t, <2>0, <3>2
      <4> QED
        BY <2>1, <2>2, <2>4, <2>5, <4>1
    <3> QED
      BY <3>1, <3>2
  <2> QED
    BY <2>2, <2>5 DEF Acyclic
<1>4. ASSUME Unlink PROVE Acyclic'
  <2>1. linked' = linked /\ (next' = next \/ next' = [next EXCEPT ![prevP] = NULL])
    BY <1>4 DEF Unlink, history
  <2>2. \A m \in Messages : next'[m] = next[m] \/ next'[m] = NULL
    BY <1>t, <2>1
  <2>3. Range(linked) \subseteq Messages
    BY <1>t DEF Range
  <2> QED
    BY <1>1, <2>1, <2>2, <2>3
<1>5. ASSUME UNCHANGED <<next, linked>> PROVE Acyclic'
  BY <1>5 DEF Acyclic
<1>6. ASSUME NEW p \in Pushers, Begin(p) \/ PushLock(p) \/ TestEmpty(p) \/ Signal(p)
      PROVE  UNCHANGED <<next, linked>>
  BY <1>6 DEF Begin, PushLock, TestEmpty, Signal, list, history
<1>7. ASSUME Start \/ Test \/ Wait \/ Wake \/ Unlock \/ PopLock \/ Find \/ Walk \/ Write
             \/ SpuriousWake \/ UNCHANGED vars
      PROVE  UNCHANGED <<next, linked>>
  BY <1>7 DEF Start, Test, Wait, Wake, Unlock, PopLock, Find, Walk, Write, SpuriousWake, vars,
              list, history
<1> QED
  BY <1>2, <1>3, <1>4, <1>5, <1>6, <1>7 DEF Next, Push, LoggerStep

\* What a thread that logs has left to do, and the logger up to where it takes a message
\* out or falls asleep.
PusherRank(p) ==
  CASE pc[p] = "lock" -> 5 [] pc[p] = "read" -> 4 [] pc[p] = "reread" -> 3
    [] pc[p] = "link" -> 2 [] pc[p] = "signal" -> 1 [] OTHER -> 0
LoggerRank ==
  CASE pc[Logger] = "write" -> 9 [] pc[Logger] = "start" -> 8
    [] pc[Logger] = "asleep" /\ ~asleep -> 8
    [] pc[Logger] = "test" -> 7 [] pc[Logger] \in {"unlock", "wait"} -> 6
    [] pc[Logger] = "pop" -> 5 [] pc[Logger] = "find" -> 4 [] pc[Logger] = "walk" -> 3
    [] pc[Logger] = "unlink" -> 2 [] OTHER -> 0
Older(m, k) == \E i, j \in 1 .. Len(linked) : i < j /\ linked[i] = m /\ linked[j] = k

\* A step brings one thread on with what it logs; or, with those where they are, the
\* logger takes out a message it has not taken out before, or comes nearer to that or to
\* its sleep, in a walk by one older message.
Descends ==
  \/ \E p \in Pushers : /\ PusherRank(p)' < PusherRank(p)
                        /\ \A q \in Pushers \ {p} : PusherRank(q)' = PusherRank(q)
  \/ /\ \A p \in Pushers : PusherRank(p)' = PusherRank(p)
     /\ \/ freed \subseteq freed' /\ freed' # freed
        \/ freed' = freed /\ LoggerRank' < LoggerRank
        \/ /\ freed' = freed /\ LoggerRank' = LoggerRank
           /\ linked' = linked /\ Older(currentP', currentP)

\* Every step does, but one that begins to log and a spurious wake-up.
LEMMA DescendsStep ==
  ASSUME Typed, Sound, Acyclic, Next
  PROVE  Descends \/ (\E p \in Pushers : Begin(p)) \/ SpuriousWake
<1> USE Apart DEF Goto
<1>t. /\ pc \in [Pushers \cup {Logger} -> PusherPcs \cup LoggerPcs]
      /\ \A p \in Pushers : Push(p) => \A q \in Pushers \ {p} : pc'[q] = pc[q]
      /\ LoggerStep => \A q \in Pushers : pc'[q] = pc[q]
  BY OthersStay DEF Typed
<1>1. ASSUME NEW p \in Pushers, Push(p), ~Begin(p) PROVE Descends
  <2>1. \A q \in Pushers \ {p} : PusherRank(q)' = PusherRank(q)
    BY <1>1, <1>t DEF PusherRank
  <2>2. \/ pc[p] = "lock" /\ pc'[p] = "read"
        \/ pc[p] = "read" /\ pc'[p] \in {"link", "reread"}
        \/ pc[p] = "reread" /\ pc'[p] \in {"link", "signal"}
        \/ pc[p] = "link" /\ pc'[p] = "signal"
        \/ pc[p] = "signal" /\ pc'[p] = "idle"
    BY <1>1, <1>t DEF Push, PushLock, TestEmpty, ReadHead, Link, Signal
  <2>3. PusherRank(p)' < PusherRank(p)
    BY <2>2 DEF PusherRank
  <2> QED
    BY <2>1, <2>3 DEF Descends
<1>2. ASSUME LoggerStep PROVE \A p \in Pushers : PusherRank(p)' = PusherRank(p)
  BY <1>2, <1>t DEF PusherRank
<1>3. ASSUME LoggerStep, freed' = freed, LoggerRank' < LoggerRank PROVE Descends
  BY <1>2, <1>3 DEF Descends
<1>4. CASE Start \/ Wake
  <2>1. freed' = freed /\ pc'[Logger] = "test"
        /\ (pc[Logger] = "start" \/ (pc[Logger] = "asleep" /\ ~asleep))
    BY <1>4, <1>t DEF Start, Wake, list
  <2> QED
    BY <1>3, <1>4, <2>1 DEF LoggerStep, LoggerRank
<1>5. CASE Test \/ Unlock \/ PopLock
  <2>1. /\ freed' = freed
        /\ \/ pc[Logger] = "test" /\ pc'[Logger] \in {"wait", "unlock"}
           \/ pc[Logger] = "unlock" /\ pc'[Logger] = "pop"
           \/ pc[Logger] = "pop" /\ pc'[Logger] = "find"
    BY <1>5, <1>t DEF Test, Unlock, PopLock, list
  <2> QED
    BY <1>3, <1>5, <2>1 DEF LoggerStep, LoggerRank
<1>6. CASE Wait
  <2>1. freed' = freed /\ pc[Logger] = "wait" /\ pc'[Logger] = "asleep" /\ asleep'
    BY <1>6, <1>t DEF Wait, list
  <2> QED
    BY <1>3, <1>6, <2>1 DEF LoggerStep, LoggerRank
<1>7. CASE Find
  <2>1. freed' = freed /\ pc[Logger] = "find" /\ pc'[Logger] = "walk"
    BY <1>7, <1>t DEF Find, list
  <2> QED
    BY <1>3, <1>7, <2>1 DEF LoggerStep, LoggerRank
<1>8. CASE Walk
  <2>1. pc[Logger] = "walk" /\ freed' = freed /\ linked' = linked /\ LoggerStep
        /\ currentP \in Range(linked)
    BY <1>8 DEF Walk, list, history, LoggerStep, Sound, Reached
  <2>2. CASE currentP \notin freed /\ next[currentP] # NULL
    <3>1. currentP' = next[currentP] /\ pc' = pc
      BY <1>8, <2>2 DEF Walk
    <3>2. PICK k \in 1 .. Len(linked) : linked[k] = currentP
      BY <2>1 DEF Range, Typed
    <3>3. PICK j \in 1 .. k - 1 : next[currentP] = linked[j]
      BY <2>2, <3>2 DEF Acyclic
    <3>4. j \in 1 .. Len(linked) /\ j < k
      BY <3>3 DEF Typed
    <3>5. Older(currentP', currentP)
      BY <3>1, <3>2, <3>3, <3>4 DEF Older
    <3>6. LoggerRank' = LoggerRank
      BY <2>1, <3>1 DEF LoggerRank
    <3> QED
      BY <1>2, <2>1, <3>5, <3>6 DEF Descends
  <2>3. CASE ~(currentP \notin freed /\ next[currentP] # NULL)
    <3>1. pc'[Logger] \in {"undefined", "overrun", "unlink"}
      BY <1>8, <1>t, <2>3 DEF Walk
    <3> QED
      BY <1>3, <2>1, <3>1 DEF LoggerRank
  <2> QED
    BY <2>2, <2>3
<1>9. CASE Unlink
  <2>1. freed' = freed \cup {currentP} /\ currentP \notin freed
    BY <1>9 DEF Unlink, FreeElement, Sound, TakenOnce
  <2> QED
    BY <1>2, <1>9, <2>1 DEF LoggerStep, Descends
<1>10. CASE Write
  <2>1. freed' = freed /\ pc[Logger] = "write" /\ pc'[Logger] = "test"
    BY <1>10, <1>t DEF Write, list
  <2> QED
    BY <1>3, <1>10, <2>1 DEF LoggerStep, LoggerRank
<1> QED
  BY <1>1, <1>4, <1>5, <1>6, <1>7, <1>8, <1>9, <1>10 DEF Next, LoggerStep

\* Nor does any thread spin, with or without exclusion: once nothing new is logged and
\* nothing wakes the logger by itself, each step leaves less to do.
THEOREM NeverSpins ==
  Spec => [][Descends \/ (\E p \in Pushers : Begin(p)) \/ SpuriousWake]_vars
<1>1. Init => Acyclic
  BY DEF Init, Acyclic
<1>2. IInv /\ Acyclic /\ [Next]_vars => Acyclic'
  BY AcyclicStep DEF IInv
<1>3. IInv /\ Acyclic /\ [Next]_vars =>
        [Descends \/ (\E p \in Pushers : Begin(p)) \/ SpuriousWake]_vars
  BY DescendsStep DEF IInv
<1> QED
  BY <1>1, <1>2, <1>3, Invariance, PTL DEF Spec

-----------------------------------------------------------------------------
(* Logging implements LogQueue *)

\* Link puts a message into the queue, Unlink takes one out, the lock of a pusher or the
\* end of a round of the logger may be where two meet, and every other step stutters.
LEMMA QueueStep ==
  ASSUME IInv, [Next]_vars
  PROVE  [Q!Next]_(Q!vars)
<1> USE DEF list, popping, history
<1>t. /\ Typed /\ Sound /\ Reached /\ Carried /\ TakenOnce
      /\ Out \in Seq(Messages) /\ Len(Out) \in Nat /\ excluded \in BOOLEAN
  BY OutTyped DEF IInv, Sound, Typed
<1>1. ASSUME NEW p \in Pushers, Link(p) PROVE Q!Put(msg[p]) /\ msg[p] \in Messages
  <2>1. msg[p] \notin Range(linked) /\ msg[p] \in Messages
    BY <1>1, <1>t, Apart DEF Link, Carries, Carried, Typed, Messages
  <2>2. linked' = Append(linked, msg[p]) /\ excluded' = excluded
    BY <1>1 DEF Link
  <2>3. ~Unlink
    <3>1. pc[p] = "link" /\ pc'[Logger] = pc[Logger]
      BY <1>1, OthersStay, Apart, <1>t DEF Push, Link
    <3>2. Unlink => pc[Logger] = "unlink" /\ pc'[Logger] = "write"
      BY <1>t DEF Unlink, Typed, Goto
    <3> QED
      BY <3>1, <3>2
  <2> QED
    BY <1>t, <2>1, <2>2, <2>3, OutGrows DEF Q!Put, Q!Range, Range
<1>2. CASE Unlink
  <2>1. Out' = Append(Out, currentP) /\ linked' = linked /\ excluded' = excluded
    BY <1>2, <1>t, OutGrows DEF Unlink
  <2>2. currentP \in Range(linked) \ Range(Out) /\ currentP \in Messages
    BY <1>2, <1>t DEF Unlink, TakenOnce, Reached, Typed, Range
  <2>3. excluded => currentP = linked[Len(Out) + 1]
    BY <1>2 DEF Unlink, IInv, Ordered, Unlinking
  <2> QED
    BY <2>1, <2>2, <2>3 DEF Q!Next, Q!Take, Q!Range, Range
<1>3. CASE ~Unlink /\ \A p \in Pushers : ~Link(p)
  <2>1. Out' = Out
    BY <1>3, <1>t, OutGrows
  <2>2. linked' = linked /\ excluded' \in {excluded, FALSE}
    <3>1. CASE \E p \in Pushers : Push(p)
      BY <1>3, <1>t, <3>1
         DEF Push, Begin, PushLock, TestEmpty, ReadHead, Signal, Enter
    <3>2. CASE LoggerStep
      BY <1>3, <1>t, <3>2
         DEF LoggerStep, Start, Test, Wait, Wake, Unlock, PopLock, Find, Walk, Write, Enter
    <3>3. CASE SpuriousWake \/ UNCHANGED vars
      BY <1>t, <3>3 DEF SpuriousWake, vars
    <3> QED
      BY <3>1, <3>2, <3>3 DEF Next
  <2> QED
    BY <2>1, <2>2 DEF Q!Next, Q!Meet, Q!vars
<1> QED
  BY <1>1, <1>2, <1>3 DEF Q!Next

\* logging.c keeps the promise of LogQueue for any number of threads and messages.
THEOREM Refinement == Spec => ImplementsLogQueue
<1>1. Init => Q!Init
  <2> SUFFICES ASSUME Init PROVE Q!Init
    OBVIOUS
  <2>1. Out = <<>>
    BY DEF Init, Out
  <2> QED
    BY <2>1 DEF Init, Q!Init
<1>2. IInv /\ [Next]_vars => [Q!Next]_(Q!vars)
  BY QueueStep
<1> QED
  BY <1>1, <1>2, Invariance, PTL DEF Spec, ImplementsLogQueue, Q!Spec
=============================================================================
