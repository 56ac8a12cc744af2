----------------------------- MODULE LoggerProofs -----------------------------
(***************************************************************************)
(* Safety of the asynchronous logger for any number of threads, consumers, *)
(* entries and rounds, and that it implements LogDelivery.                 *)
(***************************************************************************)
EXTENDS Logger, FiniteSetTheorems, SequenceTheorems, TLAPS

\* Threads that are inside QueueLog and have not pushed their entry yet.
Pushers == {t \in Caller : pc[t] = "push"}

\* Every call of QueueLog has pushed its entry or is about to.
CallsCounted ==
    /\ IsFiniteSet(Pushers)
    /\ calls = pushed + Cardinality(Pushers)

\* The entries of the two queues are numbered on from the last one popped.
QueuesHold ==
    /\ Len(front_queue) + Len(back_queue) = pushed - popped
    /\ \A i \in 1 .. Len(front_queue) : front_queue[i] = popped + i
    /\ \A i \in 1 .. Len(back_queue) : back_queue[i] = popped + Len(front_queue) + i

BeforeSwap == {"start", "loop", "run_wait", "swap"}

\* Only a draining worker has a front queue; logging and logging_thread say
\* whether there is a worker.
WorkerInv ==
    /\ pc[Worker] \in BeforeSwap \cup {"none", "drain", "relock", "done"}
    /\ pc[Worker] # "drain" => front_queue = <<>>
    /\ logging_thread <=> pc[Worker] # "none"
    /\ logging => pc[Worker] \notin {"none", "done"}

InFlush(t) == pc[t] \in {"flush1", "flush2"}

\* A thread waits for entries that exist, and Flush only while logging is on.
MarksInv ==
    /\ \A t \in Caller : mark[t] <= pushed
    /\ \A t \in Flushers : InFlush(t) /\ mark[t] > 0 => logging

\* What Flush waits for is in the front queue or gone, or the worker has its
\* swap still before it and has not counted a round since the first wait.
FlushInv ==
    \A t \in Flushers :
        InFlush(t) =>
            \/ popped + Len(front_queue) >= mark[t]
            \/ /\ pc[Worker] \in BeforeSwap
               /\ pc[t] = "flush2" => last_loop[t] = current_loop

\* Consumers were only given entries that were popped.
ReceivedInv ==
    /\ \A c \in Consumer : \A i \in 1 .. Len(received[c]) : received[c][i] <= popped
    /\ ConsumersSeeOrder

\* The inductive invariant.
IInv ==
    /\ TypeOK
    /\ CallsCounted
    /\ QueuesHold
    /\ WorkerInv
    /\ MarksInv
    /\ FlushInv
    /\ ClearWaitsForBacklog
    /\ ReceivedInv

-----------------------------------------------------------------------------
(* Initial states and the lemmas about the counts and the queues.          *)

\* The entries whose number Flush takes down exist.
LEMMA CoveredExists ==
    ASSUME IInv
    PROVE  Covered \in 0 .. pushed
  BY DEF IInv, TypeOK, QueuesHold, Covered

\* There is room for the entry of a thread that has begun QueueLog.
LEMMA RoomToPush ==
    ASSUME IInv, NEW t \in Caller, pc[t] = "push"
    PROVE  pushed + 1 <= calls
<1>1. t \in Pushers /\ IsFiniteSet(Pushers) /\ calls = pushed + Cardinality(Pushers)
  BY DEF Pushers, IInv, CallsCounted
<1>2. Cardinality(Pushers) \in Nat /\ Cardinality(Pushers) # 0
  BY <1>1, FS_CardinalityType, FS_EmptySet
<1> QED
  BY <1>1, <1>2 DEF IInv, TypeOK

\* An entry at the head of the front queue is the next one.
LEMMA FrontIsNext ==
    ASSUME IInv, front_queue # <<>>
    PROVE  /\ Front = popped + 1
           /\ popped < pushed
           /\ Len(front_queue) \in Nat \ {0}
<1>1. front_queue \in Seq(1 .. MaxLogs) /\ back_queue \in Seq(1 .. MaxLogs)
  BY DEF IInv, TypeOK
<1>2. Len(front_queue) \in Nat \ {0} /\ Len(back_queue) \in Nat
  BY <1>1, EmptySeq, LenProperties
<1>3. Front = front_queue[1]
  BY <1>1 DEF Front
<1> QED
  BY <1>2, <1>3 DEF IInv, TypeOK, QueuesHold

\* The invariant holds initially.
LEMMA InitIInv == Init => IInv
<1> SUFFICES ASSUME Init PROVE IInv
  OBVIOUS
<1> USE LoggerAssumption DEF Init, QueueInit
<1>1. front_queue = <<>> /\ back_queue = <<>> /\ Len(<<>>) = 0
  OBVIOUS
<1>2. TypeOK
  <2>1. {logging, logging_thread, work, filter} \subseteq BOOLEAN
    OBVIOUS
  <2>2. /\ <<>> \in Seq(1 .. MaxLogs)
        /\ received \in [Consumer -> Seq(1 .. MaxLogs)]
    OBVIOUS
  <2> QED
    BY <1>1, <2>1, <2>2 DEF TypeOK
<1>3. CallsCounted
  <2>1. Pushers = {}
    BY DEF Pushers, Caller, Thread
  <2> QED
    BY <2>1, FS_EmptySet DEF CallsCounted
<1>4. QueuesHold
  BY <1>1 DEF QueuesHold
<1>5. WorkerInv
  BY <1>1 DEF WorkerInv, BeforeSwap, Thread
<1>6. MarksInv /\ FlushInv /\ ClearWaitsForBacklog
  BY DEF MarksInv, FlushInv, ClearWaitsForBacklog, InFlush, Thread, Caller
<1>7. ReceivedInv
  BY DEF ReceivedInv, ConsumersSeeOrder
<1> QED
  BY <1>2, <1>3, <1>4, <1>5, <1>6, <1>7 DEF IInv

-----------------------------------------------------------------------------
(* Every step preserves the invariant.                                     *)

\* Every variable keeps its type.
LEMMA NextTypeOK ==
    ASSUME IInv, [Next]_vars
    PROVE  TypeOK'
<1> USE LoggerAssumption DEF IInv, TypeOK, Caller, Thread, Goto, Lock,
        Unlock, Free, Holds, Sleep, NotifyAll, InWait,
        queueVars, resourceVars, configVars, syncVars, countVars
<1>1. CASE RunStart
  BY <1>1 DEF RunStart
<1>2. CASE RunLoop
  BY <1>2 DEF RunLoop
<1>3. CASE RunExit
  BY <1>3 DEF RunExit
<1>4. CASE RunSleep
  BY <1>4 DEF RunSleep
<1>5. CASE RunWork
  BY <1>5 DEF RunWork
<1>6. CASE RunSwap
  BY <1>6 DEF RunSwap, Swap
<1>7. CASE RunConsume
  <2>1. /\ Front \in 1 .. MaxLogs /\ popped + 1 \in 0 .. MaxLogs
        /\ Tail(front_queue) \in Seq(1 .. MaxLogs)
    <3>1. front_queue # <<>> /\ front_queue \in Seq(1 .. MaxLogs)
      BY <1>7 DEF RunConsume, Empty
    <3>2. Tail(front_queue) \in Seq(1 .. MaxLogs)
      BY ONLY <3>1, HeadTailProperties
    <3>3. Front = popped + 1 /\ popped < pushed
      BY <3>1, FrontIsNext
    <3>4. popped \in 0 .. MaxLogs /\ pushed \in 0 .. MaxLogs /\ MaxLogs \in Nat
      OBVIOUS
    <3>5. popped + 1 \in 1 .. MaxLogs
      BY ONLY <3>3, <3>4
    <3> QED
      BY <3>2, <3>3, <3>5
  <2>2. received' \in [Consumer -> Seq(1 .. MaxLogs)]
    <3>1. \A c \in Consumer : Append(received[c], Front) \in Seq(1 .. MaxLogs)
      BY <2>1
    <3> QED
      BY <1>7, <3>1 DEF RunConsume
  <2> QED
    BY <1>7, <2>1, <2>2 DEF RunConsume, Pop
<1>8. CASE RunDrained
  BY <1>8 DEF RunDrained
<1>9. CASE RunCount
  BY <1>9 DEF RunCount, NextLoop
<1>10. CASE Wake(Worker)
  BY <1>10 DEF Wake
<1>11. ASSUME NEW t \in Loggers, QueueLogPush(t) PROVE TypeOK'
  <2>1. pushed + 1 \in 1 .. MaxLogs
    BY <1>11, RoomToPush DEF QueueLogPush
  <2> QED
    BY <1>11, <2>1 DEF QueueLogPush, Push
<1>12. ASSUME NEW t \in Loggers, QueueLogWork(t) PROVE TypeOK'
  BY <1>12 DEF QueueLogWork
<1>13. ASSUME NEW t \in Loggers, QueueLogNotify(t) PROVE TypeOK'
  BY <1>13 DEF QueueLogNotify
<1>14. ASSUME NEW t \in Loggers, QueueLogStart(t) PROVE TypeOK'
  <2>1. {logging, logging_thread, work, filter}' \subseteq BOOLEAN
    BY <1>14 DEF QueueLogStart
  <2>2. calls' \in 0 .. MaxLogs
    BY <1>14 DEF QueueLogStart
  <2>3. CASE NoThread
    BY <1>14, <2>1, <2>2, <2>3 DEF QueueLogStart
  <2>4. CASE ~NoThread
    BY <1>14, <2>1, <2>2, <2>4 DEF QueueLogStart
  <2> QED
    BY <2>3, <2>4
<1>15. ASSUME NEW t \in Flushers, FlushFirst(t) PROVE TypeOK'
  BY <1>15 DEF FlushFirst
<1>16. ASSUME NEW t \in Flushers, FlushReturn(t) PROVE TypeOK'
  BY <1>16 DEF FlushReturn
<1>17. ASSUME NEW t \in Flushers, FlushSleep(t) PROVE TypeOK'
  BY <1>17 DEF FlushSleep
<1>18. ASSUME NEW t \in Flushers, FlushStart(t) PROVE TypeOK'
  <2>1. Covered \in 0 .. MaxLogs
    BY CoveredExists
  <2> QED
    BY <1>18, <2>1 DEF FlushStart
<1>19. ASSUME NEW t \in Clearers, ClearReady(t) PROVE TypeOK'
  BY <1>19 DEF ClearReady
<1>20. ASSUME NEW t \in Clearers, ClearSleep(t) PROVE TypeOK'
  BY <1>20 DEF ClearSleep
<1>21. ASSUME NEW t \in Clearers, ClearReturn(t) PROVE TypeOK'
  BY <1>21 DEF ClearReturn
<1>22. ASSUME NEW t \in Clearers, ClearStart(t) PROVE TypeOK'
  BY <1>22 DEF ClearStart
<1>23. ASSUME NEW t \in Killers, KillCheck(t) PROVE TypeOK'
  BY <1>23 DEF KillCheck
<1>24. ASSUME NEW t \in Killers, KillNotify(t) PROVE TypeOK'
  BY <1>24 DEF KillNotify
<1>25. ASSUME NEW t \in Killers, KillJoin(t) PROVE TypeOK'
  BY <1>25 DEF KillJoin
<1>26. ASSUME NEW t \in Killers, KillSet(t) PROVE TypeOK'
  <2>1. mark' \in [Caller -> 0 .. MaxLogs]
    BY <1>26 DEF KillSet
  <2>2. {logging, logging_thread, work, filter}' \subseteq BOOLEAN
    BY <1>26 DEF KillSet
  <2> QED
    BY <1>26, <2>1, <2>2 DEF KillSet
<1>27. ASSUME NEW t \in Caller, Wake(t) PROVE TypeOK'
  BY <1>27 DEF Wake
<1>28. ASSUME NEW t \in Configurers, SetFilter(t) PROVE TypeOK'
  BY <1>28 DEF SetFilter
<1>29. ASSUME NEW t \in Configurers, Reset(t) PROVE TypeOK'
  BY <1>29 DEF Reset
<1>30. ASSUME NEW t \in Thread, SpuriousWakeup(t) PROVE TypeOK'
  BY <1>30 DEF SpuriousWakeup
<1>31. ASSUME NEW t \in Configurers, NEW c \in Consumer, RegisterConsumer(t, c) PROVE TypeOK'
  BY <1>31 DEF RegisterConsumer
<1>32. CASE UNCHANGED vars
  BY <1>32 DEF vars
<1> QED
  BY <1>1, <1>2, <1>3, <1>4, <1>5, <1>6, <1>7, <1>8, <1>9, <1>10, <1>11,
     <1>12, <1>13, <1>14, <1>15, <1>16, <1>17, <1>18, <1>19, <1>20, <1>21,
     <1>22, <1>23, <1>24, <1>25, <1>26, <1>27, <1>28, <1>29, <1>30, <1>31,
     <1>32
     DEF Next, WorkerStep, CallStep, CallStart

\* Only three actions touch the queues, their counts and the consumers' logs.
LEMMA QueueFrame ==
    ASSUME [Next]_vars,
           ~\E t \in Loggers : QueueLogPush(t),
           ~RunSwap, ~RunConsume
    PROVE  UNCHANGED <<front_queue, back_queue, pushed, popped, received>>
<1> USE DEF queueVars, resourceVars, configVars, syncVars, countVars
<1>1. ASSUME WorkerStep
      PROVE  UNCHANGED <<front_queue, back_queue, pushed, popped, received>>
  BY <1>1 DEF WorkerStep, RunStart, RunLoop, RunExit, RunSleep, RunWork,
     RunDrained, RunCount, Wake
<1>2. ASSUME NEW t \in Caller, CallStep(t)
      PROVE  UNCHANGED <<front_queue, back_queue, pushed, popped, received>>
  BY <1>2 DEF CallStep, QueueLogWork, QueueLogNotify, FlushFirst, FlushReturn,
     FlushSleep, ClearReady, ClearSleep, ClearReturn, KillCheck, KillNotify,
     KillJoin, Wake
<1>3. ASSUME NEW t \in Caller, CallStart(t)
      PROVE  UNCHANGED <<front_queue, back_queue, pushed, popped, received>>
  BY <1>3 DEF CallStart, QueueLogStart, FlushStart, ClearStart, KillSet,
     RegisterConsumer, SetFilter, Reset
<1> QED
  BY <1>1, <1>2, <1>3 DEF Next, SpuriousWakeup, vars

\* The queues hold what was pushed and not popped.
LEMMA NextQueuesHold ==
    ASSUME IInv, [Next]_vars
    PROVE  QueuesHold'
<1>1. /\ front_queue \in Seq(1 .. MaxLogs) /\ back_queue \in Seq(1 .. MaxLogs)
      /\ Len(front_queue) \in Nat /\ Len(back_queue) \in Nat
      /\ pushed \in Nat /\ popped \in Nat
      /\ QueuesHold
  BY DEF IInv, TypeOK
<1>2. ASSUME NEW t \in Loggers, QueueLogPush(t) PROVE QueuesHold'
  <2>1. /\ pushed' = pushed + 1 /\ popped' = popped
        /\ front_queue' = front_queue
        /\ back_queue' = Append(back_queue, pushed + 1)
    BY <1>2 DEF QueueLogPush, Push
  <2>2. /\ Len(back_queue') = Len(back_queue) + 1
        /\ \A i \in 1 .. Len(back_queue) : back_queue'[i] = back_queue[i]
        /\ back_queue'[Len(back_queue) + 1] = pushed + 1
    BY <1>1, <2>1
  <2>3. \A i \in 1 .. Len(back_queue') : back_queue'[i] = popped + Len(front_queue) + i
    <3> TAKE i \in 1 .. Len(back_queue')
    <3>1. CASE i = Len(back_queue) + 1
      <4>1. popped + Len(front_queue) + (Len(back_queue) + 1) = pushed + 1
        <5>1. Len(front_queue) + Len(back_queue) = pushed - popped
          BY <1>1 DEF QueuesHold
        <5> QED
          BY <1>1, <5>1
      <4> QED
        BY <2>2, <3>1, <4>1
    <3>2. CASE i \in 1 .. Len(back_queue)
      BY <1>1, <2>2, <3>2 DEF QueuesHold
    <3> QED
      BY <1>1, <2>2, <3>1, <3>2
  <2> QED
    BY <1>1, <2>1, <2>2, <2>3 DEF QueuesHold
<1>3. CASE RunSwap
  <2>1. front_queue = <<>> /\ front_queue' = back_queue /\ back_queue' = <<>>
    BY <1>3 DEF RunSwap, Swap, Goto, IInv, WorkerInv
  <2>2. pushed' = pushed /\ popped' = popped
    BY <1>3 DEF RunSwap, countVars
  <2>3. Len(front_queue) = 0 /\ Len(back_queue') = 0
    BY <2>1
  <2> QED
    BY <1>1, <2>1, <2>2, <2>3 DEF QueuesHold
<1>4. CASE RunConsume
  <2>1. /\ front_queue # <<>> /\ front_queue' = Tail(front_queue)
        /\ back_queue' = back_queue /\ pushed' = pushed /\ popped' = popped + 1
    BY <1>4 DEF RunConsume, Empty, Pop
  <2>2. /\ Len(front_queue') = Len(front_queue) - 1
        /\ \A i \in 1 .. Len(front_queue') : front_queue'[i] = front_queue[i + 1]
    BY <1>1, <2>1, HeadTailProperties
  <2> QED
    BY <1>1, <2>1, <2>2 DEF QueuesHold
<1>5. CASE UNCHANGED <<front_queue, back_queue, pushed, popped, received>>
  BY <1>1, <1>5 DEF QueuesHold
<1> QED
  BY <1>2, <1>3, <1>4, <1>5, QueueFrame

\* Consumers see entries in order.
LEMMA NextReceivedInv ==
    ASSUME IInv, [Next]_vars
    PROVE  ReceivedInv'
<1>1. ReceivedInv /\ popped \in Nat /\ received \in [Consumer -> Seq(1 .. MaxLogs)]
  BY DEF IInv, TypeOK
<1>2. CASE popped' = popped /\ received' = received
  BY <1>1, <1>2 DEF ReceivedInv, ConsumersSeeOrder
<1>3. CASE RunConsume
  <2>1. Front = popped + 1 /\ popped' = popped + 1
    BY <1>3, FrontIsNext DEF RunConsume, Empty
  <2> SUFFICES ASSUME NEW c \in Consumer
               PROVE  /\ \A i \in 1 .. Len(received'[c]) : received'[c][i] <= popped + 1
                      /\ \A i, j \in 1 .. Len(received'[c]) :
                            i < j => received'[c][i] < received'[c][j]
    BY <2>1 DEF ReceivedInv, ConsumersSeeOrder
  <2>2. /\ received[c] \in Seq(1 .. MaxLogs) /\ Len(received[c]) \in Nat
        /\ \A i \in 1 .. Len(received[c]) : received[c][i] \in Int /\ received[c][i] <= popped
        /\ \A i, j \in 1 .. Len(received[c]) :
              i < j => received[c][i] < received[c][j]
    <3>1. received[c] \in Seq(1 .. MaxLogs)
      BY <1>1
    <3>2. /\ Len(received[c]) \in Nat
          /\ \A i \in 1 .. Len(received[c]) : received[c][i] \in 1 .. MaxLogs
      BY <3>1, ElementOfSeq, LenProperties
    <3> QED
      BY <1>1, <3>1, <3>2 DEF ReceivedInv, ConsumersSeeOrder
  <2>3. received'[c] = Append(received[c], popped + 1) \/ received'[c] = received[c]
    BY <1>1, <1>3, <2>1 DEF RunConsume
  <2>4. CASE received'[c] = Append(received[c], popped + 1)
    <3>1. /\ Len(received'[c]) = Len(received[c]) + 1
          /\ \A i \in 1 .. Len(received[c]) : received'[c][i] = received[c][i]
          /\ received'[c][Len(received[c]) + 1] = popped + 1
      BY <2>2, <2>4
    <3>2. \A i \in 1 .. Len(received'[c]) :
             \/ i \in 1 .. Len(received[c])
             \/ i = Len(received[c]) + 1
      BY <2>2, <3>1
    <3>3. \A i \in 1 .. Len(received[c]) :
             received'[c][i] \in Int /\ received'[c][i] <= popped
      BY <2>2, <3>1
    <3>4. \A i \in 1 .. Len(received'[c]) : received'[c][i] <= popped + 1
      BY <1>1, <3>1, <3>2, <3>3
    <3>5. ASSUME NEW i \in 1 .. Len(received'[c]), NEW j \in 1 .. Len(received'[c]), i < j
          PROVE  received'[c][i] < received'[c][j]
      <4>1. i \in 1 .. Len(received[c])
        BY <2>2, <3>1, <3>2, <3>5
      <4>2. CASE j \in 1 .. Len(received[c])
        BY <2>2, <3>1, <3>5, <4>1, <4>2
      <4>3. CASE j = Len(received[c]) + 1
        BY <1>1, <3>1, <3>3, <4>1, <4>3
      <4> QED
        BY <3>2, <4>2, <4>3
    <3> QED
      BY <3>4, <3>5
  <2>5. CASE received'[c] = received[c]
    BY <1>1, <2>2, <2>5
  <2> QED
    BY <2>3, <2>4, <2>5
<1>4. ASSUME NEW t \in Loggers, QueueLogPush(t) PROVE popped' = popped /\ received' = received
  BY <1>4 DEF QueueLogPush, configVars
<1>5. ASSUME RunSwap PROVE popped' = popped /\ received' = received
  BY <1>5 DEF RunSwap, configVars, countVars
<1> QED
  BY <1>2, <1>3, <1>4, <1>5, QueueFrame

\* Every call of QueueLog is counted.
LEMMA NextCallsCounted ==
    ASSUME IInv, [Next]_vars
    PROVE  CallsCounted'
<1>1. /\ CallsCounted /\ calls \in Nat /\ pushed \in Nat
      /\ IsFiniteSet(Pushers) /\ Cardinality(Pushers) \in Nat
  BY FS_CardinalityType DEF IInv, TypeOK, CallsCounted
<1>2. ASSUME NEW t \in Loggers, QueueLogStart(t) PROVE CallsCounted'
  <2>1. Pushers' = Pushers \cup {t} /\ t \notin Pushers
    BY <1>2, LoggerAssumption DEF QueueLogStart, Pushers, IInv, TypeOK, Caller, Thread
  <2>2. calls' = calls + 1 /\ pushed' = pushed
    BY <1>2 DEF QueueLogStart
  <2> QED
    BY <1>1, <2>1, <2>2, FS_AddElement DEF CallsCounted
<1>3. ASSUME NEW t \in Loggers, QueueLogPush(t) PROVE CallsCounted'
  <2>1. Pushers' = Pushers \ {t} /\ t \in Pushers
    BY <1>3, LoggerAssumption DEF QueueLogPush, Goto, Pushers, IInv, TypeOK, Caller, Thread
  <2>2. calls' = calls /\ pushed' = pushed + 1
    BY <1>3 DEF QueueLogPush
  <2> QED
    BY <1>1, <2>1, <2>2, FS_RemoveElement DEF CallsCounted
<1>4. CASE Pushers' = Pushers /\ UNCHANGED <<calls, pushed>>
  BY <1>1, <1>4 DEF CallsCounted
<1> USE LoggerAssumption DEF IInv, TypeOK, Pushers, Goto, Caller, Thread, countVars
<1>5. ASSUME WorkerStep PROVE Pushers' = Pushers /\ UNCHANGED <<calls, pushed>>
  BY <1>5 DEF WorkerStep, RunStart, RunLoop, RunExit, RunSleep, RunWork, RunSwap,
     RunConsume, RunDrained, RunCount, Wake
<1>6. ASSUME NEW t \in Caller, CallStep(t), ~(t \in Loggers /\ QueueLogPush(t))
      PROVE  Pushers' = Pushers /\ UNCHANGED <<calls, pushed>>
  BY <1>6 DEF CallStep, QueueLogWork, QueueLogNotify, FlushFirst, FlushReturn,
     FlushSleep, ClearReady, ClearSleep, ClearReturn, KillCheck, KillNotify,
     KillJoin, Wake
<1>7. ASSUME NEW t \in Caller, CallStart(t), ~(t \in Loggers /\ QueueLogStart(t))
      PROVE  Pushers' = Pushers /\ UNCHANGED <<calls, pushed>>
  BY <1>7 DEF CallStart, FlushStart, ClearStart, KillSet, RegisterConsumer,
     SetFilter, Reset
<1>8. ASSUME NEW t \in Thread, SpuriousWakeup(t)
      PROVE  Pushers' = Pushers /\ UNCHANGED <<calls, pushed>>
  BY <1>8 DEF SpuriousWakeup
<1>9. ASSUME UNCHANGED vars PROVE Pushers' = Pushers /\ UNCHANGED <<calls, pushed>>
  BY <1>9 DEF vars
<1> QED
  BY <1>2, <1>3, <1>4, <1>5, <1>6, <1>7, <1>8, <1>9 DEF Next

\* What the worker, Flush and ClearConsumers know of each other.
WaitsInv == WorkerInv /\ MarksInv /\ FlushInv /\ ClearWaitsForBacklog

LEMMA NextWaitsInv ==
    ASSUME IInv, [Next]_vars
    PROVE  WaitsInv'
<1> USE LoggerAssumption DEF IInv, TypeOK, Caller, Thread, Goto, Lock,
        Unlock, Free, Holds, Sleep, NotifyAll, InWait,
        queueVars, resourceVars, configVars, syncVars, countVars,
        WaitsInv, WorkerInv, MarksInv, FlushInv, ClearWaitsForBacklog, InFlush,
        BeforeSwap, QueuesHold
<1>1. CASE RunStart
  BY <1>1 DEF RunStart
<1>2. CASE RunLoop
  BY <1>2 DEF RunLoop
<1>3. CASE RunExit
  BY <1>3 DEF RunExit
<1>4. CASE RunSleep
  BY <1>4 DEF RunSleep
<1>5. CASE RunWork
  BY <1>5 DEF RunWork
<1>6. CASE RunSwap
  BY <1>6 DEF RunSwap, Swap
<1>7. CASE RunConsume
  BY <1>7 DEF RunConsume, Pop, Empty
<1>8. CASE RunDrained
  BY <1>8 DEF RunDrained, Empty
<1>9. CASE RunCount
  BY <1>9 DEF RunCount, NextLoop
<1>10. CASE Wake(Worker)
  BY <1>10 DEF Wake
<1>11. ASSUME NEW t \in Loggers, QueueLogPush(t) PROVE WaitsInv'
  BY <1>11 DEF QueueLogPush, Push
<1>12. ASSUME NEW t \in Loggers, QueueLogWork(t) PROVE WaitsInv'
  BY <1>12 DEF QueueLogWork
<1>13. ASSUME NEW t \in Loggers, QueueLogNotify(t) PROVE WaitsInv'
  BY <1>13 DEF QueueLogNotify
<1>14. ASSUME NEW t \in Loggers, QueueLogStart(t) PROVE WaitsInv'
  <2>1. CASE NoThread
    <3>1. pc' = [pc EXCEPT ![t] = "push", ![Worker] = "start"]
      BY <1>14, <2>1 DEF QueueLogStart
    <3>2. /\ logging' /\ logging_thread'
          /\ UNCHANGED <<queueVars, current_loop, last_loop, pushed, popped, mark>>
      BY <1>14, <2>1 DEF QueueLogStart
    <3>3. WorkerInv'
      BY <1>14, <2>1, <3>1, <3>2 DEF NoThread
    <3>4. MarksInv'
      BY <1>14, <3>1, <3>2
    <3>5. FlushInv'
      BY <1>14, <2>1, <3>1, <3>2 DEF NoThread
    <3>6. ClearWaitsForBacklog'
      BY <1>14, <3>1, <3>2
    <3> QED
      BY <3>3, <3>4, <3>5, <3>6
  <2>2. CASE ~NoThread
    BY <1>14, <2>2 DEF QueueLogStart
  <2> QED
    BY <2>1, <2>2
<1>15. ASSUME NEW t \in Flushers, FlushFirst(t) PROVE WaitsInv'
  BY <1>15 DEF FlushFirst
<1>16. ASSUME NEW t \in Flushers, FlushReturn(t) PROVE WaitsInv'
  BY <1>16 DEF FlushReturn
<1>17. ASSUME NEW t \in Flushers, FlushSleep(t) PROVE WaitsInv'
  BY <1>17 DEF FlushSleep
<1>18. ASSUME NEW t \in Flushers, FlushStart(t) PROVE WaitsInv'
  <2>1. Covered \in 0 .. pushed
    BY CoveredExists
  <2>2. /\ pc' = [pc EXCEPT ![t] = "flush1"] /\ mark' = [mark EXCEPT ![t] = Covered]
        /\ UNCHANGED <<queueVars, logging, logging_thread, current_loop, pushed, popped>>
    BY <1>18 DEF FlushStart
  <2>3. WorkerInv' /\ ClearWaitsForBacklog'
    BY <2>2
  <2>4. MarksInv'
    BY <2>1, <2>2 DEF Covered
  <2>5. FlushInv'
    BY <1>18, <2>1, <2>2 DEF FlushStart, Covered
  <2> QED
    BY <2>3, <2>4, <2>5
<1>19. ASSUME NEW t \in Clearers, ClearReady(t) PROVE WaitsInv'
  BY <1>19 DEF ClearReady, Empty, BothEmpty
<1>20. ASSUME NEW t \in Clearers, ClearSleep(t) PROVE WaitsInv'
  BY <1>20 DEF ClearSleep
<1>21. ASSUME NEW t \in Clearers, ClearReturn(t) PROVE WaitsInv'
  BY <1>21 DEF ClearReturn
<1>22. ASSUME NEW t \in Clearers, ClearStart(t) PROVE WaitsInv'
  BY <1>22 DEF ClearStart
<1>23. ASSUME NEW t \in Killers, KillCheck(t) PROVE WaitsInv'
  BY <1>23 DEF KillCheck
<1>24. ASSUME NEW t \in Killers, KillNotify(t) PROVE WaitsInv'
  BY <1>24 DEF KillNotify
<1>25. ASSUME NEW t \in Killers, KillJoin(t) PROVE WaitsInv'
  BY <1>25 DEF KillJoin
<1>26. ASSUME NEW t \in Killers, KillSet(t) PROVE WaitsInv'
  BY <1>26 DEF KillSet
<1>27. ASSUME NEW t \in Caller, Wake(t) PROVE WaitsInv'
  BY <1>27 DEF Wake
<1>28. ASSUME NEW t \in Configurers, SetFilter(t) PROVE WaitsInv'
  BY <1>28 DEF SetFilter
<1>29. ASSUME NEW t \in Configurers, Reset(t) PROVE WaitsInv'
  BY <1>29 DEF Reset
<1>30. ASSUME NEW t \in Thread, SpuriousWakeup(t) PROVE WaitsInv'
  BY <1>30 DEF SpuriousWakeup
<1>31. ASSUME NEW t \in Configurers, NEW c \in Consumer, RegisterConsumer(t, c) PROVE WaitsInv'
  BY <1>31 DEF RegisterConsumer
<1>32. CASE UNCHANGED vars
  BY <1>32 DEF vars
<1> QED
  BY <1>1, <1>2, <1>3, <1>4, <1>5, <1>6, <1>7, <1>8, <1>9, <1>10, <1>11,
     <1>12, <1>13, <1>14, <1>15, <1>16, <1>17, <1>18, <1>19, <1>20, <1>21,
     <1>22, <1>23, <1>24, <1>25, <1>26, <1>27, <1>28, <1>29, <1>30, <1>31,
     <1>32
     DEF Next, WorkerStep, CallStep, CallStart

\* The inductive invariant holds in every reachable state.
THEOREM Invariance == Spec => []IInv
<1>1. Init => IInv
  BY InitIInv
<1>2. IInv /\ [Next]_vars => IInv'
  BY NextTypeOK, NextCallsCounted, NextQueuesHold, NextWaitsInv, NextReceivedInv
     DEF IInv, WaitsInv
<1> QED
  BY <1>1, <1>2, PTL DEF Spec

-----------------------------------------------------------------------------
(* What follows from it.                                                   *)

\* The logger's variables keep their types: no more entries are pushed than
\* QueueLog was called, whatever threads are between the two.
THEOREM LoggerTypes == Spec => []TypeOK
<1>1. IInv => TypeOK
  BY DEF IInv
<1> QED
  BY <1>1, Invariance, PTL

\* Push, Swap and Pop of double_buffered_queue.h, called as run and QueueLog
\* call them, neither lose nor repeat nor reorder an entry.
THEOREM LoggerLosesNothing == Spec => []NothingLost
<1>1. IInv => NothingLost
  <2> SUFFICES ASSUME IInv PROVE NothingLost
    OBVIOUS
  <2> DEFINE queue == front_queue \o back_queue
             numbers == [i \in 1 .. pushed - popped |-> popped + i]
  <2>1. /\ front_queue \in Seq(Int) /\ back_queue \in Seq(Int)
        /\ Len(front_queue) \in Nat /\ Len(back_queue) \in Nat
        /\ pushed \in Nat /\ popped \in Nat
    <3>1. 1 .. MaxLogs \subseteq Int
      OBVIOUS
    <3> QED
      <4>1. /\ front_queue \in Seq(1 .. MaxLogs) /\ back_queue \in Seq(1 .. MaxLogs)
            /\ pushed \in Nat /\ popped \in Nat
        BY DEF IInv, TypeOK
      <4>2. front_queue \in Seq(Int) /\ back_queue \in Seq(Int)
        BY <3>1, <4>1, SeqMonotonic
      <4> QED
        BY <4>1, <4>2, LenProperties
  <2>2. /\ queue \in Seq(Int) /\ Len(queue) = Len(front_queue) + Len(back_queue)
        /\ \A i \in 1 .. Len(front_queue) + Len(back_queue) :
              queue[i] = IF i <= Len(front_queue) THEN front_queue[i]
                         ELSE back_queue[i - Len(front_queue)]
    BY <2>1, ConcatProperties
  <2>3. Len(queue) = pushed - popped /\ pushed - popped \in Nat
    BY <2>1, <2>2 DEF IInv, QueuesHold
  <2>4. \A i \in 1 .. Len(queue) : queue[i] = numbers[i]
    BY <2>1, <2>2, <2>3 DEF IInv, QueuesHold
  <2>5. numbers \in Seq(Int) /\ Len(numbers) = pushed - popped
    BY <2>1, <2>3
  <2>6. queue = numbers
    BY <2>2, <2>3, <2>4, <2>5, SeqEqual
  <2> QED
    BY <2>6 DEF NothingLost
<1> QED
  BY <1>1, Invariance, PTL

\* Consumers are given entries in the order in which they were logged.
THEOREM ConsumersGetOrder == Spec => []ConsumersSeeOrder
<1>1. IInv => ConsumersSeeOrder
  BY DEF IInv, ReceivedInv
<1> QED
  BY <1>1, Invariance, PTL

\* ClearConsumers drops the consumers after the backlog was offered to them.
THEOREM ClearWaits == Spec => []ClearWaitsForBacklog
<1>1. IInv => ClearWaitsForBacklog
  BY DEF IInv
<1> QED
  BY <1>1, Invariance, PTL

\* Flush returns only when what it was to wait for has been consumed: a second
\* round counted since its first wait, or both queues empty, or logging off.
THEOREM FlushIsSound == Spec => []FlushDelivers
<1>1. IInv => FlushDelivers
  <2> SUFFICES ASSUME IInv, NEW t \in Flushers, pc[t] = "flush2", FlushReady(t)
               PROVE  popped >= mark[t]
    BY DEF FlushDelivers
  <2>1. /\ popped \in Nat /\ pushed \in Nat /\ mark[t] \in Nat /\ mark[t] <= pushed
        /\ Len(front_queue) + Len(back_queue) = pushed - popped
    BY DEF IInv, TypeOK, MarksInv, QueuesHold, Caller
  <2>2. CASE ~logging
    BY <2>1, <2>2 DEF IInv, MarksInv, InFlush
  <2>3. CASE BothEmpty
    <3>1. Len(front_queue) = 0 /\ Len(back_queue) = 0
      BY <2>3 DEF BothEmpty, Empty
    <3> QED
      BY <2>1, <3>1
  <2>4. CASE Empty /\ last_loop[t] # current_loop
    <3>1. Len(front_queue) = 0
      BY <2>4 DEF Empty
    <3>2. popped + Len(front_queue) >= mark[t]
      BY <2>4 DEF IInv, FlushInv, InFlush
    <3> QED
      BY <2>1, <3>1, <3>2
  <2> QED
    BY <2>2, <2>3, <2>4 DEF FlushReady
<1> QED
  BY <1>1, Invariance, PTL

-----------------------------------------------------------------------------
(* The logger implements LogDelivery.                                      *)

\* Two queues read as one row, which grows behind the back queue and loses the head of
\* the front queue.
LEMMA RowOfQueues ==
    ASSUME NEW S, NEW f \in Seq(S), NEW b \in Seq(S)
    PROVE  /\ \A x \in S : f \o Append(b, x) = Append(f \o b, x)
           /\ <<>> \o b = b /\ b \o <<>> = b
           /\ f # <<>> => /\ f \o b # <<>> /\ Head(f \o b) = Head(f)
                          /\ Tail(f \o b) = Tail(f) \o b
<1>1. <<>> \o b = b /\ b \o <<>> = b BY ConcatEmptySeq
<1>2. /\ f \o b \in Seq(S) /\ Len(f \o b) = Len(f) + Len(b)
      /\ \A i \in 1 .. Len(f) + Len(b) : (f \o b)[i] = IF i <= Len(f) THEN f[i] ELSE b[i - Len(f)]
  BY ConcatProperties
<1>3. Len(f) \in Nat /\ Len(b) \in Nat BY LenProperties
<1>4. ASSUME NEW x \in S PROVE f \o Append(b, x) = Append(f \o b, x)
  <2> DEFINE c == Append(b, x)
             g == f \o b
  <2>1. /\ c \in Seq(S) /\ Len(c) = Len(b) + 1
        /\ \A i \in 1 .. Len(b) : c[i] = b[i]
        /\ c[Len(b) + 1] = x
    BY <1>3
  <2>2. /\ Append(g, x) \in Seq(S) /\ Len(Append(g, x)) = Len(g) + 1
        /\ \A i \in 1 .. Len(g) : Append(g, x)[i] = g[i]
        /\ Append(g, x)[Len(g) + 1] = x
    <3>1. g \in Seq(S) /\ Len(g) \in Nat BY <1>2, <1>3
    <3> HIDE DEF g
    <3> QED BY <3>1
  <2> HIDE DEF c, g
  <2>3. /\ f \o c \in Seq(S) /\ Len(f \o c) = Len(f) + Len(c)
        /\ \A i \in 1 .. Len(f) + Len(c) : (f \o c)[i] = IF i <= Len(f) THEN f[i] ELSE c[i - Len(f)]
    BY <2>1, ConcatProperties
  <2>4. Len(f \o c) = Len(f) + Len(b) + 1 /\ Len(Append(g, x)) = Len(f) + Len(b) + 1
    BY <1>2, <1>3, <2>1, <2>2, <2>3 DEF g
  <2>5. ASSUME NEW i \in 1 .. Len(f) + Len(b) + 1 PROVE (f \o c)[i] = Append(g, x)[i]
    <3>1. i \in 1 .. Len(f) + Len(c) BY <1>3, <2>1
    <3>2. CASE i = Len(f) + Len(b) + 1
      <4>1. ~(i <= Len(f)) /\ i - Len(f) = Len(b) + 1 BY <1>3, <3>2
      <4> QED BY <1>2, <2>1, <2>2, <2>3, <3>1, <3>2, <4>1 DEF g
    <3>3. CASE i # Len(f) + Len(b) + 1
      <4>1. i \in 1 .. Len(f) + Len(b) BY <1>3, <3>3
      <4>2. Append(g, x)[i] = IF i <= Len(f) THEN f[i] ELSE b[i - Len(f)] BY <1>2, <2>2, <4>1 DEF g
      <4>3. ~(i <= Len(f)) => i - Len(f) \in 1 .. Len(b) BY <1>3, <4>1
      <4> QED BY <2>1, <2>3, <3>1, <4>2, <4>3
    <3> QED BY <3>2, <3>3
  <2> QED BY <2>2, <2>3, <2>4, <2>5, SeqEqual DEF c, g
<1>5. ASSUME f # <<>>
      PROVE  f \o b # <<>> /\ Head(f \o b) = Head(f) /\ Tail(f \o b) = Tail(f) \o b
  <2>1. Len(f) >= 1 BY <1>3, <1>5, EmptySeq
  <2>2. f \o b # <<>> BY <1>5, ConcatEqualIffEmpty
  <2>3. Head(f \o b) = Head(f)
    <3>1. (f \o b)[1] = f[1] BY <1>2, <1>3, <2>1
    <3>2. Head(f \o b) = (f \o b)[1] /\ Head(f) = f[1] BY <1>2, <1>5, <2>2
    <3> QED BY <3>1, <3>2
  <2> DEFINE g == f \o b
             u == Tail(f)
  <2>4. /\ u \in Seq(S) /\ Len(u) = Len(f) - 1
        /\ \A i \in 1 .. Len(u) : u[i] = f[i + 1]
    BY <1>5, HeadTailProperties
  <2>5. /\ Tail(g) \in Seq(S) /\ Len(Tail(g)) = Len(g) - 1
        /\ \A i \in 1 .. Len(Tail(g)) : Tail(g)[i] = g[i + 1]
    BY <1>2, <2>2, HeadTailProperties
  <2> HIDE DEF u, g
  <2>6. /\ u \o b \in Seq(S) /\ Len(u \o b) = Len(u) + Len(b)
        /\ \A i \in 1 .. Len(u) + Len(b) : (u \o b)[i] = IF i <= Len(u) THEN u[i] ELSE b[i - Len(u)]
    BY <2>4, ConcatProperties
  <2>7. Len(Tail(g)) = Len(f) + Len(b) - 1 /\ Len(u \o b) = Len(f) + Len(b) - 1
    BY <1>2, <1>3, <2>4, <2>5, <2>6 DEF g
  <2>8. ASSUME NEW i \in 1 .. Len(f) + Len(b) - 1 PROVE Tail(g)[i] = (u \o b)[i]
    <3>1. /\ i + 1 \in 1 .. Len(f) + Len(b) /\ i \in 1 .. Len(u) + Len(b)
          /\ i + 1 <= Len(f) <=> i <= Len(u)
          /\ i + 1 - Len(f) = i - Len(u)
      BY <1>3, <2>1, <2>4
    <3>2. Tail(g)[i] = IF i + 1 <= Len(f) THEN f[i + 1] ELSE b[i + 1 - Len(f)]
      BY <1>2, <2>5, <2>7, <3>1 DEF g
    <3>3. i <= Len(u) => u[i] = f[i + 1] BY <2>4
    <3> QED BY <2>6, <3>1, <3>2, <3>3
  <2>9. Tail(g) = u \o b BY <2>5, <2>6, <2>7, <2>8, SeqEqual
  <2> QED BY <2>2, <2>3, <2>9 DEF g, u
<1> QED BY <1>1, <1>4, <1>5

\* Consumers and filters change by four calls only.
LEMMA ConfigFrame ==
    ASSUME [Next]_vars,
           ~\E t \in Clearers : ClearReturn(t),
           ~\E t \in Configurers : SetFilter(t) \/ Reset(t) \/ \E c \in Consumer : RegisterConsumer(t, c)
    PROVE  UNCHANGED <<consumers, filter>>
<1> USE DEF queueVars, resourceVars, configVars, syncVars, countVars
<1>1. ASSUME WorkerStep PROVE UNCHANGED <<consumers, filter>>
  BY <1>1 DEF WorkerStep, RunStart, RunLoop, RunExit, RunSleep, RunWork, RunSwap,
     RunConsume, RunDrained, RunCount, Wake
<1>2. ASSUME NEW t \in Caller, CallStep(t) PROVE UNCHANGED <<consumers, filter>>
  BY <1>2 DEF CallStep, QueueLogPush, QueueLogWork, QueueLogNotify, FlushFirst, FlushReturn,
     FlushSleep, ClearReady, ClearSleep, KillCheck, KillNotify, KillJoin, Wake
<1>3. ASSUME NEW t \in Caller, CallStart(t) PROVE UNCHANGED <<consumers, filter>>
  BY <1>3 DEF CallStart, QueueLogStart, FlushStart, ClearStart, KillSet
<1> QED
  BY <1>1, <1>2, <1>3 DEF Next, SpuriousWakeup, vars

\* Every step is one of LogDelivery or changes nothing there: a swap finds the front
\* queue empty, so the row stays what it was.
LEMMA StepDelivers ==
    ASSUME IInv, [Next]_vars
    PROVE  [Delivery!Next]_(Delivery!vars)
<1>1. /\ front_queue \in Seq(1 .. MaxLogs) /\ back_queue \in Seq(1 .. MaxLogs)
      /\ pushed \in Nat /\ calls \in 0 .. MaxLogs /\ MaxLogs \in Nat
  BY LoggerAssumption DEF IInv, TypeOK
<1> USE DEF queueVars, resourceVars, configVars, syncVars, countVars
<1>2. ASSUME NEW t \in Loggers, QueueLogPush(t) PROVE Delivery!Log
  <2>1. pushed + 1 <= calls /\ pushed + 1 \in 1 .. MaxLogs
    <3>1. pushed + 1 <= calls BY <1>2, RoomToPush DEF QueueLogPush, Goto, Caller
    <3> QED BY <1>1, <3>1
  <2>2. /\ front_queue' = front_queue /\ back_queue' = Append(back_queue, pushed + 1)
        /\ pushed' = pushed + 1 /\ UNCHANGED <<consumers, filter, received>>
    BY <1>2 DEF QueueLogPush, Push
  <2>3. front_queue \o Append(back_queue, pushed + 1) = Append(front_queue \o back_queue, pushed + 1)
    BY <1>1, <2>1, RowOfQueues
  <2> QED BY <1>1, <2>1, <2>2, <2>3 DEF Delivery!Log
<1>3. ASSUME RunConsume PROVE Delivery!HandOn
  <2>1. /\ front_queue # <<>> /\ front_queue' = Tail(front_queue) /\ back_queue' = back_queue
        /\ UNCHANGED <<pushed, consumers, filter>>
        /\ received' = [c \in Consumer |-> IF ~filter /\ c \in consumers
                                           THEN Append(received[c], Head(front_queue))
                                           ELSE received[c]]
    BY <1>3 DEF RunConsume, Empty, Pop, Front, Preprocess
  <2>2. /\ front_queue \o back_queue # <<>>
        /\ Head(front_queue \o back_queue) = Head(front_queue)
        /\ Tail(front_queue \o back_queue) = Tail(front_queue) \o back_queue
    BY <1>1, <2>1, RowOfQueues
  <2> QED BY <2>1, <2>2 DEF Delivery!HandOn, Delivery!Given
<1>4. ASSUME RunSwap PROVE UNCHANGED <<front_queue \o back_queue, pushed, received>>
  <2>1. /\ front_queue = <<>> /\ front_queue' = back_queue /\ back_queue' = <<>>
        /\ UNCHANGED <<pushed, received>>
    BY <1>4 DEF RunSwap, Swap, Goto, IInv, WorkerInv
  <2> QED BY <1>1, <2>1, RowOfQueues
<1>5. ASSUME NEW t \in Clearers, ClearReturn(t) PROVE Delivery!Clear
  BY <1>5 DEF ClearReturn, Delivery!Clear
<1>6. ASSUME NEW t \in Configurers, SetFilter(t) PROVE Delivery!SetFilter
  BY <1>6 DEF SetFilter, Delivery!SetFilter
<1>7. ASSUME NEW t \in Configurers, Reset(t) PROVE Delivery!Reset
  BY <1>7 DEF Reset, Delivery!Reset
<1>8. ASSUME NEW t \in Configurers, NEW c \in Consumer, RegisterConsumer(t, c) PROVE Delivery!Register(c)
  BY <1>8 DEF RegisterConsumer, Delivery!Register
<1>9. ASSUME UNCHANGED <<front_queue \o back_queue, pushed, received>>, UNCHANGED <<consumers, filter>>
      PROVE  UNCHANGED Delivery!vars
  BY <1>9 DEF Delivery!vars
<1>10. ASSUME UNCHANGED <<front_queue, back_queue, pushed, popped, received>>
       PROVE  UNCHANGED <<front_queue \o back_queue, pushed, received>>
  BY <1>10
<1>11. ASSUME RunSwap PROVE UNCHANGED <<consumers, filter>>
  BY <1>11 DEF RunSwap
<1> QED
  BY <1>2, <1>3, <1>4, <1>5, <1>6, <1>7, <1>8, <1>9, <1>10, <1>11, QueueFrame, ConfigFrame
     DEF Delivery!Next

\* The logger implements LogDelivery: two queues, swaps and rounds hand on one row of
\* entries, each once, in order, to the consumers and under the filters of its turn.
THEOREM LoggerImplementsDelivery == Spec => ImplementsDelivery
<1>1. Init => Delivery!Init
  <2> SUFFICES ASSUME Init PROVE Delivery!Init OBVIOUS
  <2>1. front_queue \o back_queue = <<>>
    <3>1. <<>> \in Seq({}) OBVIOUS
    <3>2. <<>> \o <<>> = <<>> BY <3>1, RowOfQueues
    <3> QED BY <3>2 DEF Init, QueueInit
  <2> QED BY <2>1 DEF Init, Delivery!Init
<1>2. IInv /\ [Next]_vars => [Delivery!Next]_(Delivery!vars) BY StepDelivers
<1> QED BY <1>1, <1>2, Invariance, PTL DEF Spec, ImplementsDelivery, Delivery!Spec
=============================================================================
