------------------------------- MODULE Logger -------------------------------
(***************************************************************************)
(* The asynchronous logger, core/log/logger.cc.  Threads of the program    *)
(* call QueueLog, Flush, ClearConsumers, RegisterConsumer, Reset, the      *)
(* filter setters and KillThread; the thread that executes Logger::run     *)
(* hands the entries to the consumers.                                     *)
(*                                                                         *)
(* cv_mtx is explicit where a thread keeps it over several steps; a scope  *)
(* that only assigns a few fields under it is one step that needs the      *)
(* mutex free.  config_mtx protects scopes of one step only.  A thread     *)
(* inside condition_variable::wait is in "waiting" until a notification or *)
(* a spurious wake-up; then it takes the mutex and tests its predicate.    *)
(* Entries are numbered in the order in which they are pushed.  Filters    *)
(* either let all entries pass or none; the text of an entry, its kind and *)
(* the flags that only change the text are left out.                       *)
(***************************************************************************)
EXTENDS Integers, DoubleBufferedQueue

CONSTANTS
    Loggers,     \* threads that log
    Flushers,    \* threads that call Flush
    Clearers,    \* threads that call ClearConsumers
    Killers,     \* threads that call KillThread (at most one)
    Configurers, \* threads that register consumers, set filters and reset
    Consumer,    \* log consumers
    Default,     \* the one Resources and Reset install
    Worker,      \* the logging thread
    NULL,        \* "no thread"
    MaxLogs,     \* bound on the number of calls of QueueLog
    MaxLoop      \* value after which current_loop restarts, 10000 in the code

Caller == Loggers \cup Flushers \cup Clearers \cup Killers \cup Configurers
Thread == Caller \cup {Worker}

ASSUME LoggerAssumption ==
    /\ Worker \notin Caller
    /\ NULL \notin Thread
    /\ Default \in Consumer
    /\ \A k, l \in Killers : k = l
    /\ MaxLogs \in Nat
    /\ MaxLoop \in Nat

VARIABLES
    logging, logging_thread, work, current_loop, \* fields of Resources
    consumers,     \* the registered consumers
    filter,        \* a filter that no entry passes is set
    cv_mtx,        \* the thread that holds cv_mtx, NULL if it is free
    waiting,       \* threads blocked in cv.wait
    pc,            \* where each thread is
    last_loop,     \* the local variable of Flush
    calls,         \* calls of QueueLog so far
    pushed,        \* entries pushed so far
    popped,        \* entries popped so far
    received,      \* what each consumer was given
    mark           \* entries a Flush or ClearConsumers in progress waits for

resourceVars == <<logging, logging_thread, work, current_loop>>
configVars   == <<consumers, filter, received>>
syncVars     == <<cv_mtx, waiting>>
countVars    == <<calls, pushed, popped>>
vars == <<front_queue, back_queue, logging, logging_thread, work, current_loop,
          consumers, filter, received, cv_mtx, waiting, pc, last_loop, calls,
          pushed, popped, mark>>

Init ==
    /\ QueueInit
    /\ logging = FALSE
    /\ logging_thread = FALSE
    /\ work = FALSE
    /\ current_loop = 0
    /\ consumers = {Default}
    /\ filter = FALSE
    /\ received = [c \in Consumer |-> <<>>]
    /\ cv_mtx = NULL
    /\ waiting = {}
    /\ pc = [t \in Thread |-> IF t = Worker THEN "none" ELSE "idle"]
    /\ last_loop = [t \in Flushers |-> -1]
    /\ calls = 0
    /\ pushed = 0
    /\ popped = 0
    /\ mark = [t \in Caller |-> 0]

Goto(t, from, to) ==
    /\ pc[t] = from
    /\ pc' = [pc EXCEPT ![t] = to]

-----------------------------------------------------------------------------
(* The mutex and the condition variable.                                   *)

Free == cv_mtx = NULL
Holds(t) == cv_mtx = t
Lock(t) == Free /\ cv_mtx' = t
Unlock(t) == cv_mtx' = NULL

NotifyAll == waiting' = {}

\* The predicate is false: wait releases the mutex and blocks.
Sleep(t) ==
    /\ Unlock(t)
    /\ waiting' = waiting \cup {t}

InWait(t) == pc[t] \in {"flush1", "flush2", "clear_wait", "run_wait"}

\* A thread that was woken takes the mutex again.
Wake(t) ==
    /\ InWait(t)
    /\ ~Holds(t)
    /\ t \notin waiting
    /\ Lock(t)
    /\ UNCHANGED <<queueVars, resourceVars, configVars, waiting, pc, last_loop,
                   countVars, mark>>

SpuriousWakeup(t) ==
    /\ t \in waiting
    /\ waiting' = waiting \ {t}
    /\ UNCHANGED <<queueVars, resourceVars, configVars, cv_mtx, pc, last_loop,
                   countVars, mark>>

-----------------------------------------------------------------------------
(* Logger::QueueLog                                                        *)

NoThread == ~logging /\ ~logging_thread

\* The thread is started unless there is one.
QueueLogStart(t) ==
    /\ calls < MaxLogs
    /\ Free
    /\ pc[t] = "idle"
    /\ calls' = calls + 1
    /\ IF NoThread
         THEN /\ logging' = TRUE
              /\ logging_thread' = TRUE
              /\ pc' = [pc EXCEPT ![t] = "push", ![Worker] = "start"]
         ELSE /\ pc' = [pc EXCEPT ![t] = "push"]
              /\ UNCHANGED <<logging, logging_thread>>
    /\ UNCHANGED <<queueVars, work, current_loop, configVars, syncVars, last_loop,
                   pushed, popped, mark>>

QueueLogPush(t) ==
    /\ Goto(t, "push", "work")
    /\ Push(pushed + 1)
    /\ pushed' = pushed + 1
    /\ UNCHANGED <<resourceVars, configVars, syncVars, last_loop, calls, popped, mark>>

QueueLogWork(t) ==
    /\ Free
    /\ Goto(t, "work", "notify")
    /\ work' = TRUE
    /\ UNCHANGED <<queueVars, logging, logging_thread, current_loop, configVars,
                   syncVars, last_loop, countVars, mark>>

\* Slip: nobody is notified.
QueueLogNotifyNobody(t) ==
    /\ Goto(t, "notify", "idle")
    /\ UNCHANGED <<queueVars, resourceVars, configVars, syncVars, last_loop, countVars, mark>>

QueueLogNotify(t) ==
    /\ Goto(t, "notify", "idle")
    /\ NotifyAll
    /\ UNCHANGED <<queueVars, resourceVars, configVars, cv_mtx, last_loop, countVars, mark>>

-----------------------------------------------------------------------------
(* Logger::Flush                                                           *)

\* What the first wait of a Flush that starts now is sure to see consumed:
\* while the worker drains the front queue, or has drained it and not yet
\* counted the round, entries of the back queue are left to the next round.
Covered ==
    IF ~logging THEN 0
    ELSE IF pc[Worker] \in {"drain", "relock"} THEN popped + Len(front_queue)
    ELSE pushed

FlushStart(t) ==
    /\ pc[t] = "idle"
    /\ ~NoThread
    /\ Lock(t)
    /\ pc' = [pc EXCEPT ![t] = "flush1"]
    /\ last_loop' = [last_loop EXCEPT ![t] = -1]
    /\ mark' = [mark EXCEPT ![t] = Covered]
    /\ UNCHANGED <<queueVars, resourceVars, configVars, waiting, countVars>>

FlushReady(t) ==
    ~logging \/ (Empty /\ (last_loop[t] # current_loop \/ BothEmpty))

\* Slip: the round is not remembered, so the second wait sees nothing new.
FlushFirstForgets(t) ==
    /\ Holds(t)
    /\ FlushReady(t)
    /\ Goto(t, "flush1", "flush2")
    /\ UNCHANGED <<queueVars, resourceVars, configVars, syncVars, last_loop, countVars, mark>>

FlushFirst(t) ==
    /\ Holds(t)
    /\ FlushReady(t)
    /\ Goto(t, "flush1", "flush2")
    /\ last_loop' = [last_loop EXCEPT ![t] = current_loop]
    /\ UNCHANGED <<queueVars, resourceVars, configVars, syncVars, countVars, mark>>

FlushReturn(t) ==
    /\ Holds(t)
    /\ FlushReady(t)
    /\ Goto(t, "flush2", "idle")
    /\ Unlock(t)
    /\ last_loop' = [last_loop EXCEPT ![t] = -1]
    /\ mark' = [mark EXCEPT ![t] = 0]
    /\ UNCHANGED <<queueVars, resourceVars, configVars, waiting, countVars>>

FlushSleep(t) ==
    /\ Holds(t)
    /\ pc[t] \in {"flush1", "flush2"}
    /\ ~FlushReady(t)
    /\ Sleep(t)
    /\ UNCHANGED <<queueVars, resourceVars, configVars, pc, last_loop, countVars, mark>>

-----------------------------------------------------------------------------
(* Logger::ClearConsumers and the other changes of the configuration       *)

ClearStart(t) ==
    /\ Goto(t, "idle", "clear_wait")
    /\ Lock(t)
    /\ mark' = [mark EXCEPT ![t] = pushed]
    /\ UNCHANGED <<queueVars, resourceVars, configVars, waiting, last_loop, countVars>>

\* Slip: only the front queue is looked at.
ClearReadyFront(t) ==
    /\ Holds(t)
    /\ Empty
    /\ Goto(t, "clear_wait", "clear")
    /\ UNCHANGED <<queueVars, resourceVars, configVars, syncVars, last_loop, countVars, mark>>

ClearReady(t) ==
    /\ Holds(t)
    /\ BothEmpty
    /\ Goto(t, "clear_wait", "clear")
    /\ UNCHANGED <<queueVars, resourceVars, configVars, syncVars, last_loop, countVars, mark>>

ClearSleep(t) ==
    /\ Holds(t)
    /\ pc[t] = "clear_wait"
    /\ ~BothEmpty
    /\ Sleep(t)
    /\ UNCHANGED <<queueVars, resourceVars, configVars, pc, last_loop, countVars, mark>>

\* Under config_mtx, cv_mtx still held.
ClearReturn(t) ==
    /\ Goto(t, "clear", "idle")
    /\ consumers' = {}
    /\ Unlock(t)
    /\ mark' = [mark EXCEPT ![t] = 0]
    /\ UNCHANGED <<queueVars, resourceVars, filter, received, waiting, last_loop, countVars>>

RegisterConsumer(t, c) ==
    /\ pc[t] = "idle"
    /\ c \notin consumers
    /\ consumers' = consumers \cup {c}
    /\ UNCHANGED <<queueVars, resourceVars, filter, received, syncVars, pc, last_loop,
                   countVars, mark>>

\* SetCategoryFilter, SetFilenameFilter, SetErrorStringFilter
SetFilter(t) ==
    /\ pc[t] = "idle"
    /\ filter' = TRUE
    /\ UNCHANGED <<queueVars, resourceVars, consumers, received, syncVars, pc,
                   last_loop, countVars, mark>>

\* Does not wait for entries that are still queued.
Reset(t) ==
    /\ pc[t] = "idle"
    /\ filter' = FALSE
    /\ consumers' = {Default}
    /\ UNCHANGED <<queueVars, resourceVars, received, syncVars, pc, last_loop,
                   countVars, mark>>

-----------------------------------------------------------------------------
(* Logger::KillThread                                                      *)

\* A Flush that is under way promises nothing any more.
KillSet(t) ==
    /\ Free
    /\ Goto(t, "idle", "kill_check")
    /\ logging' = FALSE
    /\ work' = FALSE
    /\ mark' = [u \in Caller |-> IF pc[u] \in {"flush1", "flush2"} THEN 0 ELSE mark[u]]
    /\ UNCHANGED <<queueVars, logging_thread, current_loop, configVars, syncVars,
                   last_loop, countVars>>

\* logging_thread is read after cv_mtx was released.
KillCheck(t) ==
    /\ Goto(t, "kill_check", IF logging_thread THEN "kill_notify" ELSE "idle")
    /\ UNCHANGED <<queueVars, resourceVars, configVars, syncVars, last_loop, countVars, mark>>

\* Slip: the worker is not woken before it is joined.
KillNotifyNobody(t) ==
    /\ Goto(t, "kill_notify", "kill_join")
    /\ UNCHANGED <<queueVars, resourceVars, configVars, syncVars, last_loop, countVars, mark>>

KillNotify(t) ==
    /\ Goto(t, "kill_notify", "kill_join")
    /\ NotifyAll
    /\ UNCHANGED <<queueVars, resourceVars, configVars, cv_mtx, last_loop, countVars, mark>>

KillJoin(t) ==
    /\ pc[t] = "kill_join"
    /\ pc[Worker] = "done"
    /\ pc' = [pc EXCEPT ![t] = "idle", ![Worker] = "none"]
    /\ logging_thread' = FALSE
    /\ UNCHANGED <<queueVars, logging, work, current_loop, configVars, syncVars,
                   last_loop, countVars, mark>>

-----------------------------------------------------------------------------
(* Logger::run                                                             *)

RunStart ==
    /\ Goto(Worker, "start", "loop")
    /\ Lock(Worker)
    /\ UNCHANGED <<queueVars, resourceVars, configVars, waiting, last_loop, countVars, mark>>

RunLoop ==
    /\ logging
    /\ Goto(Worker, "loop", "run_wait")
    /\ UNCHANGED <<queueVars, resourceVars, configVars, syncVars, last_loop, countVars, mark>>

RunExit ==
    /\ ~logging
    /\ Goto(Worker, "loop", "done")
    /\ Unlock(Worker)
    /\ UNCHANGED <<queueVars, resourceVars, configVars, waiting, last_loop, countVars, mark>>

RunReady == ~logging \/ work

RunSleep ==
    /\ Holds(Worker)
    /\ pc[Worker] = "run_wait"
    /\ ~RunReady
    /\ Sleep(Worker)
    /\ UNCHANGED <<queueVars, resourceVars, configVars, pc, last_loop, countVars, mark>>

RunWork ==
    /\ Holds(Worker)
    /\ RunReady
    /\ Goto(Worker, "run_wait", "swap")
    /\ work' = FALSE
    /\ Unlock(Worker)
    /\ UNCHANGED <<queueVars, logging, logging_thread, current_loop, configVars,
                   waiting, last_loop, countVars, mark>>

RunSwap ==
    /\ Goto(Worker, "swap", "drain")
    /\ Swap
    /\ UNCHANGED <<resourceVars, configVars, syncVars, last_loop, countVars, mark>>

\* preprocess: whether the filters let the entry pass.
Preprocess(entry) == ~filter

\* Slip: the entry is not popped.
RunConsumeAgain ==
    /\ pc[Worker] = "drain"
    /\ ~Empty
    /\ received' = [c \in Consumer |->
                      IF Preprocess(Front) /\ c \in consumers
                        THEN Append(received[c], Front)
                        ELSE received[c]]
    /\ UNCHANGED <<queueVars, resourceVars, consumers, filter, syncVars, pc, last_loop,
                   countVars, mark>>

\* One round of the inner loop, under config_mtx.
RunConsume ==
    /\ pc[Worker] = "drain"
    /\ ~Empty
    /\ received' = [c \in Consumer |->
                      IF Preprocess(Front) /\ c \in consumers
                        THEN Append(received[c], Front)
                        ELSE received[c]]
    /\ Pop
    /\ popped' = popped + 1
    /\ UNCHANGED <<resourceVars, consumers, filter, syncVars, pc, last_loop, calls,
                   pushed, mark>>

\* Slip: the inner loop may end early.
RunDrainedEarly ==
    /\ Goto(Worker, "drain", "relock")
    /\ UNCHANGED <<queueVars, resourceVars, configVars, syncVars, last_loop, countVars, mark>>

RunDrained ==
    /\ Empty
    /\ Goto(Worker, "drain", "relock")
    /\ UNCHANGED <<queueVars, resourceVars, configVars, syncVars, last_loop, countVars, mark>>

NextLoop == IF current_loop + 1 > MaxLoop THEN 0 ELSE current_loop + 1

\* Slip: the end of a round is not announced.
RunCountSilent ==
    /\ Goto(Worker, "relock", "loop")
    /\ Lock(Worker)
    /\ current_loop' = NextLoop
    /\ UNCHANGED <<queueVars, logging, logging_thread, work, configVars, waiting,
                   last_loop, countVars, mark>>

RunCount ==
    /\ Goto(Worker, "relock", "loop")
    /\ Lock(Worker)
    /\ current_loop' = NextLoop
    /\ NotifyAll
    /\ UNCHANGED <<queueVars, logging, logging_thread, work, configVars, last_loop,
                   countVars, mark>>

-----------------------------------------------------------------------------
WorkerStep ==
    \/ RunStart \/ RunLoop \/ RunExit \/ RunSleep \/ RunWork
    \/ RunSwap \/ RunConsume \/ RunDrained \/ RunCount
    \/ Wake(Worker)

\* A thread goes on with the call it is in.
CallStep(t) ==
    \/ t \in Loggers  /\ (QueueLogPush(t) \/ QueueLogWork(t) \/ QueueLogNotify(t))
    \/ t \in Flushers /\ (FlushFirst(t) \/ FlushReturn(t) \/ FlushSleep(t))
    \/ t \in Clearers /\ (ClearReady(t) \/ ClearSleep(t) \/ ClearReturn(t))
    \/ t \in Killers  /\ (KillCheck(t) \/ KillNotify(t) \/ KillJoin(t))
    \/ Wake(t)

\* A thread begins a call.
CallStart(t) ==
    \/ t \in Loggers  /\ QueueLogStart(t)
    \/ t \in Flushers /\ FlushStart(t)
    \/ t \in Clearers /\ ClearStart(t)
    \/ t \in Killers  /\ KillSet(t)
    \/ t \in Configurers /\ \/ \E c \in Consumer : RegisterConsumer(t, c)
                            \/ SetFilter(t)
                            \/ Reset(t)

Next ==
    \/ WorkerStep
    \/ \E t \in Caller : CallStep(t) \/ CallStart(t)
    \/ \E t \in Thread : SpuriousWakeup(t)

Spec == Init /\ [][Next]_vars

\* No thread is suspended for ever, and a thread that keeps asking for cv_mtx
\* gets it some time: strong fairness, because others hold it in between.
\* Nobody is obliged to begin a call, and no wake-up is ever spurious by duty.
Fairness ==
    /\ SF_vars(WorkerStep)
    /\ \A t \in Caller : SF_vars(CallStep(t))

FairSpec == Spec /\ Fairness

-----------------------------------------------------------------------------
(* Properties.                                                             *)

\* Every variable keeps its type.
TypeOK ==
    /\ front_queue \in Seq(1 .. MaxLogs)
    /\ back_queue \in Seq(1 .. MaxLogs)
    /\ {logging, logging_thread, work, filter} \subseteq BOOLEAN
    /\ current_loop \in 0 .. MaxLoop
    /\ consumers \subseteq Consumer
    /\ cv_mtx \in Thread \cup {NULL}
    /\ waiting \subseteq Thread
    /\ pc \in [Thread -> {"idle", "push", "work", "notify", "flush1", "flush2",
                          "clear_wait", "clear", "kill_check", "kill_notify",
                          "kill_join", "none", "start", "loop", "run_wait", "swap",
                          "drain", "relock", "done"}]
    /\ last_loop \in [Flushers -> -1 .. MaxLoop]
    /\ calls \in 0 .. MaxLogs
    /\ pushed \in 0 .. MaxLogs
    /\ popped \in 0 .. MaxLogs
    /\ received \in [Consumer -> Seq(1 .. MaxLogs)]
    /\ mark \in [Caller -> 0 .. MaxLogs]

\* Nothing is lost, duplicated or reordered between Push and Pop: the two
\* queues hold exactly the entries that were pushed and not popped, in order.
\* Swap, which throws away what is left in the front queue, must never find
\* anything there.
NothingLost ==
    front_queue \o back_queue = [i \in 1 .. pushed - popped |-> popped + i]

\* A consumer is given entries in the order in which they were logged, none
\* twice, whatever happens to the set of consumers meanwhile.
ConsumersSeeOrder ==
    \A c \in Consumer : \A i, j \in 1 .. Len(received[c]) :
        i < j => received[c][i] < received[c][j]

\* The two queues, Swap and the rounds of the worker together are one row of
\* entries that leaves at its head: an entry is handed once, in order, to the
\* consumers registered and under the filters set when its turn comes, whatever
\* happens to them between two entries of a round.
Delivery == INSTANCE LogDelivery WITH logged <- pushed, pending <- front_queue \o back_queue
ImplementsDelivery == Delivery!Spec

\* The two waits of Flush on current_loop: when it returns and no thread was
\* killed meanwhile, the entries that were queued when it was called have
\* been consumed, except those the worker had left in the back queue in a
\* round it was about to finish.
FlushDelivers ==
    \A t \in Flushers :
        pc[t] = "flush2" /\ Holds(t) /\ FlushReady(t) => popped >= mark[t]

\* ClearConsumers drops the consumers only after they were offered every entry
\* that was pushed before the call.
ClearWaitsForBacklog ==
    \A t \in Clearers : pc[t] = "clear" => popped >= mark[t]

\* A pushed entry is consumed some time, unless logging is stopped: no wake-up
\* of the worker is lost between Push, work = true and notify_all.
EntryDelivered ==
    \A n \in 1 .. MaxLogs : pushed >= n ~> (popped >= n \/ ~logging)

\* Flush returns.
FlushReturns ==
    \A t \in Flushers : pc[t] = "flush1" ~> pc[t] = "idle"

\* ClearConsumers returns unless somebody stops the logger: it waits without
\* regard to logging, so entries left behind by KillThread would block it.
ClearReturns ==
    \A t \in Clearers : pc[t] = "clear_wait" ~> (pc[t] = "idle" \/ ~logging)

\* KillThread, once it has found a thread to join and logging is off, returns.
KillReturns ==
    \A t \in Killers : (pc[t] = "kill_notify" /\ ~logging) ~> pc[t] = "idle"
=============================================================================
