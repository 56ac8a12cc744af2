------------------------------ MODULE Semaphore ------------------------------
(***************************************************************************)
(* core/utils/semaphore.h: a counting semaphore that can be disabled, on   *)
(* a mutex and a condition variable.  Every operation holds the mutex from *)
(* its first to its last statement, except while it is inside cv_.wait, so *)
(* each is one step and a wait is one step per time it is woken.           *)
(*                                                                         *)
(* A thread that is not in "blocked" or "woken" is outside wait().  The    *)
(* counter is a size_t: it wraps around at MaxWord.                        *)
(***************************************************************************)
EXTENDS Integers, FiniteSets

CONSTANTS Thread,   \* threads that call wait
          Initial,  \* the argument of the constructor
          MaxWord,  \* the largest size_t
          MaxN,     \* bound on the argument of post(int)
          MaxPosted \* bound on what is posted between two calls of enable

ASSUME SemaphoreAssumption ==
    /\ IsFiniteSet(Thread)
    /\ Initial \in Nat
    /\ MaxWord \in Nat
    /\ MaxN \in Nat
    /\ MaxPosted \in Nat
    /\ Initial <= MaxPosted
    /\ MaxPosted <= MaxWord

VARIABLES
    count_, disable_,
    blocked,   \* threads in cv_.wait that were not woken
    woken,     \* threads that were woken and have not tested the predicate
    posted,    \* permits there were at first and posted since the last enable
    taken      \* permits taken since then

vars == <<count_, disable_, blocked, woken, posted, taken>>

Init ==
    /\ count_ = Initial
    /\ disable_ = FALSE
    /\ blocked = {}
    /\ woken = {}
    /\ posted = Initial
    /\ taken = 0

\* Unsigned arithmetic.
Plus(c, n) == IF c + n > MaxWord THEN c + n - (MaxWord + 1) ELSE c + n

Minus1(c) == IF c = 0 THEN MaxWord ELSE c - 1

\* Slip: one thread is notified, however many permits there are.
NotifyFirst(n) ==
    \E W \in SUBSET blocked :
        /\ Cardinality(W) = IF blocked = {} THEN 0 ELSE 1
        /\ blocked' = blocked \ W
        /\ woken' = woken \cup W

\* notify_one, n times: n threads if there are as many.
Notify(n) ==
    \E W \in SUBSET blocked :
        /\ Cardinality(W) = IF n < Cardinality(blocked) THEN n ELSE Cardinality(blocked)
        /\ blocked' = blocked \ W
        /\ woken' = woken \cup W

\* post(): as the code has it, of effect only while the semaphore is disabled.
Post ==
    /\ disable_
    /\ count_' = Plus(count_, 1)
    /\ Notify(1)
    /\ UNCHANGED <<disable_, posted, taken>>

\* post(n): of effect only while it is enabled.
PostN(n) ==
    /\ ~disable_
    /\ posted + n <= MaxPosted
    /\ count_' = Plus(count_, n)
    /\ posted' = posted + n
    /\ Notify(n)
    /\ UNCHANGED <<disable_, taken>>

Enable ==
    /\ disable_
    /\ count_' = 0
    /\ disable_' = FALSE
    /\ posted' = 0
    /\ taken' = 0
    /\ UNCHANGED <<blocked, woken>>

\* Slip: the waiting threads are not told.
DisableSilent ==
    /\ ~disable_
    /\ count_' = MaxWord
    /\ disable_' = TRUE
    /\ UNCHANGED <<blocked, woken, posted, taken>>

Disable ==
    /\ ~disable_
    /\ count_' = MaxWord
    /\ woken' = woken \cup blocked
    /\ blocked' = {}
    /\ disable_' = TRUE
    /\ UNCHANGED <<posted, taken>>

\* wait() of a disabled semaphore returns at once; the two steps below are
\* what it does otherwise.
Outside(t) == t \notin blocked \cup woken

WaitTake(t) ==
    /\ Outside(t)
    /\ ~disable_
    /\ count_ > 0
    /\ count_' = Minus1(count_)
    /\ taken' = taken + 1
    /\ UNCHANGED <<disable_, blocked, woken, posted>>

WaitBlock(t) ==
    /\ Outside(t)
    /\ ~disable_
    /\ count_ = 0
    /\ blocked' = blocked \cup {t}
    /\ UNCHANGED <<count_, disable_, woken, posted, taken>>

SpuriousWakeup(t) ==
    /\ t \in blocked
    /\ blocked' = blocked \ {t}
    /\ woken' = woken \cup {t}
    /\ UNCHANGED <<count_, disable_, posted, taken>>

\* Slip: the predicate is not tested again.
WakeTakeBlindly(t) ==
    /\ t \in woken
    /\ ~disable_
    /\ woken' = woken \ {t}
    /\ count_' = Minus1(count_)
    /\ taken' = taken + 1
    /\ UNCHANGED <<disable_, blocked, posted>>

\* A woken thread finds a permit and takes it.
WakeTake(t) ==
    /\ t \in woken
    /\ ~disable_
    /\ count_ > 0
    /\ woken' = woken \ {t}
    /\ count_' = Minus1(count_)
    /\ taken' = taken + 1
    /\ UNCHANGED <<disable_, blocked, posted>>

\* It finds the semaphore disabled and leaves, decrementing all the same.
WakeLeave(t) ==
    /\ t \in woken
    /\ disable_
    /\ woken' = woken \ {t}
    /\ count_' = Minus1(count_)
    /\ UNCHANGED <<disable_, blocked, posted, taken>>

\* Another thread took the permit, or enable was called after disable.
WakeAgain(t) ==
    /\ t \in woken
    /\ ~disable_
    /\ count_ = 0
    /\ woken' = woken \ {t}
    /\ blocked' = blocked \cup {t}
    /\ UNCHANGED <<count_, disable_, posted, taken>>

-----------------------------------------------------------------------------
\* A woken thread goes on.
Wake(t) == WakeTake(t) \/ WakeLeave(t) \/ WakeAgain(t)

Next ==
    \/ Post
    \/ \E n \in 0 .. MaxN : PostN(n)
    \/ Enable
    \/ Disable
    \/ \E t \in Thread : WaitTake(t) \/ WaitBlock(t) \/ SpuriousWakeup(t) \/ Wake(t)

Spec == Init /\ [][Next]_vars

\* A woken thread gets the mutex some time; nobody keeps it between two steps.
FairSpec == Spec /\ \A t \in Thread : WF_vars(Wake(t))

-----------------------------------------------------------------------------
\* Every variable keeps its type.
TypeOK ==
    /\ count_ \in 0 .. MaxWord
    /\ disable_ \in BOOLEAN
    /\ blocked \subseteq Thread
    /\ woken \subseteq Thread
    /\ posted \in 0 .. MaxPosted
    /\ taken \in Nat

\* While the semaphore is enabled its counter is exactly what was posted and
\* not taken: nothing that happened while it was disabled, neither post() nor
\* the decrement of the threads it released, is left in it, and a thread that
\* takes the last permit from under a woken one does not make it wrap around.
PermitsConserved ==
    ~disable_ => taken <= posted /\ count_ = posted - taken

\* No wake-up is lost: threads sleep beside unused permits only if as many
\* others are on their way to take them.
NoLostWakeup ==
    ~disable_ /\ blocked # {} => count_ <= Cardinality(woken)

\* disable() lets every waiting thread go, unless enable() is called before it
\* has run: then it may block again, although it was told to leave.
DisableReleases ==
    \A t \in Thread : (disable_ /\ ~Outside(t)) ~> (Outside(t) \/ ~disable_)

\* Permits and waiting threads do not stay side by side for ever.
PermitsAreUsed ==
    (~disable_ /\ count_ > 0 /\ blocked \cup woken # {})
        ~> (disable_ \/ count_ = 0 \/ blocked \cup woken = {})

\* Nobody waits for ever beside a way out, be it a permit or disable().
WaitersMoveOn == DisableReleases /\ PermitsAreUsed
=============================================================================
