----------------------------- MODULE MzCoroutine -----------------------------
(***************************************************************************)
(* MzCoroutine (mz_coroutine.h, mz_coroutine.cc), the wrapper a scheduler  *)
(* uses: a coroutine with a state, a wake-up time and an update flag, on   *)
(* top of the runtime MzCo models.  One thread constructs, resumes and     *)
(* runs the coroutines (mz_gtls_co is the variable of a thread); what      *)
(* other threads may call (Wake, SetUpdateFlag, UpdateState, Stop) happens *)
(* between any two of its steps.  The runtime is reduced to the saved      *)
(* contexts: mzswap(a, b) saves the executing flow in a and loads b.       *)
(*                                                                         *)
(* mz_gtls_co is NULL until the first mz_resume, so that every object      *)
(* constructed before makes a main coroutine of its own.  Nothing frees    *)
(* one; a main coroutine nothing refers to counts as unused here.          *)
(***************************************************************************)
EXTENDS Naturals

CONSTANTS Co,       \* the MzCoroutine objects
          Mains,    \* the main coroutines mz_create(NULL, ...) can give
          Thread,   \* the thread's own flow, not a coroutine's
          NULL,
          MaxTime   \* the clock stops here

ASSUME CoAssumption ==
    /\ Co \cap Mains = {}
    /\ Thread \notin Co
    /\ NULL \notin Co \cup Mains \cup {Thread}
    /\ MaxTime \in Nat

VARIABLES state,    \* state_, "none" while the object does not exist
          mainCo,   \* main_co_
          gtls,     \* mz_gtls_co of the thread
          flow,     \* whose code executes
          saved,    \* saved[x]: the flow the registers of x would resume
          yielding, \* the coroutine between set_state and mz_yield of a Yield
          now,
          wake,     \* wake_time_
          updated,  \* updated_
          stop,     \* force_stop_
          aborted,  \* the process ended in an assertion
          creator,  \* the flow that constructed a coroutine
          crossed,  \* a coroutine was resumed by another flow than its creator's
          wakes     \* how often UpdateState ended a wait for data

vars == <<state, mainCo, gtls, flow, saved, yielding, now, wake, updated, stop,
          aborted, creator, crossed, wakes>>
machine == <<mainCo, gtls, flow, saved, creator, crossed>>
flags == <<now, wake, updated, stop, wakes>>

CoState == {"READY", "FINISHED", "SLEEP", "IO_WAIT", "DATA_WAIT"}
Waiting == {"IO_WAIT", "DATA_WAIT"}
Exists(c) == state[c] # "none"

Init ==
    /\ state = [c \in Co |-> "none"]
    /\ mainCo = [c \in Co |-> NULL]
    /\ gtls = NULL
    /\ flow = Thread
    /\ saved = [x \in Co \cup Mains |-> NULL]
    /\ yielding = NULL
    /\ now = 0
    /\ wake = [c \in Co |-> 0]
    /\ updated = [c \in Co |-> FALSE]
    /\ stop = [c \in Co |-> FALSE]
    /\ aborted = FALSE
    /\ creator = [c \in Co |-> NULL]
    /\ crossed = FALSE
    /\ wakes = [c \in Co |-> 0]

ConstructUnder(c, main) ==
    /\ ~Exists(c)
    /\ mainCo' = [mainCo EXCEPT ![c] = main]
    /\ saved' = [saved EXCEPT ![c] = c]
    /\ state' = [state EXCEPT ![c] = "READY"]
    /\ wake' = [wake EXCEPT ![c] = now]
    /\ creator' = [creator EXCEPT ![c] = flow]
    /\ UNCHANGED <<gtls, flow, yielding, now, updated, stop, aborted, crossed, wakes>>

\* Slip: every coroutine returns to a main coroutine, wherever it was constructed.
ConstructUnderMain(c) == \E m \in Mains : ConstructUnder(c, m)

Unused(m) == gtls # m /\ \A d \in Co : mainCo[d] # m

\* The constructor: the coroutine the thread is in becomes main_co_; a thread
\* that has resumed nothing yet is in none, and a main coroutine is made.
\* mz_gtls_co is not assigned.
Construct(c) ==
    \/ gtls # NULL /\ ConstructUnder(c, gtls)
    \/ gtls = NULL /\ \E m \in Mains : Unused(m) /\ ConstructUnder(c, m)

\* ~MzCoroutine, of a coroutine that is neither executing nor to be returned
\* to: the thread is not in it and its registers hold its own context.
Destroy(c) ==
    /\ Exists(c)
    /\ gtls # c
    /\ \A d \in Co : mainCo[d] # c
    /\ saved[c] = c
    /\ state' = [state EXCEPT ![c] = "none"]
    /\ mainCo' = [mainCo EXCEPT ![c] = NULL]
    /\ saved' = [saved EXCEPT ![c] = NULL]
    /\ creator' = [creator EXCEPT ![c] = NULL]
    /\ updated' = [updated EXCEPT ![c] = FALSE]
    /\ stop' = [stop EXCEPT ![c] = FALSE]
    /\ wake' = [wake EXCEPT ![c] = 0]
    /\ wakes' = [wakes EXCEPT ![c] = 0]
    /\ UNCHANGED <<gtls, flow, yielding, now, aborted, crossed>>

\* mzswap(from, to).  A context that was loaded is used up (NULL): to load it
\* again would run code a second time from a stack that has moved on, which is
\* not followed.
SwapContexts(from, to) ==
    /\ saved[to] # NULL
    /\ flow' = saved[to]
    /\ saved' = [saved EXCEPT ![from] = flow, ![to] = NULL]

\* Resume: force_stop_ ends the coroutine, and one that is not READY is left
\* alone; otherwise mz_resume(current_co_).
Resume(c) ==
    /\ Exists(c)
    /\ IF stop[c] \/ state[c] # "READY"
       THEN /\ state' = [state EXCEPT ![c] = IF stop[c] THEN "FINISHED" ELSE @]
            /\ UNCHANGED machine
       ELSE /\ gtls' = c
            /\ SwapContexts(mainCo[c], c)
            /\ crossed' = (crossed \/ flow # creator[c])
            /\ UNCHANGED <<state, mainCo, creator>>
    /\ UNCHANGED <<yielding, flags, aborted>>

\* Yield(state), HangUp and Sleep, first half: set_state (and wake_time_)
SetState(s) ==
    /\ flow \in Co
    /\ state' = [state EXCEPT ![flow] = s]
    /\ IF s = "SLEEP"
       THEN \E d \in 0..(MaxTime - 1 - now) : wake' = [wake EXCEPT ![flow] = now + d]
       ELSE UNCHANGED wake
    /\ yielding' = flow
    /\ UNCHANGED <<machine, now, updated, stop, aborted, wakes>>

\* mz_yield, then the rest of the mz_resume that is returned to: the context
\* loaded is main_co's, and mz_gtls_co becomes main_co.  Yield() comes here at
\* once and leaves the state READY.
Yield ==
    /\ gtls \in Co
    /\ SwapContexts(gtls, mainCo[gtls])
    /\ gtls' = mainCo[gtls]
    /\ yielding' = NULL
    /\ UNCHANGED <<state, mainCo, creator, crossed, flags, aborted>>

\* Run returns, and coEntry with it: the protector the runtime put under the
\* entry function asserts.
Return ==
    /\ flow \in Co
    /\ aborted' = TRUE
    /\ UNCHANGED <<state, machine, yielding, flags>>

GetUp(c) ==
    /\ state' = [state EXCEPT ![c] = "READY"]
    /\ UNCHANGED <<updated, wakes>>

TestAndSet(c) ==
    /\ updated' = [updated EXCEPT ![c] = TRUE]
    /\ IF ~updated[c] /\ state[c] \in Waiting
       THEN /\ state' = [state EXCEPT ![c] = "READY"]
            /\ wakes' = [wakes EXCEPT ![c] = @ + 1]
       ELSE UNCHANGED <<state, wakes>>

\* Slip: the flag is tested before the time.
UpdateStateFlagFirst(c) ==
    /\ Exists(c)
    /\ IF ~updated[c] /\ state[c] = "SLEEP" /\ now > wake[c] THEN GetUp(c) ELSE TestAndSet(c)
    /\ UNCHANGED <<machine, yielding, now, wake, stop, aborted>>

UpdateState(c) ==
    /\ Exists(c)
    /\ IF state[c] = "SLEEP" /\ now > wake[c] THEN GetUp(c) ELSE TestAndSet(c)
    /\ UNCHANGED <<machine, yielding, now, wake, stop, aborted>>

\* Slip: the flag is cleared, so that the next UpdateState wakes the coroutine.
SetUpdateFlagClears(c) ==
    /\ Exists(c)
    /\ wakes[c] < 2
    /\ updated' = [updated EXCEPT ![c] = FALSE]
    /\ UNCHANGED <<state, machine, yielding, now, wake, stop, aborted, wakes>>

\* SetUpdateFlag sets the flag UpdateState sets as well; nothing clears it.
SetUpdateFlag(c) ==
    /\ Exists(c)
    /\ updated' = [updated EXCEPT ![c] = TRUE]
    /\ UNCHANGED <<state, machine, yielding, now, wake, stop, aborted, wakes>>

Wake(c) ==
    /\ Exists(c)
    /\ state' = [state EXCEPT ![c] = "READY"]
    /\ UNCHANGED <<machine, yielding, flags, aborted>>

\* Stop assigns force_stop_ the value it has.
Stop(c) ==
    /\ Exists(c)
    /\ stop' = [stop EXCEPT ![c] = FALSE]
    /\ UNCHANGED <<state, machine, yielding, now, wake, updated, aborted, wakes>>

Tick ==
    /\ now < MaxTime
    /\ now' = now + 1
    /\ UNCHANGED <<state, machine, yielding, wake, updated, stop, aborted, wakes>>

Next ==
    /\ ~aborted
    /\ \/ /\ yielding = NULL
          /\ \/ \E c \in Co : Construct(c) \/ Destroy(c) \/ Resume(c)
             \/ \E s \in CoState : SetState(s)
             \/ Return
       \/ Yield
       \/ \E c \in Co : UpdateState(c) \/ SetUpdateFlag(c) \/ Wake(c) \/ Stop(c)
       \/ Tick

\* Time passes, and a scheduler keeps updating the coroutines it knows.
Fairness == WF_vars(~aborted /\ Tick) /\ \A c \in Co : WF_vars(~aborted /\ UpdateState(c))
Spec == Init /\ [][Next]_vars /\ Fairness

-----------------------------------------------------------------------------
TypeOK ==
    /\ state \in [Co -> CoState \cup {"none"}]
    /\ mainCo \in [Co -> Co \cup Mains \cup {NULL}]
    /\ gtls \in Co \cup Mains \cup {NULL}
    /\ flow \in Co \cup {Thread}
    /\ saved \in [Co \cup Mains -> Co \cup {Thread, NULL}]
    /\ yielding \in Co \cup {NULL}
    /\ now \in 0..MaxTime
    /\ wake \in [Co -> 0..MaxTime]
    /\ updated \in [Co -> BOOLEAN]
    /\ stop \in [Co -> BOOLEAN]
    /\ aborted \in BOOLEAN
    /\ creator \in [Co -> Co \cup {Thread, NULL}]
    /\ crossed \in BOOLEAN
    /\ wakes \in [Co -> Nat]
    /\ \A c \in Co : Exists(c) <=> mainCo[c] # NULL

\* Coroutines may construct and resume coroutines, and each object made before
\* the first resume has a main coroutine of its own.  As long as each is resumed
\* by the flow that constructed it: the thread knows which coroutine it is in,
\* or that it is in none (what the constructor, mz_get_arg and mz_yield rely
\* on), the executing coroutine can go back to where it was resumed, and every
\* other coroutine still has its own context.
OwnContext ==
    ~crossed =>
        /\ IF flow \in Co THEN gtls = flow /\ saved[mainCo[flow]] # NULL
                          ELSE gtls \notin Co
        /\ \A c \in Co \ {flow} : Exists(c) => saved[c] = c

\* updated_ is set by both sides and cleared by none: in the lifetime of a
\* coroutine UpdateState ends at most one wait for data or input.
OneUpdate == \A c \in Co : wakes[c] <= 1

\* A coroutine that goes to sleep is made READY when its time has come, if the
\* clock and the updates go on (or it is woken, destroyed or the process ends).
SleepEnds == \A c \in Co : state[c] = "SLEEP" ~> (state[c] # "SLEEP" \/ aborted)

\* The protector under an entry function says: "co should call `mz_exit()`
\* instead of direct `return`" (mzco.cc:145); the entry of MzCoroutine returns.
ExitsByMzExit == ~aborted
=============================================================================
