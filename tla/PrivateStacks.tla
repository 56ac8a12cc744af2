---------------------------- MODULE PrivateStacks ----------------------------
(***************************************************************************)
(* What a user of the coroutine runtime is promised: every coroutine has   *)
(* a stack image of its own.  Only the coroutine that is executing changes *)
(* its image; nothing done to any other coroutine, stack or buffer does.   *)
(* How several coroutines share one memory area is left to MzCo.           *)
(***************************************************************************)
EXTENDS Naturals

CONSTANTS Co,      \* coroutines
          NULL,    \* "no coroutine"
          Frame,   \* the possible stack images
          Empty    \* the image of a coroutine that has not run, or is over

VARIABLES alive,   \* coroutines that were created and not destroyed
          ended,   \* those of them that are over
          current, \* the executing coroutine, NULL in the main coroutine
          frame    \* the stack image of every coroutine

vars == <<alive, ended, current, frame>>

Init ==
    /\ alive = {}
    /\ ended = {}
    /\ current = NULL
    /\ frame = [c \in Co |-> Empty]

Create(c) ==
    /\ c \notin alive
    /\ alive' = alive \cup {c}
    /\ UNCHANGED <<ended, current, frame>>

Resume(c) ==
    /\ current = NULL
    /\ c \in alive \ ended
    /\ current' = c
    /\ UNCHANGED <<alive, ended, frame>>

Run(f) ==
    /\ current \in Co
    /\ frame' = [frame EXCEPT ![current] = f]
    /\ UNCHANGED <<alive, ended, current>>

Yield ==
    /\ current # NULL
    /\ current' = NULL
    /\ UNCHANGED <<alive, ended, frame>>

Exit ==
    /\ current \in Co
    /\ ended' = ended \cup {current}
    /\ frame' = [frame EXCEPT ![current] = Empty]
    /\ current' = NULL
    /\ UNCHANGED alive

Destroy(c) ==
    /\ c \in alive
    /\ c # current
    /\ alive' = alive \ {c}
    /\ ended' = ended \ {c}
    /\ frame' = [frame EXCEPT ![c] = Empty]
    /\ UNCHANGED current

Next ==
    \/ \E c \in Co : Create(c) \/ Resume(c) \/ Destroy(c)
    \/ \E f \in Frame : Run(f)
    \/ Yield
    \/ Exit

Spec == Init /\ [][Next]_vars
=============================================================================
