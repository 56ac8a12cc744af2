------------------------------ MODULE Singleton ------------------------------
(***************************************************************************)
(* DECLARE_SINGLETON (singleton.h): Instance tests a static pointer without *)
(* synchronisation, and creates the object under std::call_once; CleanUp   *)
(* calls Shutdown on what the pointer gives.  Threads call both at will.   *)
(* The pointer is a plain variable: the build may write it before the      *)
(* constructor's own writes, unless the constructor throws.                *)
(***************************************************************************)
EXTENDS Naturals

CONSTANTS Thread, MaxThrow    \* how often the constructor may throw

VARIABLES pc,       \* "out", "once" (at call_once), "new", "build", "return"
          flag,     \* the once_flag: "unset", "running", "done"
          instance, \* the pointer is set
          built,    \* the object is constructed
          made,     \* objects there are
          passed,   \* the thread came through call_once in its present call
          result,   \* what its last call gave: "null", "whole", or "raw", not yet built
          failed,   \* history: new gave a null pointer
          throws,   \* history: how often the constructor threw
          shutdown  \* history: Shutdown was called on the object
vars == <<pc, flag, instance, built, made, passed, result, failed, throws, shutdown>>

Init ==
    /\ pc = [t \in Thread |-> "out"]
    /\ flag = "unset" /\ instance = FALSE /\ built = FALSE /\ made = 0
    /\ passed = [t \in Thread |-> FALSE] /\ result = [t \in Thread |-> "null"]
    /\ failed = FALSE /\ throws = 0 /\ shutdown = FALSE

Goto(t, place) == pc' = [pc EXCEPT ![t] = place]
Given == IF ~instance THEN "null" ELSE IF built THEN "whole" ELSE "raw"

\* Instance(create_if_needed): the unsynchronised test
Instance(t, create) ==
    /\ pc[t] = "out"
    /\ Goto(t, IF ~instance /\ create THEN "once" ELSE "return")
    /\ passed' = [passed EXCEPT ![t] = FALSE]
    /\ UNCHANGED <<flag, instance, built, made, result, failed, throws, shutdown>>

\* Slip: no flag, only the test.
EnterUnguarded(t) ==
    /\ pc[t] = "once" /\ flag # "done"
    /\ flag' = "running" /\ Goto(t, "new")
    /\ UNCHANGED <<instance, built, made, passed, result, failed, throws, shutdown>>

\* call_once: one thread runs the function, ...
Enter(t) ==
    /\ pc[t] = "once" /\ flag = "unset"
    /\ flag' = "running" /\ Goto(t, "new")
    /\ UNCHANGED <<instance, built, made, passed, result, failed, throws, shutdown>>

\* ... the others wait until it has returned.
Pass(t) ==
    /\ pc[t] = "once" /\ flag = "done"
    /\ Goto(t, "return") /\ passed' = [passed EXCEPT ![t] = TRUE]
    /\ UNCHANGED <<flag, instance, built, made, result, failed, throws, shutdown>>

\* new (std::nothrow) gives a null pointer, and the function returns as usual.
NoMemory(t) ==
    /\ pc[t] = "new"
    /\ flag' = "done" /\ failed' = TRUE
    /\ Goto(t, "return") /\ passed' = [passed EXCEPT ![t] = TRUE]
    /\ UNCHANGED <<instance, built, made, result, throws, shutdown>>

New(t) ==
    /\ pc[t] = "new"
    /\ made' = made + 1 /\ Goto(t, "build")
    /\ UNCHANGED <<flag, instance, built, passed, result, failed, throws, shutdown>>

\* The constructor and the assignment of the pointer, in either order.
Construct(t) ==
    /\ pc[t] = "build" /\ ~built
    /\ built' = TRUE /\ UNCHANGED <<pc, flag, instance, made, passed, result, failed, throws, shutdown>>
Store(t) ==
    /\ pc[t] = "build" /\ ~instance
    /\ instance' = TRUE /\ UNCHANGED <<pc, flag, built, made, passed, result, failed, throws, shutdown>>

\* Slip: an exception leaves the flag taken.
ThrowKeepsFlag(t) ==
    /\ pc[t] = "build" /\ ~built /\ ~instance /\ throws < MaxThrow
    /\ throws' = throws + 1 /\ made' = made - 1
    /\ Goto(t, "out")
    /\ UNCHANGED <<flag, instance, built, passed, result, failed, shutdown>>

\* The constructor throws: the memory is freed, the exception leaves call_once,
\* which counts as not called, and Instance.
Throw(t) ==
    /\ pc[t] = "build" /\ ~built /\ ~instance /\ throws < MaxThrow
    /\ throws' = throws + 1 /\ made' = made - 1
    /\ flag' = "unset" /\ Goto(t, "out")
    /\ UNCHANGED <<instance, built, passed, result, failed, shutdown>>

Done(t) ==
    /\ pc[t] = "build" /\ built /\ instance
    /\ flag' = "done" /\ Goto(t, "return") /\ passed' = [passed EXCEPT ![t] = TRUE]
    /\ UNCHANGED <<instance, built, made, result, failed, throws, shutdown>>

\* return instance: the pointer is read once more
Return(t) ==
    /\ pc[t] = "return"
    /\ result' = [result EXCEPT ![t] = Given] /\ Goto(t, "out")
    /\ UNCHANGED <<flag, instance, built, made, passed, failed, throws, shutdown>>

\* CleanUp: Shutdown on what Instance(false) gave; the pointer stays.
CleanUp(t) ==
    /\ pc[t] = "out" /\ instance
    /\ shutdown' = TRUE
    /\ UNCHANGED <<pc, flag, instance, built, made, passed, result, failed, throws>>

Next ==
    \E t \in Thread :
        \/ \E create \in BOOLEAN : Instance(t, create)
        \/ Enter(t) \/ Pass(t) \/ NoMemory(t) \/ New(t) \/ Construct(t) \/ Store(t)
        \/ Throw(t) \/ Done(t) \/ Return(t) \/ CleanUp(t)

\* A thread inside Instance is scheduled until it returns.
Runs(t) ==
    \/ Enter(t) \/ Pass(t) \/ NoMemory(t) \/ New(t) \/ Construct(t) \/ Store(t)
    \/ Throw(t) \/ Done(t) \/ Return(t)
Spec == Init /\ [][Next]_vars
FairSpec == Spec /\ \A t \in Thread : WF_vars(Runs(t))

-----------------------------------------------------------------------------
TypeOK ==
    /\ pc \in [Thread -> {"out", "once", "new", "build", "return"}]
    /\ flag \in {"unset", "running", "done"}
    /\ {instance, built, failed, shutdown} \subseteq BOOLEAN
    /\ made \in 0..1 /\ throws \in Nat
    /\ passed \in [Thread -> BOOLEAN] /\ result \in [Thread -> {"null", "whole", "raw"}]

\* One thread at a time is in the function, and the pointer never leads anywhere
\* but to the one object there is, which CleanUp neither frees nor replaces.
OneObject ==
    /\ \A t, u \in Thread : pc[t] \in {"new", "build"} /\ pc[u] \in {"new", "build"} => t = u
    /\ made = 1 <=> (\E t \in Thread : pc[t] = "build") \/ instance
    /\ shutdown => instance

\* Who came through call_once gets the finished object, or nothing because there
\* was no memory; only the test in front of it can hand out an unfinished one.
PassedIsWhole ==
    \A t \in Thread : passed[t] =>
        /\ pc[t] = "return" => Given = IF failed THEN "null" ELSE "whole"
        /\ pc[t] = "out" => result[t] = IF failed THEN "null" ELSE "whole"

\* The first failure is final: nobody ever gets an object after it.
FailureIsFinal == failed => ~instance /\ made = 0

\* The singleton is one object, whole for whoever came through call_once, and
\* none for good after a failure.
OneWholeObject == OneObject /\ PassedIsWhole /\ FailureIsFinal

\* Every call of Instance comes back, with or without an exception.
InstanceReturns == \A t \in Thread : pc[t] # "out" ~> pc[t] = "out"
=============================================================================
