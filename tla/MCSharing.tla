------------------------------ MODULE MCSharing -----------------------------
(***************************************************************************)
(* What threads and libraries share without a lock of their own, for TLC:  *)
(* an entity id that is compared, a singleton, and the code of component   *)
(* libraries.  A behaviour stays in one part, chosen in its initial state; *)
(* the other parts stay as they begin.                                     *)
(***************************************************************************)
EXTENDS EntityId

CONSTANTS Callers, MaxThrow,
          Library, Name, Holder, NameOf(_), None, MaxLoads, MaxRefs

VARIABLES
    part,
    stage, flag, instance, built, made, passed, given, failed, throws, shutdown,
    path, handle, refs, components, opens, closes, overclosed, leaked, unregistered,
    later, forgotten, crashed

ASSUME LibraryAssumption ==
    /\ IsFiniteSet(Holder) /\ MaxLoads \in Nat \ {0}
    /\ None \notin Library /\ \A l \in Library : NameOf(l) \in Name

Single == INSTANCE Singleton WITH Thread <- Callers, pc <- stage, result <- given
Libraries == INSTANCE ComponentLibrary

calls == <<stage, flag, instance, built, made, passed, given, failed, throws, shutdown>>
loads == <<path, handle, refs, components, opens, closes, overclosed, leaked, unregistered,
           later, forgotten, crashed>>
parts == <<part, vars, calls, loads>>

\* A user's writer and a built-in participant.
SomeIds == {<<0, 1, 2, 194>>, <<0, 1, 0, 199>>}
\* Two libraries that register the same component.
SameName(l) == "planning"

PartsInit ==
    /\ part \in {"entity id", "singleton", "library"}
    /\ Init /\ Single!Init /\ Libraries!Init

PartsNext ==
    /\ UNCHANGED part
    /\ \/ part = "entity id" /\ Next /\ UNCHANGED <<calls, loads>>
       \/ part = "singleton" /\ Single!Next /\ UNCHANGED <<vars, loads>>
       \/ part = "library" /\ Libraries!Next /\ UNCHANGED <<vars, calls>>

\* A thread inside Instance is scheduled until it returns.
Scheduled(t) == part = "singleton" /\ Single!Runs(t) /\ UNCHANGED <<part, vars, loads>>
FairPartsSpec == PartsInit /\ [][PartsNext]_parts /\ \A t \in Callers : WF_parts(Scheduled(t))

-----------------------------------------------------------------------------
\* However threads race for Instance, and whatever the constructor and the
\* allocator do, there is one whole object or, after a failure, none.
OneSingleton == Single!OneWholeObject

\* Every call of Instance comes back, with an exception or without.
InstanceReturns == Single!InstanceReturns

\* Code stays as long as a SharedLibrary object that has not closed too often
\* still has it open, references are counted exactly as long as loads and unloads
\* pair, the entry for a loaded library's name is its own or that of a library of
\* the same name loaded after it, and code that is gone is called only if a name
\* was not unregistered before the code went.
LibraryKept ==
    /\ Libraries!TypeOK /\ Libraries!RefsAreHolders
    /\ Libraries!HolderKeepsLibrary
    /\ Libraries!LoadedIsEntered /\ Libraries!UnregisteredFirst
=============================================================================
