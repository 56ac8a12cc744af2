-------------------------- MODULE MzCoroutineProofs --------------------------
(***************************************************************************)
(* Safety of the MzCoroutine wrapper for any number of coroutines.         *)
(***************************************************************************)
EXTENDS MzCoroutine, TLAPS

Flows == Co \cup {Thread}
Contexts == Co \cup Mains

\* A flow is executing or suspended in one place, never in two, whichever
\* coroutine resumed it.
FlowsAreUnique ==
    \A x \in Contexts : saved[x] # NULL =>
        /\ saved[x] # flow
        /\ \A y \in Contexts \ {x} : saved[y] # saved[x]

\* The flow of a coroutine that is gone is nowhere.
FlowsExist ==
    \A c \in Co : flow = c \/ gtls = c \/ (\E x \in Contexts : saved[x] = c) => Exists(c)

\* Until the first resume nothing but the thread's own flow has run.
NothingRan == flow = Thread /\ \A m \in Mains : saved[m] = NULL

\* A coroutine returns to an existing context that is not its own: unless
\* coroutines were resumed across, to that of its creator, a coroutine, or to a
\* main coroutine if the thread itself constructed it.
ReturnsToCreator ==
    \A c \in Co : Exists(c) =>
        /\ mainCo[c] \in Co => Exists(mainCo[c])
        /\ ~crossed => /\ mainCo[c] # c
                       /\ creator[c] = IF mainCo[c] \in Co THEN mainCo[c] ELSE Thread

\* While every coroutine was resumed by its creator: the thread believes to be
\* in the coroutine that executes, or in none, and everybody else has its own
\* context.
OwnInv ==
    /\ gtls = NULL => NothingRan
    /\ ~crossed =>
        /\ IF flow \in Co THEN gtls = flow ELSE gtls \notin Co
        /\ \A c \in Co \ {flow} : Exists(c) => saved[c] = c
        /\ \A m \in Mains : saved[m] \in {Thread, NULL}

\* root[c] is the main coroutine at the end of the chain c returns along: the
\* thread's own flow waits in the root of the executing coroutine.
RootsOf(root) ==
    /\ \A c \in Co : Exists(c) =>
          /\ root[c] \in Mains
          /\ root[c] = IF mainCo[c] \in Mains THEN mainCo[c] ELSE root[mainCo[c]]
    /\ flow \in Co => saved[root[flow]] = Thread

RootInv == ~crossed => \E root \in [Co -> Contexts] : RootsOf(root)

\* updated_ is set before UpdateState ends a wait for data, and stays set.
FlagInv == \A c \in Co : wakes[c] \in 0 .. 1 /\ (wakes[c] = 1 => updated[c])

\* The inductive invariant.
IInv ==
    /\ TypeOK
    /\ FlowsAreUnique
    /\ FlowsExist
    /\ ReturnsToCreator
    /\ OwnInv
    /\ RootInv
    /\ FlagInv

-----------------------------------------------------------------------------
\* Every variable keeps its type.
LEMMA NextTypeOK ==
    ASSUME IInv, [Next]_vars
    PROVE  TypeOK'
<1> USE CoAssumption DEF IInv, TypeOK, FlowsExist, ReturnsToCreator, Flows, Contexts,
        Exists, CoState, Waiting, machine, flags
<1>1. ASSUME NEW c \in Co, Construct(c) PROVE TypeOK'
  BY <1>1 DEF Construct, ConstructUnder, Unused
<1>2. ASSUME NEW c \in Co, Destroy(c) PROVE TypeOK'
  BY <1>2 DEF Destroy
<1>3. ASSUME NEW c \in Co, Resume(c) PROVE TypeOK'
  <2>1. CASE stop[c] \/ state[c] # "READY"
    BY <1>3, <2>1 DEF Resume
  <2>2. CASE ~stop[c] /\ state[c] = "READY"
    <3>1. mainCo[c] \in Contexts /\ saved[c] \in Flows
      BY <1>3, <2>2 DEF Resume, SwapContexts
    <3>2. flow' \in Flows /\ saved' \in [Contexts -> Flows \cup {NULL}]
      BY <1>3, <2>2, <3>1 DEF Resume, SwapContexts
    <3>3. gtls' = c /\ crossed' \in BOOLEAN
      BY <1>3, <2>2 DEF Resume
    <3>4. UNCHANGED <<state, mainCo, creator, yielding, now, wake, updated, stop, wakes, aborted>>
      BY <1>3, <2>2 DEF Resume
    <3> QED
      BY <3>2, <3>3, <3>4
  <2> QED
    BY <2>1, <2>2
<1>4. ASSUME NEW s \in CoState, SetState(s) PROVE TypeOK'
  BY <1>4 DEF SetState
<1>5. CASE Return
  BY <1>5 DEF Return
<1>6. CASE Yield
  BY <1>6 DEF Yield, SwapContexts
<1>7. ASSUME NEW c \in Co, UpdateState(c) PROVE TypeOK'
  <2>1. UNCHANGED <<mainCo, gtls, flow, saved, creator, crossed, yielding, now, wake,
                    stop, aborted>>
    BY <1>7 DEF UpdateState
  <2>2. CASE GetUp(c)
    BY <1>7, <2>1, <2>2 DEF UpdateState, GetUp
  <2>3. CASE TestAndSet(c)
    <3>1. /\ updated' \in [Co -> BOOLEAN] /\ wakes' \in [Co -> Nat]
          /\ state' \in [Co -> CoState \cup {"none"}]
          /\ state' = state \/ state' = [state EXCEPT ![c] = "READY"]
      BY <2>3 DEF TestAndSet
    <3> QED
      BY <1>7, <2>1, <3>1 DEF UpdateState
  <2> QED
    BY <1>7, <2>2, <2>3 DEF UpdateState
<1>8. ASSUME NEW c \in Co, SetUpdateFlag(c) PROVE TypeOK'
  BY <1>8 DEF SetUpdateFlag
<1>9. ASSUME NEW c \in Co, Wake(c) PROVE TypeOK'
  BY <1>9 DEF Wake
<1>10. ASSUME NEW c \in Co, Stop(c) PROVE TypeOK'
  BY <1>10 DEF Stop
<1>11. CASE Tick
  BY <1>11 DEF Tick
<1>12. CASE UNCHANGED vars
  BY <1>12 DEF vars
<1> QED
  BY <1>1, <1>2, <1>3, <1>4, <1>5, <1>6, <1>7, <1>8, <1>9, <1>10, <1>11, <1>12
     DEF Next

\* A swap moves flows from place to place and duplicates none.
LEMMA NextFlows ==
    ASSUME IInv, [Next]_vars
    PROVE  (FlowsAreUnique' /\ FlowsExist')
<1> USE CoAssumption DEF IInv, TypeOK, FlowsAreUnique, FlowsExist, ReturnsToCreator,
        Flows, Contexts, Exists, CoState, machine, flags
<1>1. ASSUME NEW c \in Co, Construct(c) PROVE (FlowsAreUnique' /\ FlowsExist')
  BY <1>1 DEF Construct, ConstructUnder, Unused
<1>2. ASSUME NEW c \in Co, Destroy(c) PROVE (FlowsAreUnique' /\ FlowsExist')
  BY <1>2 DEF Destroy
<1>3. ASSUME NEW c \in Co, Resume(c) PROVE (FlowsAreUnique' /\ FlowsExist')
  BY <1>3 DEF Resume, SwapContexts
<1>4. ASSUME NEW s \in CoState, SetState(s) PROVE (FlowsAreUnique' /\ FlowsExist')
  BY <1>4 DEF SetState
<1>5. CASE Return
  BY <1>5 DEF Return
<1>6. CASE Yield
  BY <1>6 DEF Yield, SwapContexts
<1>7. ASSUME NEW c \in Co, UpdateState(c) PROVE (FlowsAreUnique' /\ FlowsExist')
  BY <1>7 DEF UpdateState, GetUp, TestAndSet
<1>8. ASSUME NEW c \in Co, SetUpdateFlag(c) PROVE (FlowsAreUnique' /\ FlowsExist')
  BY <1>8 DEF SetUpdateFlag
<1>9. ASSUME NEW c \in Co, Wake(c) PROVE (FlowsAreUnique' /\ FlowsExist')
  BY <1>9 DEF Wake
<1>10. ASSUME NEW c \in Co, Stop(c) PROVE (FlowsAreUnique' /\ FlowsExist')
  BY <1>10 DEF Stop
<1>11. CASE Tick
  BY <1>11 DEF Tick
<1>12. CASE UNCHANGED vars
  BY <1>12 DEF vars
<1> QED
  BY <1>1, <1>2, <1>3, <1>4, <1>5, <1>6, <1>7, <1>8, <1>9, <1>10, <1>11, <1>12
     DEF Next

\* A coroutine some other returns to is not destroyed.
LEMMA NextReturns ==
    ASSUME IInv, [Next]_vars
    PROVE  ReturnsToCreator'
<1> USE CoAssumption DEF IInv, TypeOK, FlowsExist, ReturnsToCreator, OwnInv,
        NothingRan, Flows, Contexts, Exists, CoState, machine, flags
<1>1. ASSUME NEW c \in Co, Construct(c) PROVE ReturnsToCreator'
  BY <1>1 DEF Construct, ConstructUnder, Unused
<1>2. ASSUME NEW c \in Co, Destroy(c) PROVE ReturnsToCreator'
  BY <1>2 DEF Destroy
<1>3. ASSUME NEW c \in Co, Resume(c) PROVE ReturnsToCreator'
  BY <1>3 DEF Resume, SwapContexts
<1>4. ASSUME NEW s \in CoState, SetState(s) PROVE ReturnsToCreator'
  BY <1>4 DEF SetState
<1>5. CASE Return
  BY <1>5 DEF Return
<1>6. CASE Yield
  BY <1>6 DEF Yield, SwapContexts
<1>7. ASSUME NEW c \in Co, UpdateState(c) PROVE ReturnsToCreator'
  BY <1>7 DEF UpdateState, GetUp, TestAndSet
<1>8. ASSUME NEW c \in Co, SetUpdateFlag(c) PROVE ReturnsToCreator'
  BY <1>8 DEF SetUpdateFlag
<1>9. ASSUME NEW c \in Co, Wake(c) PROVE ReturnsToCreator'
  BY <1>9 DEF Wake
<1>10. ASSUME NEW c \in Co, Stop(c) PROVE ReturnsToCreator'
  BY <1>10 DEF Stop
<1>11. CASE Tick
  BY <1>11 DEF Tick
<1>12. CASE UNCHANGED vars
  BY <1>12 DEF vars
<1> QED
  BY <1>1, <1>2, <1>3, <1>4, <1>5, <1>6, <1>7, <1>8, <1>9, <1>10, <1>11, <1>12
     DEF Next

\* Resume by the creator and Yield hand over between the flow and its creator.
LEMMA NextOwn ==
    ASSUME IInv, [Next]_vars
    PROVE  OwnInv'
<1> USE CoAssumption DEF IInv, TypeOK, FlowsExist, ReturnsToCreator, OwnInv,
        NothingRan, Flows, Contexts, Exists, CoState, machine, flags
<1>1. ASSUME NEW c \in Co, Construct(c) PROVE OwnInv'
  BY <1>1 DEF Construct, ConstructUnder, Unused
<1>2. ASSUME NEW c \in Co, Destroy(c) PROVE OwnInv'
  BY <1>2 DEF Destroy
<1>3. ASSUME NEW c \in Co, Resume(c) PROVE OwnInv'
  <2>1. CASE stop[c] \/ state[c] # "READY"
    BY <1>3, <2>1 DEF Resume
  <2>2. CASE ~stop[c] /\ state[c] = "READY"
    <3>0. gtls' = c /\ gtls' # NULL
      BY <1>3, <2>2 DEF Resume
    <3> SUFFICES ASSUME ~crossed' PROVE OwnInv'
      BY <3>0
    <3>1. ~crossed /\ flow = creator[c] /\ gtls' = c /\ UNCHANGED <<state, mainCo>>
      BY <1>3, <2>2 DEF Resume
    <3>2. mainCo[c] \in Contexts /\ c # flow /\ saved[c] = c
          /\ (mainCo[c] \in Co => mainCo[c] = flow) /\ (mainCo[c] \in Mains => flow = Thread)
      BY <1>3, <3>1 DEF Resume
    <3>3. flow' = c /\ saved' = [saved EXCEPT ![mainCo[c]] = flow, ![c] = NULL]
      BY <1>3, <2>2, <3>2 DEF Resume, SwapContexts
    <3> QED
      BY <3>1, <3>2, <3>3
  <2> QED
    BY <2>1, <2>2
<1>4. ASSUME NEW s \in CoState, SetState(s) PROVE OwnInv'
  BY <1>4 DEF SetState
<1>5. CASE Return
  BY <1>5 DEF Return
<1>6. CASE Yield
  BY <1>6 DEF Yield, SwapContexts
<1>7. ASSUME NEW c \in Co, UpdateState(c) PROVE OwnInv'
  BY <1>7 DEF UpdateState, GetUp, TestAndSet
<1>8. ASSUME NEW c \in Co, SetUpdateFlag(c) PROVE OwnInv'
  BY <1>8 DEF SetUpdateFlag
<1>9. ASSUME NEW c \in Co, Wake(c) PROVE OwnInv'
  BY <1>9 DEF Wake
<1>10. ASSUME NEW c \in Co, Stop(c) PROVE OwnInv'
  BY <1>10 DEF Stop
<1>11. CASE Tick
  BY <1>11 DEF Tick
<1>12. CASE UNCHANGED vars
  BY <1>12 DEF vars
<1> QED
  BY <1>1, <1>2, <1>3, <1>4, <1>5, <1>6, <1>7, <1>8, <1>9, <1>10, <1>11, <1>12
     DEF Next

\* A resume extends the chain of the executing coroutine by one, a yield goes
\* back along it: neither touches the context of its root, unless the thread
\* itself goes or comes.
LEMMA NextRoot ==
    ASSUME IInv, [Next]_vars
    PROVE  RootInv'
<1> USE CoAssumption DEF IInv, TypeOK, FlowsExist, ReturnsToCreator, OwnInv,
        NothingRan, RootsOf, Flows, Contexts, Exists, CoState, machine, flags
<1> SUFFICES ASSUME ~crossed' PROVE \E root \in [Co -> Contexts] : RootsOf(root)'
  BY DEF RootInv
<1>0. ~crossed
  BY DEF Next, Construct, ConstructUnder, Destroy, Resume, SetState, Return, Yield,
         UpdateState, GetUp, TestAndSet, SetUpdateFlag, Wake, Stop, Tick, vars
<1>r. PICK root \in [Co -> Contexts] : RootsOf(root)
  BY <1>0 DEF RootInv
<1>s. ASSUME UNCHANGED <<mainCo, flow, saved>>, \A c \in Co : Exists(c)' <=> Exists(c)
      PROVE  RootsOf(root)'
  BY <1>r, <1>s
<1>1. ASSUME NEW c \in Co, Construct(c) PROVE \E new \in [Co -> Contexts] : RootsOf(new)'
  <2>1. PICK main \in Contexts : ConstructUnder(c, main) /\ (main \in Co => Exists(main))
    BY <1>1 DEF Construct
  <2> DEFINE new == [root EXCEPT ![c] = IF main \in Mains THEN main ELSE root[main]]
  <2>2. new \in [Co -> Contexts] /\ \A d \in Co \ {c} : new[d] = root[d]
    BY <1>r, <2>1
  <2>3. new[c] = IF main \in Mains THEN main ELSE new[main]
    BY <1>r, <2>1, <2>2 DEF ConstructUnder
  <2>4. mainCo' = [mainCo EXCEPT ![c] = main] /\ flow' = flow /\ ~Exists(c)
        /\ saved' = [saved EXCEPT ![c] = c] /\ state' = [state EXCEPT ![c] = "READY"]
    BY <2>1 DEF ConstructUnder
  <2>5. ASSUME NEW d \in Co, Exists(d)'
        PROVE  /\ new[d] \in Mains
               /\ new[d] = IF mainCo'[d] \in Mains THEN mainCo'[d] ELSE new[mainCo'[d]]
    <3>1. CASE d = c
      <4>1. main \in Co => main # c /\ new[main] \in Mains
        BY <1>r, <2>1, <2>2, <2>4
      <4> QED
        BY <3>1, <4>1, <2>1, <2>3, <2>4
    <3>2. CASE d # c
      BY <3>2, <1>r, <2>2, <2>4, <2>5
    <3> QED
      BY <3>1, <3>2
  <2>6. flow' \in Co => saved'[new[flow']] = Thread
    BY <1>r, <2>2, <2>4
  <2> QED
    BY <2>2, <2>5, <2>6
<1>2. ASSUME NEW c \in Co, Destroy(c) PROVE RootsOf(root)'
  BY <1>0, <1>r, <1>2 DEF Destroy
<1>3. ASSUME NEW c \in Co, Resume(c) PROVE RootsOf(root)'
  <2>1. CASE stop[c] \/ state[c] # "READY"
    BY <1>s, <1>3, <2>1 DEF Resume
  <2>2. CASE ~stop[c] /\ state[c] = "READY"
    <3>1. flow = creator[c] /\ UNCHANGED <<state, mainCo>> /\ Exists(c)
      BY <1>3, <2>2 DEF Resume
    <3>2. /\ mainCo[c] \in Contexts /\ c # flow /\ saved[c] = c
          /\ mainCo[c] \in Co => mainCo[c] = flow
          /\ mainCo[c] \in Mains => flow = Thread
      BY <1>0, <3>1
    <3>3. flow' = c /\ saved' = [saved EXCEPT ![mainCo[c]] = flow, ![c] = NULL]
      BY <1>3, <2>2, <3>2 DEF Resume, SwapContexts
    <3>4. saved'[root[c]] = Thread
      <4>1. CASE mainCo[c] \in Mains
        BY <1>r, <3>1, <3>2, <3>3, <4>1
      <4>2. CASE mainCo[c] \in Co
        BY <1>r, <3>1, <3>2, <3>3, <4>2
      <4> QED
        BY <3>2, <4>1, <4>2
    <3> QED
      BY <1>r, <3>1, <3>3, <3>4
  <2> QED
    BY <2>1, <2>2
<1>4. ASSUME NEW s \in CoState, SetState(s) PROVE RootsOf(root)'
  BY <1>s, <1>4 DEF SetState
<1>5. CASE Return
  BY <1>s, <1>5 DEF Return
<1>6. ASSUME Yield PROVE RootsOf(root)'
  <2>1. gtls = flow /\ flow \in Co /\ Exists(flow) /\ mainCo[flow] \in Contexts
    BY <1>0, <1>6 DEF Yield
  <2>2. /\ flow' = saved[mainCo[flow]] /\ UNCHANGED <<state, mainCo>>
        /\ saved' = [saved EXCEPT ![flow] = flow, ![mainCo[flow]] = NULL]
    BY <1>6, <2>1 DEF Yield, SwapContexts
  <2>3. flow' \in Co => saved'[root[flow']] = Thread
    <3>1. CASE mainCo[flow] \in Mains
      BY <1>0, <2>1, <2>2, <3>1
    <3>2. CASE mainCo[flow] \in Co
      <4>1. flow' = mainCo[flow] /\ root[flow] = root[flow']
        BY <1>0, <1>r, <2>1, <2>2, <3>2
      <4> QED
        BY <1>0, <1>r, <2>1, <2>2, <3>2, <4>1
    <3> QED
      BY <2>1, <3>1, <3>2
  <2> QED
    BY <1>r, <2>2, <2>3
<1>7. ASSUME NEW c \in Co, UpdateState(c) PROVE RootsOf(root)'
  BY <1>s, <1>7 DEF UpdateState, GetUp, TestAndSet, Waiting
<1>8. ASSUME NEW c \in Co, SetUpdateFlag(c) PROVE RootsOf(root)'
  BY <1>s, <1>8 DEF SetUpdateFlag
<1>9. ASSUME NEW c \in Co, Wake(c) PROVE RootsOf(root)'
  BY <1>s, <1>9 DEF Wake
<1>10. ASSUME NEW c \in Co, Stop(c) PROVE RootsOf(root)'
  BY <1>s, <1>10 DEF Stop
<1>11. ASSUME Tick PROVE RootsOf(root)'
  BY <1>s, <1>11 DEF Tick
<1>12. ASSUME UNCHANGED vars PROVE RootsOf(root)'
  BY <1>s, <1>12 DEF vars
<1> QED
  BY <1>r, <1>1, <1>2, <1>3, <1>4, <1>5, <1>6, <1>7, <1>8, <1>9, <1>10, <1>11, <1>12
     DEF Next

\* The flag is cleared by the destructor only, with the count.
LEMMA NextFlags ==
    ASSUME IInv, [Next]_vars
    PROVE  FlagInv'
<1> USE CoAssumption DEF IInv, TypeOK, FlagInv, Exists, CoState, machine, flags
<1>1. ASSUME NEW c \in Co, Construct(c) PROVE FlagInv'
  BY <1>1 DEF Construct, ConstructUnder, Unused
<1>2. ASSUME NEW c \in Co, Destroy(c) PROVE FlagInv'
  BY <1>2 DEF Destroy
<1>3. ASSUME NEW c \in Co, Resume(c) PROVE FlagInv'
  BY <1>3 DEF Resume, SwapContexts
<1>4. ASSUME NEW s \in CoState, SetState(s) PROVE FlagInv'
  BY <1>4 DEF SetState
<1>5. CASE Return
  BY <1>5 DEF Return
<1>6. CASE Yield
  BY <1>6 DEF Yield, SwapContexts
<1>7. ASSUME NEW c \in Co, UpdateState(c) PROVE FlagInv'
  BY <1>7 DEF UpdateState, GetUp, TestAndSet
<1>8. ASSUME NEW c \in Co, SetUpdateFlag(c) PROVE FlagInv'
  BY <1>8 DEF SetUpdateFlag
<1>9. ASSUME NEW c \in Co, Wake(c) PROVE FlagInv'
  BY <1>9 DEF Wake
<1>10. ASSUME NEW c \in Co, Stop(c) PROVE FlagInv'
  BY <1>10 DEF Stop
<1>11. CASE Tick
  BY <1>11 DEF Tick
<1>12. CASE UNCHANGED vars
  BY <1>12 DEF vars
<1> QED
  BY <1>1, <1>2, <1>3, <1>4, <1>5, <1>6, <1>7, <1>8, <1>9, <1>10, <1>11, <1>12
     DEF Next

\* The inductive invariant holds in every reachable state.
THEOREM Invariance == Spec => []IInv
<1>1. Init => IInv
  <2> SUFFICES ASSUME Init PROVE IInv
    OBVIOUS
  <2> USE CoAssumption DEF Init
  <2>1. TypeOK
    <3>1. /\ updated \in [Co -> BOOLEAN] /\ stop \in [Co -> BOOLEAN]
          /\ aborted \in BOOLEAN /\ crossed \in BOOLEAN
      OBVIOUS
    <3>2. /\ now \in 0 .. MaxTime /\ wake \in [Co -> 0 .. MaxTime]
          /\ wakes \in [Co -> Nat]
      OBVIOUS
    <3>3. \A c \in Co : Exists(c) <=> mainCo[c] # NULL
      BY DEF Exists
    <3> QED
      BY <3>1, <3>2, <3>3 DEF TypeOK
  <2>2. FlowsAreUnique /\ FlowsExist /\ ReturnsToCreator /\ OwnInv
    BY DEF FlowsAreUnique, FlowsExist, ReturnsToCreator, OwnInv, NothingRan, Flows, Contexts, Exists
  <2>3. \A c \in Co : wakes[c] = 0
    OBVIOUS
  <2>4. FlagInv
    <3>1. 0 \in 0 .. 1 /\ 0 # 1
      OBVIOUS
    <3> QED
      BY <2>3, <3>1, Zenon DEF FlagInv
  <2>5. RootInv
    <3> DEFINE root == [c \in Co |-> c]
    <3>1. root \in [Co -> Contexts] /\ RootsOf(root)
      BY DEF Contexts, RootsOf, Exists
    <3> QED
      BY <3>1 DEF RootInv
  <2> QED
    BY <2>1, <2>2, <2>4, <2>5 DEF IInv
<1>2. IInv /\ [Next]_vars => IInv'
  BY NextTypeOK, NextFlows, NextReturns, NextOwn, NextRoot, NextFlags DEF IInv
<1> QED
  BY <1>1, <1>2, PTL DEF Spec

\* The wrapper's variables keep their types; an object exists exactly while it
\* has a main_co_.
THEOREM CoroutineTypes == Spec => []TypeOK
<1>1. IInv => TypeOK
  BY DEF IInv
<1> QED
  BY <1>1, Invariance, PTL

\* As long as each coroutine is resumed by the flow that constructed it, however
\* deep they are nested and however many main coroutines the constructors made
\* before the first resume: the thread knows where it is, the executing
\* coroutine can go back, and every other one has its own context.
THEOREM ContextsAreOwn == Spec => []OwnContext
<1>1. IInv => OwnContext
  <2> SUFFICES ASSUME IInv, ~crossed PROVE OwnContext
    BY DEF OwnContext
  <2> USE CoAssumption DEF IInv, TypeOK, FlowsExist, ReturnsToCreator, OwnInv, Contexts, Exists
  <2>1. ASSUME flow \in Co PROVE saved[mainCo[flow]] # NULL
    <3>1. Exists(flow) /\ mainCo[flow] \in Contexts
      BY <2>1
    <3>2. CASE mainCo[flow] \in Co
      BY <2>1, <3>1, <3>2
    <3>3. CASE mainCo[flow] \in Mains
      <4>1. PICK root \in [Co -> Contexts] : RootsOf(root)
        BY DEF RootInv
      <4> QED
        BY <2>1, <3>1, <3>3, <4>1 DEF RootsOf
    <3> QED
      BY <3>1, <3>2, <3>3
  <2> QED
    BY <2>1 DEF OwnContext
<1> QED
  BY <1>1, Invariance, PTL

\* A coroutine's wait for data is ended by UpdateState once in its life.
THEOREM UpdatesOnce == Spec => []OneUpdate
<1>1. IInv => OneUpdate
  <2> SUFFICES ASSUME IInv, NEW c \in Co PROVE wakes[c] <= 1
    BY DEF OneUpdate
  <2>1. wakes[c] \in 0 .. 1
    BY DEF IInv, FlagInv
  <2> QED
    BY <2>1
<1> QED
  BY <1>1, Invariance, PTL
=============================================================================
