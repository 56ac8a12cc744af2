----------------------------- MODULE MzCoProofs -----------------------------
(***************************************************************************)
(* Proofs about MzCo, for any number of coroutines, stacks and words and   *)
(* any stack and buffer sizes: its invariants, and that it implements      *)
(* PrivateStacks.                                                          *)
(***************************************************************************)
EXTENDS MzCo, TLAPS

\* The main coroutine and the stack of a coroutine outlive it.
PartsExist ==
    \A c \in live : main_co[c] \in mains /\ share_stack[c] \in stacks

\* The inductive invariant.
IInv ==
    /\ TypeOK
    /\ PartsExist
    /\ OwnerIsLive
    /\ RunningOwnsStack
    /\ SavedImageComplete
    /\ CopiedBackOnce

-----------------------------------------------------------------------------
\* A copied image is an image.
LEMMA CopyOverType ==
    ASSUME NEW base \in Image, NEW img \in Image, NEW n
    PROVE  CopyOver(base, img, n) \in Image
  BY DEF CopyOver, Image

\* So is the image nobody wrote.
LEMMA NoImageType == NoImage \in Image
  BY DEF NoImage, Image

\* A grown buffer has room for what must be saved.
LEMMA GrownEnough ==
    ASSUME NEW sz \in Nat, NEW need \in Nat, NEW n \in GrownSizes(sz, need)
    PROVE  n \in Nat /\ need <= n
  BY DEF GrownSizes

\* The invariant holds initially.
LEMMA InitIInv == Init => IInv
  <1> SUFFICES ASSUME Init PROVE IInv
    OBVIOUS
  <1>1. TypeOK
    <2>1. 0 \in Depth
      BY ParamAssumption DEF Depth
    <2>2. cpu \in [co : Co \cup {NULL}, sp : Depth]
      BY <2>1 DEF Init
    <2>3. /\ main_co \in [Co -> Main \cup {NULL}]
          /\ share_stack \in [Co -> Stack \cup {NULL}]
          /\ owner \in [Stack -> Co \cup {NULL}]
          /\ mz_gtls_co \in Co \cup Main \cup {NULL}
          /\ is_end \in [Co -> BOOLEAN]
          /\ aborted \in BOOLEAN
      BY DEF Init
    <2>4. /\ reg_sp \in [Co -> Depth]
          /\ save_sz \in [Co -> Nat]
          /\ valid_sz \in [Co -> Depth]
          /\ ct_diff \in [Co -> Int]
          /\ align_validsz \in [Stack -> Nat]
      BY <2>1, ParamAssumption DEF Init
    <2>5. save_data \in [Co -> Image] /\ mem \in [Stack -> Image]
      BY NoImageType DEF Init
    <2>6. QED
      BY <2>2, <2>3, <2>4, <2>5 DEF Init, TypeOK
  <1>2. QED
    BY <1>1, ParamAssumption DEF Init, IInv, PartsExist, OwnerIsLive, RunningOwnsStack,
       SavedImageComplete, CopiedBackOnce

-----------------------------------------------------------------------------
(* One lemma per action: the action preserves the invariant.               *)

\* A new stack has no owner.
LEMMA NewStackStep ==
    ASSUME IInv, NEW s \in Stack, ShareStackNew(s)
    PROVE  IInv'
  <1> USE DEF ShareStackNew, coVars, saveVars
  <1>1. TypeOK'
    BY NoImageType DEF IInv, TypeOK
  <1>2. PartsExist' /\ OwnerIsLive'
    BY DEF IInv, TypeOK, PartsExist, OwnerIsLive
  <1>3. RunningOwnsStack'
    BY DEF IInv, TypeOK, RunningOwnsStack, PartsExist
  <1>4. SavedImageComplete' /\ CopiedBackOnce'
    BY DEF IInv, TypeOK, SavedImageComplete, CopiedBackOnce, Evicted, PartsExist
  <1>5. QED
    BY <1>1, <1>2, <1>3, <1>4 DEF IInv

\* A stack that is destroyed has no coroutine left, hence no owner.
LEMMA DestroyStackStep ==
    ASSUME IInv, NEW s \in Stack, ShareStackDestory(s)
    PROVE  IInv'
  <1> USE DEF ShareStackDestory, coVars, saveVars, stackVars
  <1>1. TypeOK'
    BY NoImageType DEF IInv, TypeOK
  <1>2. PartsExist' /\ OwnerIsLive'
    BY DEF IInv, TypeOK, PartsExist, OwnerIsLive
  <1>3. RunningOwnsStack'
    BY DEF IInv, TypeOK, RunningOwnsStack, PartsExist
  <1>4. SavedImageComplete' /\ CopiedBackOnce'
    BY DEF IInv, TypeOK, SavedImageComplete, CopiedBackOnce, Evicted
  <1>5. QED
    BY <1>1, <1>2, <1>3, <1>4 DEF IInv

\* Main coroutines come and go without touching anything else.
LEMMA MainStepLemma ==
    ASSUME IInv, NEW m \in Main, CreateMain(m) \/ DestoryMain(m)
    PROVE  IInv'
  <1> USE DEF CreateMain, DestoryMain, InMain, coVars, saveVars, stackVars
  <1>1. TypeOK'
    BY DEF IInv, TypeOK
  <1>2. PartsExist' /\ OwnerIsLive'
    BY DEF IInv, TypeOK, PartsExist, OwnerIsLive
  <1>3. RunningOwnsStack'
    BY DEF IInv, TypeOK, RunningOwnsStack
  <1>4. SavedImageComplete' /\ CopiedBackOnce'
    BY DEF IInv, TypeOK, SavedImageComplete, CopiedBackOnce, Evicted
  <1>5. QED
    BY <1>1, <1>2, <1>3, <1>4 DEF IInv

\* A new coroutine is not evicted of anything: its image is empty.
LEMMA CreateStep ==
    ASSUME IInv, NEW c \in Co, NEW m \in Main, NEW s \in Stack, Create(c, m, s)
    PROVE  IInv'
  <1> USE DEF Create, ClearCo, stackVars
  <1>1. TypeOK'
    BY NoImageType, ParamAssumption DEF IInv, TypeOK, Depth
  <1>2. PartsExist'
    BY DEF IInv, TypeOK, PartsExist
  <1>3. OwnerIsLive'
    BY DEF IInv, TypeOK, OwnerIsLive
  <1>4. RunningOwnsStack'
    BY DEF IInv, TypeOK, RunningOwnsStack
  <1>5. SavedImageComplete'
    BY ParamAssumption DEF IInv, TypeOK, SavedImageComplete, Evicted
  <1>6. CopiedBackOnce'
    <2> SUFFICES ASSUME NEW d \in live'
                 PROVE  ct_diff'[d] = IF Evicted(d)' THEN Copied(valid_sz[d])' ELSE 0
      BY DEF CopiedBackOnce
    <2>1. CASE d = c
      BY <2>1 DEF IInv, TypeOK, Copied
    <2>2. CASE d # c
      BY <2>2 DEF IInv, TypeOK, CopiedBackOnce, Evicted, Copied
    <2>3. QED
      BY <2>1, <2>2
  <1>7. QED
    BY <1>1, <1>2, <1>3, <1>4, <1>5, <1>6 DEF IInv

\* mz_destory leaves no dangling owner.
LEMMA DestroyStep ==
    ASSUME IInv, NEW c \in Co, Destory(c)
    PROVE  IInv'
  <1> USE DEF Destory, ReleaseStack, ClearCo, stackVars
  <1>1. TypeOK'
    BY NoImageType, ParamAssumption DEF IInv, TypeOK, Depth
  <1>2. PartsExist'
    BY DEF IInv, TypeOK, PartsExist
  <1>3. OwnerIsLive'
    BY ParamAssumption DEF IInv, TypeOK, PartsExist, OwnerIsLive
  <1>4. RunningOwnsStack'
    BY ParamAssumption DEF IInv, TypeOK, PartsExist, RunningOwnsStack
  <1>5. \A d \in live' : d # c /\ (Evicted(d)' <=> Evicted(d))
    BY ParamAssumption DEF IInv, TypeOK, PartsExist, OwnerIsLive, Evicted
  <1>6. SavedImageComplete' /\ CopiedBackOnce'
    BY <1>5 DEF IInv, TypeOK, SavedImageComplete, CopiedBackOnce, Copied
  <1>7. QED
    BY <1>1, <1>2, <1>3, <1>4, <1>6 DEF IInv

\* Resuming the owner of a stack copies nothing.
LEMMA ResumeOwnerStep ==
    ASSUME IInv, NEW c \in Co, ResumeOwner(c)
    PROVE  IInv'
  <1> USE DEF ResumeOwner, Resumable, InMain, SwitchTo, coVars, saveVars, stackVars
  <1>1. TypeOK'
    BY DEF IInv, TypeOK
  <1>2. PartsExist' /\ OwnerIsLive'
    BY DEF IInv, TypeOK, PartsExist, OwnerIsLive
  <1>3. RunningOwnsStack'
    BY DEF IInv, TypeOK, PartsExist, RunningOwnsStack
  <1>4. SavedImageComplete' /\ CopiedBackOnce'
    BY DEF IInv, TypeOK, SavedImageComplete, CopiedBackOnce, Evicted
  <1>5. QED
    BY <1>1, <1>2, <1>3, <1>4 DEF IInv

\* The image of c is put back on a stack without an owner.
LEMMA ResumeFreeStep ==
    ASSUME IInv, NEW c \in Co, ResumeFree(c)
    PROVE  IInv'
  <1> DEFINE s == share_stack[c]
  <1> USE DEF ResumeFree, Resumable, InMain, SwitchTo, Restore, coVars, saveVars
  <1>s. s \in Stack
    BY DEF IInv, TypeOK, PartsExist
  <1>1. TypeOK'
    <2>1. CopyOver(mem[s], save_data[c], valid_sz[c]) \in Image
      BY <1>s, CopyOverType DEF IInv, TypeOK
    <2>2. mem' \in [Stack -> Image]
      BY <2>1 DEF IInv, TypeOK
    <2>3. ct_diff' \in [Co -> Int]
      BY DEF IInv, TypeOK, Copied
    <2>4. align_validsz' \in [Stack -> Nat]
      BY <1>s DEF IInv, TypeOK, Depth
    <2>5. QED
      BY <2>2, <2>3, <2>4 DEF IInv, TypeOK
  <1>2. PartsExist'
    BY DEF IInv, TypeOK, PartsExist
  <1>3. OwnerIsLive'
    BY <1>s, ParamAssumption DEF IInv, TypeOK, PartsExist, OwnerIsLive, Depth
  <1>4. RunningOwnsStack'
    BY <1>s DEF IInv, TypeOK, PartsExist, RunningOwnsStack
  <1>5. \A d \in live' : d \in live /\ (Evicted(d)' <=> Evicted(d) /\ d # c)
    BY <1>s, ParamAssumption DEF IInv, TypeOK, PartsExist, OwnerIsLive, Evicted
  <1>6. SavedImageComplete'
    BY <1>5 DEF IInv, TypeOK, SavedImageComplete
  <1>7. CopiedBackOnce'
    <2>1. Evicted(c)
      BY ParamAssumption DEF Evicted
    <2>2. QED
      BY <1>5, <2>1 DEF IInv, TypeOK, CopiedBackOnce, Copied
  <1>8. QED
    BY <1>1, <1>2, <1>3, <1>4, <1>6, <1>7 DEF IInv

\* The coroutine o that owned the stack is saved, c is put back.
LEMMA ResumeEvictStep ==
    ASSUME IInv, NEW c \in Co, NEW o \in Co, NEW n, ResumeEvict(c, o, n)
    PROVE  IInv'
  <1> DEFINE s == share_stack[c]
  <1> USE DEF ResumeEvict, Resumable, InMain, SwitchTo, Restore, SaveOwner, OwnerFits,
              UsedBy, coVars
  <1>s. s \in Stack /\ s = share_stack[o] /\ o \in live /\ ~is_end[o] /\ ~is_end[c]
    BY ParamAssumption DEF IInv, TypeOK, PartsExist, OwnerIsLive
  <1>n. n \in Nat /\ reg_sp[o] <= n
    BY GrownEnough DEF IInv, TypeOK, Depth
  <1>1. TypeOK'
    <2>1. CopyOver(mem[s], save_data[c], valid_sz[c]) \in Image
      BY <1>s, CopyOverType DEF IInv, TypeOK
    <2>2. CopyOver(NoImage, mem[s], reg_sp[o]) \in Image
      BY <1>s, CopyOverType, NoImageType DEF IInv, TypeOK
    <2>3. mem' \in [Stack -> Image] /\ save_data' \in [Co -> Image]
      BY <1>s, <2>1, <2>2 DEF IInv, TypeOK
    <2>4. ct_diff' \in [Co -> Int]
      BY DEF IInv, TypeOK, Copied
    <2>5. align_validsz' \in [Stack -> Nat]
      BY <1>s DEF IInv, TypeOK, Depth
    <2>6. valid_sz' \in [Co -> Depth] /\ save_sz' \in [Co -> Nat]
      BY <1>n DEF IInv, TypeOK
    <2>7. QED
      BY <2>3, <2>4, <2>5, <2>6 DEF IInv, TypeOK
  <1>2. PartsExist'
    BY DEF IInv, TypeOK, PartsExist
  <1>3. OwnerIsLive'
    BY <1>s, ParamAssumption DEF IInv, TypeOK, PartsExist, OwnerIsLive, Depth
  <1>4. RunningOwnsStack'
    BY <1>s DEF IInv, TypeOK, PartsExist, RunningOwnsStack
  <1>5. \A d \in live' : /\ d \in live
                         /\ d \notin {c, o} => (Evicted(d)' <=> Evicted(d))
    BY <1>s, ParamAssumption DEF IInv, TypeOK, PartsExist, OwnerIsLive, Evicted
  <1>6. ~Evicted(c)' /\ Evicted(o)' /\ Evicted(c) /\ ~Evicted(o)
    BY <1>s DEF IInv, TypeOK, Evicted
  <1>7. SavedImageComplete'
    <2> SUFFICES ASSUME NEW d \in live'
                 PROVE  /\ valid_sz'[d] <= save_sz'[d]
                        /\ valid_sz'[d] <= Limit
                        /\ Evicted(d)' => valid_sz'[d] = reg_sp'[d]
      BY DEF SavedImageComplete
    <2>1. CASE d = o
      BY <2>1, <1>n, <1>s DEF IInv, TypeOK
    <2>2. CASE d # o
      BY <2>2, <1>5, <1>6 DEF IInv, TypeOK, SavedImageComplete
    <2>3. QED
      BY <2>1, <2>2
  <1>8. CopiedBackOnce'
    <2> SUFFICES ASSUME NEW d \in live'
                 PROVE  ct_diff'[d] = IF Evicted(d)' THEN Copied(valid_sz'[d]) ELSE 0
      BY DEF CopiedBackOnce, Copied
    <2>1. CASE d = o
      BY <2>1, <1>s, <1>6 DEF IInv, TypeOK, CopiedBackOnce, Copied
    <2>2. CASE d = c
      BY <2>2, <1>6 DEF IInv, TypeOK, CopiedBackOnce, Copied
    <2>3. CASE d \notin {c, o}
      BY <2>3, <1>5 DEF IInv, TypeOK, CopiedBackOnce, Copied
    <2>4. QED
      BY <2>1, <2>2, <2>3
  <1>9. QED
    BY <1>1, <1>2, <1>3, <1>4, <1>7, <1>8 DEF IInv

\* A failed assertion, or a return from the entry function, changes nothing else.
LEMMA AbortStep ==
    ASSUME IInv, Return \/ \E c \in Co : ResumeAbort(c)
    PROVE  IInv'
  <1>1. aborted' = TRUE /\ UNCHANGED <<mains, stacks, live, main_co, share_stack,
          is_end, reg_sp, save_sz, valid_sz, save_data, ct_diff, owner,
          align_validsz, mem, mz_gtls_co, cpu>>
    BY DEF Return, ResumeAbort, coVars, saveVars, stackVars
  <1>2. TypeOK' /\ PartsExist' /\ OwnerIsLive' /\ RunningOwnsStack'
    BY <1>1 DEF IInv, TypeOK, PartsExist, OwnerIsLive, RunningOwnsStack
  <1>3. SavedImageComplete' /\ CopiedBackOnce'
    BY <1>1 DEF IInv, SavedImageComplete, CopiedBackOnce, Evicted
  <1>4. QED
    BY <1>2, <1>3 DEF IInv

\* The executing coroutine changes its own stack and depth only.
LEMMA RunStep ==
    ASSUME IInv, NEW d \in Pos, NEW w \in Word, Run(d, w)
    PROVE  IInv'
  <1> USE DEF Run, coVars, saveVars, stackVars
  <1>1. TypeOK'
    <2>1. cpu' \in [co : Co \cup {NULL}, sp : Depth]
      BY DEF IInv, TypeOK, Pos, Depth
    <2>2. mem' \in [Stack -> Image]
      BY DEF IInv, TypeOK, Image
    <2>3. QED
      BY <2>1, <2>2 DEF IInv, TypeOK
  <1>2. PartsExist' /\ OwnerIsLive'
    BY DEF IInv, TypeOK, PartsExist, OwnerIsLive
  <1>3. RunningOwnsStack'
    BY DEF IInv, TypeOK, RunningOwnsStack
  <1>4. SavedImageComplete' /\ CopiedBackOnce'
    BY DEF IInv, SavedImageComplete, CopiedBackOnce, Evicted
  <1>5. QED
    BY <1>1, <1>2, <1>3, <1>4 DEF IInv

\* mz_yield records the depth of the owner.
LEMMA YieldStep ==
    ASSUME IInv, Yield
    PROVE  IInv'
  <1> USE DEF Yield, SwitchToMain, coVars, saveVars, stackVars
  <1>c. mz_gtls_co \in Co /\ mz_gtls_co \in live /\ ~Evicted(mz_gtls_co)
    BY DEF IInv, TypeOK, RunningOwnsStack, Evicted
  <1>1. TypeOK'
    BY <1>c, ParamAssumption DEF IInv, TypeOK, Depth
  <1>2. PartsExist' /\ OwnerIsLive'
    BY DEF IInv, TypeOK, PartsExist, OwnerIsLive
  <1>3. RunningOwnsStack'
    BY DEF RunningOwnsStack
  <1>4. SavedImageComplete' /\ CopiedBackOnce'
    BY <1>c DEF IInv, TypeOK, SavedImageComplete, CopiedBackOnce, Evicted
  <1>5. QED
    BY <1>1, <1>2, <1>3, <1>4 DEF IInv

\* mz_exit leaves the stack without an owner and the coroutine over.
LEMMA ExitStep ==
    ASSUME IInv, Exit
    PROVE  IInv'
  <1> USE DEF Exit, SwitchToMain, saveVars
  <1>c. mz_gtls_co \in Co /\ mz_gtls_co \in live /\ share_stack[mz_gtls_co] \in Stack
    BY DEF IInv, TypeOK, PartsExist, RunningOwnsStack
  <1>1. TypeOK'
    BY <1>c, ParamAssumption DEF IInv, TypeOK, Depth
  <1>2. PartsExist' /\ OwnerIsLive'
    BY <1>c, ParamAssumption DEF IInv, TypeOK, PartsExist, OwnerIsLive
  <1>3. RunningOwnsStack'
    BY DEF RunningOwnsStack
  <1>4. \A d \in live' : d \in live /\ (Evicted(d)' <=> Evicted(d))
    BY <1>c, ParamAssumption DEF IInv, TypeOK, PartsExist, OwnerIsLive, Evicted
  <1>5. ~Evicted(mz_gtls_co)
    BY DEF Evicted
  <1>6. SavedImageComplete' /\ CopiedBackOnce'
    BY <1>c, <1>4, <1>5 DEF IInv, TypeOK, SavedImageComplete, CopiedBackOnce, Copied
  <1>7. QED
    BY <1>1, <1>2, <1>3, <1>6 DEF IInv

\* Every step preserves the invariant: one step per action.
LEMMA NextIInv == IInv /\ [Next]_vars => IInv'
  <1> SUFFICES ASSUME IInv, [Next]_vars PROVE IInv'
    OBVIOUS
  <1>1. CASE MainStep
    BY <1>1, NewStackStep, DestroyStackStep, MainStepLemma, CreateStep, DestroyStep,
       ResumeOwnerStep, ResumeFreeStep, ResumeEvictStep, AbortStep DEF MainStep
  <1>2. CASE CoStep
    BY <1>2, RunStep, YieldStep, ExitStep, AbortStep DEF CoStep
  <1>3. CASE UNCHANGED vars
    <2>1. TypeOK' /\ PartsExist' /\ OwnerIsLive' /\ RunningOwnsStack'
      BY <1>3 DEF vars, IInv, TypeOK, PartsExist, OwnerIsLive, RunningOwnsStack
    <2>2. SavedImageComplete' /\ CopiedBackOnce'
      BY <1>3 DEF vars, IInv, SavedImageComplete, CopiedBackOnce, Evicted
    <2>3. QED
      BY <2>1, <2>2 DEF IInv
  <1>4. QED
    BY <1>1, <1>2, <1>3 DEF Next, Gone

-----------------------------------------------------------------------------
\* Every reachable state of the runtime satisfies the inductive invariant.
THEOREM Invariance == Spec => []IInv
  <1>1. QED
    BY InitIInv, NextIInv, PTL DEF Spec

\* The values of all fields keep their types.
THEOREM TypeCorrect == Spec => []TypeOK
  <1>1. IInv => TypeOK
    BY DEF IInv
  <1>2. QED
    BY <1>1, Invariance, PTL

\* mz_share_stack_t.owner never dangles: it is NULL or a live coroutine of
\* that stack that has not called mz_exit.
THEOREM OwnerNeverDangles == Spec => []OwnerIsLive
  <1>1. IInv => OwnerIsLive
    BY DEF IInv
  <1>2. QED
    BY <1>1, Invariance, PTL

\* The executing coroutine owns its stack and is the one mz_gtls_co names.
THEOREM RunnerOwnsItsStack == Spec => []RunningOwnsStack
  <1>1. IInv => RunningOwnsStack
    BY DEF IInv
  <1>2. QED
    BY <1>1, Invariance, PTL

\* A coroutine that does not own its stack has all of its image in its
\* buffer, within the buffer and within the limit of the stack.
THEOREM ImageIsSaved == Spec => []SavedImageComplete
  <1>1. IInv => SavedImageComplete
    BY DEF IInv
  <1>2. QED
    BY <1>1, Invariance, PTL

\* Images are never copied back twice: ct_save and ct_restore stay paired.
THEOREM SavesAndRestoresPair == Spec => []CopiedBackOnce
  <1>1. IInv => CopiedBackOnce
    BY DEF IInv
  <1>2. QED
    BY <1>1, Invariance, PTL

-----------------------------------------------------------------------------
(***************************************************************************)
(* MzCo implements PrivateStacks: the copying between share stacks and     *)
(* save buffers is invisible.                                              *)
(***************************************************************************)

\* Coroutine c can execute: it exists and is not over.
Active(c) == c \in live /\ ~is_end[c]

\* The frame of c does not change when its depth and the words up to that
\* depth do not.
LEMMA SameFrame ==
    ASSUME NEW c \in Co,
           Active(c)' <=> Active(c),
           Active(c) => /\ DepthOf(c)' = DepthOf(c)
                        /\ \A i \in Pos : i <= DepthOf(c) => ImageOf(c)'[i] = ImageOf(c)[i]
    PROVE  FrameOf(c)' = FrameOf(c)
  <1>1. CASE Active(c)
    BY <1>1 DEF FrameOf, Active
  <1>2. CASE ~Active(c)
    BY <1>2 DEF FrameOf, Active, NoFrame, NoImage
  <1>3. QED
    BY <1>1, <1>2

\* An inactive coroutine has the empty frame, and so has one at depth zero.
LEMMA EmptyFrame ==
    ASSUME NEW c \in Co, Active(c) => DepthOf(c) = 0
    PROVE  FrameOf(c) = NoFrame
  <1>1. DepthOf(c) = 0 =>
          [i \in Pos |-> IF i <= DepthOf(c) THEN ImageOf(c)[i] ELSE Junk] = NoImage
    BY ParamAssumption DEF NoImage, Pos
  <1>2. QED
    BY <1>1 DEF FrameOf, Active, NoFrame

\* The same of the next state.
LEMMA EmptyFrameNext ==
    ASSUME NEW c \in Co, Active(c)' => DepthOf(c)' = 0
    PROVE  FrameOf(c)' = NoFrame
  <1>1. DepthOf(c)' = 0 =>
          [i \in Pos |-> IF i <= DepthOf(c)' THEN ImageOf(c)'[i] ELSE Junk] = NoImage
    BY ParamAssumption DEF NoImage, Pos
  <1>2. QED
    BY <1>1 DEF FrameOf, Active, NoFrame, NoImage

Frames == [c \in Co |-> FrameOf(c)]
Ended  == {c \in live : is_end[c]}

\* Initial states map to initial states.
LEMMA AbsInit == Init => Abs!Init
  <1> SUFFICES ASSUME Init PROVE Abs!Init
    OBVIOUS
  <1>1. \A c \in Co : FrameOf(c) = NoFrame
    BY DEF Init, FrameOf
  <1>2. QED
    BY <1>1 DEF Init, Abs!Init

-----------------------------------------------------------------------------
(* Every step of MzCo is a step of PrivateStacks or leaves it unchanged.   *)

\* Creating and destroying stacks changes no frame.
LEMMA StutterStacks ==
    ASSUME IInv, NEW s \in Stack, ShareStackNew(s) \/ ShareStackDestory(s)
    PROVE  UNCHANGED Abs!vars
  <1> USE DEF ShareStackNew, ShareStackDestory, coVars, saveVars, stackVars
  <1>1. ASSUME NEW c \in Co PROVE FrameOf(c)' = FrameOf(c)
    <2>1. Active(c)' <=> Active(c)
      BY DEF Active
    <2>2. c \in live => share_stack[c] # s /\ share_stack[c] \in Stack
      BY DEF IInv, TypeOK, PartsExist
    <2>3. Active(c) => DepthOf(c)' = DepthOf(c) /\ ImageOf(c)' = ImageOf(c)
      BY <2>2 DEF Active, DepthOf, ImageOf, IInv, TypeOK
    <2>4. QED
      BY <2>1, <2>3, SameFrame
  <1>2. QED
    BY <1>1 DEF Abs!vars

\* Nor do main coroutines and failed assertions.
LEMMA StutterOther ==
    ASSUME UNCHANGED <<live, is_end, share_stack, reg_sp, save_data, owner, mem, cpu>>
    PROVE  UNCHANGED Abs!vars
  BY DEF Abs!vars, FrameOf, DepthOf, ImageOf, NoFrame, NoImage

\* mz_create is an abstract Create.
LEMMA CreateMaps ==
    ASSUME IInv, IInv', NEW c \in Co, NEW m \in Main, NEW s \in Stack, Create(c, m, s)
    PROVE  Abs!Create(c)
  <1> USE DEF Create, ClearCo, stackVars
  <1>1. ASSUME NEW d \in Co PROVE FrameOf(d)' = FrameOf(d)
    <2>1. CASE d = c
      <3>1. ~Active(d)
        BY <2>1 DEF Active
      <3>2. DepthOf(d)' = 0
        BY <2>1, ParamAssumption DEF DepthOf, IInv, TypeOK, RunningOwnsStack
      <3>3. QED
        BY <3>1, <3>2, EmptyFrame, EmptyFrameNext
    <2>2. CASE d # c
      <3>1. Active(d)' <=> Active(d)
        BY <2>2 DEF Active, IInv, TypeOK
      <3>2. DepthOf(d)' = DepthOf(d) /\ ImageOf(d)' = ImageOf(d)
        BY <2>2 DEF DepthOf, ImageOf, IInv, TypeOK
      <3>3. QED
        BY <3>1, <3>2, SameFrame
    <2>3. QED
      BY <2>1, <2>2
  <1>2. Ended' = Ended
    BY DEF Ended, IInv, TypeOK
  <1>3. QED
    BY <1>1, <1>2 DEF Abs!Create, Ended

\* mz_destory is an abstract Destroy.
LEMMA DestroyMaps ==
    ASSUME IInv, NEW c \in Co, Destory(c)
    PROVE  Abs!Destroy(c)
  <1> USE DEF Destory, ReleaseStack, ClearCo, stackVars
  <1>1. ASSUME NEW d \in Co, d # c PROVE FrameOf(d)' = FrameOf(d)
    <2>1. Active(d)' <=> Active(d)
      BY <1>1 DEF Active, IInv, TypeOK
    <2>2. DepthOf(d)' = DepthOf(d)
      BY <1>1 DEF DepthOf, IInv, TypeOK
    <2>3. ASSUME Active(d) PROVE ImageOf(d)' = ImageOf(d)
      <3>1. (owner[share_stack[d]] = d)' <=> owner[share_stack[d]] = d
        BY <1>1, <2>3, ParamAssumption DEF Active, IInv, TypeOK, PartsExist
      <3>2. QED
        BY <1>1, <3>1 DEF ImageOf, IInv, TypeOK
    <2>4. QED
      BY <2>1, <2>2, <2>3, SameFrame
  <1>2. FrameOf(c)' = NoFrame
    BY EmptyFrameNext DEF Active
  <1>3. Ended' = Ended \ {c}
    BY DEF Ended, IInv, TypeOK
  <1>4. Frames' = [Frames EXCEPT ![c] = NoFrame]
    BY <1>1, <1>2 DEF Frames
  <1>5. QED
    BY <1>3, <1>4 DEF Abs!Destroy, Ended, Frames

\* All three ways through mz_resume are one abstract Resume.
LEMMA ResumeMaps ==
    ASSUME IInv, NEW c \in Co, Resumable(c), SwitchTo(c),
           UNCHANGED <<live, is_end>>,
           \A d \in Co : Active(d) => FrameOf(d)' = FrameOf(d)
    PROVE  Abs!Resume(c)
  <1>1. ASSUME NEW d \in Co PROVE FrameOf(d)' = FrameOf(d)
    <2>1. CASE ~Active(d)
      BY <2>1, EmptyFrame, EmptyFrameNext DEF Active
    <2>2. QED
      BY <2>1
  <1>2. QED
    BY <1>1 DEF Abs!Resume, Resumable, InMain, SwitchTo

\* Nothing is copied, so no frame changes.
LEMMA ResumeOwnerMaps ==
    ASSUME IInv, NEW c \in Co, ResumeOwner(c)
    PROVE  Abs!Resume(c)
  <1> USE DEF ResumeOwner, coVars, saveVars, stackVars
  <1>1. ASSUME NEW d \in Co, Active(d) PROVE FrameOf(d)' = FrameOf(d)
    <2>1. Active(d)' <=> Active(d)
      BY DEF Active
    <2>2. DepthOf(d)' = DepthOf(d)
      BY ParamAssumption DEF DepthOf, SwitchTo, Resumable, InMain
    <2>3. ImageOf(d)' = ImageOf(d)
      BY DEF ImageOf
    <2>4. QED
      BY <2>1, <2>2, <2>3, SameFrame
  <1>2. QED
    BY <1>1, ResumeMaps

\* Copying the saved image of c back leaves its frame as it was.
LEMMA ResumeFreeMaps ==
    ASSUME IInv, NEW c \in Co, ResumeFree(c)
    PROVE  Abs!Resume(c)
  <1> DEFINE s == share_stack[c]
  <1> USE DEF ResumeFree, coVars, saveVars
  <1>s. s \in Stack /\ Evicted(c)
    BY ParamAssumption DEF IInv, TypeOK, PartsExist, Resumable, Evicted
  <1>1. ASSUME NEW d \in Co, Active(d) PROVE FrameOf(d)' = FrameOf(d)
    <2>1. Active(d)' <=> Active(d)
      BY DEF Active
    <2>2. DepthOf(d)' = DepthOf(d) /\ DepthOf(d) = reg_sp[d]
      BY ParamAssumption DEF DepthOf, SwitchTo, Resumable, InMain
    <2>3. CASE d = c
      <3>1. ImageOf(d) = save_data[c] /\ ImageOf(d)' = mem'[s]
        BY <1>s, <2>3 DEF ImageOf, Evicted, Restore, IInv, TypeOK
      <3>2. mem'[s] = CopyOver(mem[s], save_data[c], reg_sp[c])
        BY <1>s, <2>3 DEF Restore, IInv, TypeOK, SavedImageComplete, Evicted
      <3>3. \A i \in Pos : i <= reg_sp[c] => mem'[s][i] = save_data[c][i]
        BY <3>2 DEF CopyOver
      <3>4. QED
        BY <2>1, <2>2, <2>3, <3>1, <3>3, SameFrame
    <2>4. CASE d # c
      <3>1. ImageOf(d)' = ImageOf(d)
        BY <1>s, <2>4, ParamAssumption DEF Active, ImageOf, Restore, IInv, TypeOK, PartsExist
      <3>2. QED
        BY <2>1, <2>2, <3>1, SameFrame
    <2>5. QED
      BY <2>3, <2>4
  <1>2. QED
    BY <1>1, ResumeMaps

\* Saving o and restoring c leaves both frames as they were.
LEMMA ResumeEvictMaps ==
    ASSUME IInv, NEW c \in Co, NEW o \in Co, NEW n, ResumeEvict(c, o, n)
    PROVE  Abs!Resume(c)
  <1> DEFINE s == share_stack[c]
  <1> USE DEF ResumeEvict, coVars
  <1>s. s \in Stack /\ Evicted(c) /\ s = share_stack[o]
    BY ParamAssumption DEF IInv, TypeOK, PartsExist, OwnerIsLive, Resumable, Evicted
  <1>1. ASSUME NEW d \in Co, Active(d) PROVE FrameOf(d)' = FrameOf(d)
    <2>1. Active(d)' <=> Active(d)
      BY DEF Active
    <2>2. DepthOf(d)' = DepthOf(d) /\ DepthOf(d) = reg_sp[d]
      BY ParamAssumption DEF DepthOf, SwitchTo, Resumable, InMain
    <2>3. CASE d = c
      <3>1. ImageOf(d) = save_data[c] /\ ImageOf(d)' = mem'[s]
        BY <1>s, <2>3 DEF ImageOf, Evicted, Restore, IInv, TypeOK
      <3>2. mem'[s] = CopyOver(mem[s], save_data[c], reg_sp[c])
        BY <1>s, <2>3 DEF Restore, IInv, TypeOK, SavedImageComplete, Evicted
      <3>3. \A i \in Pos : i <= reg_sp[c] => mem'[s][i] = save_data[c][i]
        BY <3>2 DEF CopyOver
      <3>4. QED
        BY <2>1, <2>2, <2>3, <3>1, <3>3, SameFrame
    <2>4. CASE d = o
      <3>1. ImageOf(d) = mem[s] /\ ImageOf(d)' = save_data'[o]
        BY <1>s, <2>4 DEF ImageOf, Restore, IInv, TypeOK
      <3>2. save_data'[o] = CopyOver(NoImage, mem[s], reg_sp[o])
        BY <1>s DEF SaveOwner, UsedBy, IInv, TypeOK
      <3>3. \A i \in Pos : i <= reg_sp[o] => save_data'[o][i] = mem[s][i]
        BY <3>2 DEF CopyOver
      <3>4. QED
        BY <2>1, <2>2, <2>4, <3>1, <3>3, SameFrame
    <2>5. CASE d \notin {c, o}
      <3>1. ImageOf(d)' = ImageOf(d)
        BY <1>s, <2>5 DEF Active, ImageOf, Restore, SaveOwner, IInv, TypeOK, PartsExist
      <3>2. QED
        BY <2>1, <2>2, <3>1, SameFrame
    <2>6. QED
      BY <2>3, <2>4, <2>5
  <1>2. QED
    BY <1>1, ResumeMaps

\* A step of the executing coroutine changes its own frame only.
LEMMA RunMaps ==
    ASSUME IInv, IInv', NEW d \in Pos, NEW w \in Word, Run(d, w)
    PROVE  \E f \in [depth : Depth, words : Image] : Abs!Run(f)
  <1> USE DEF Run, coVars, saveVars, stackVars
  <1>0. PICK r \in Co : r = cpu.co
    BY DEF IInv, TypeOK
  <1>r. r = cpu.co /\ Active(r) /\ owner[share_stack[r]] = r
    BY <1>0 DEF IInv, TypeOK, RunningOwnsStack, OwnerIsLive, PartsExist, Active
  <1>1. ASSUME NEW c \in Co, c # r PROVE FrameOf(c)' = FrameOf(c)
    <2>1. Active(c)' <=> Active(c)
      BY DEF Active
    <2>2. DepthOf(c)' = DepthOf(c)
      BY <1>r, <1>1 DEF DepthOf, IInv, TypeOK
    <2>3. Active(c) => ImageOf(c)' = ImageOf(c)
      BY <1>r, <1>1 DEF ImageOf, IInv, TypeOK, PartsExist, Active
    <2>4. QED
      BY <2>1, <2>2, <2>3, SameFrame
  <1>2. FrameOf(r)' \in [depth : Depth, words : Image]
    <2>1. cpu' = [co |-> r, sp |-> d]
      BY <1>r DEF IInv, TypeOK
    <2>2. FrameOf(r)' = [depth |-> d, words |-> CopyOver(NoImage, mem'[share_stack[r]], d)]
      BY <1>r, <2>1 DEF FrameOf, Active, DepthOf, ImageOf, CopyOver, NoImage
    <2>3. mem'[share_stack[r]] \in Image
      BY <1>r DEF IInv, TypeOK, PartsExist, Active
    <2>4. CopyOver(NoImage, mem'[share_stack[r]], d) \in Image
      BY <2>3, NoImageType, CopyOverType
    <2>5. QED
      BY <2>2, <2>4 DEF Pos, Depth
  <1>3. Frames' = [Frames EXCEPT ![r] = FrameOf(r)']
    BY <1>r, <1>1 DEF Frames
  <1>4. cpu.co' = cpu.co
    BY DEF IInv, TypeOK
  <1>5. QED
    BY <1>r, <1>2, <1>3, <1>4 DEF Abs!Run, Frames

\* mz_yield is an abstract Yield.
LEMMA YieldMaps ==
    ASSUME IInv, Yield
    PROVE  Abs!Yield
  <1> USE DEF Yield, SwitchToMain, coVars, saveVars, stackVars
  <1>1. ASSUME NEW c \in Co PROVE FrameOf(c)' = FrameOf(c)
    <2>1. Active(c)' <=> Active(c)
      BY DEF Active
    <2>2. DepthOf(c)' = DepthOf(c) /\ ImageOf(c)' = ImageOf(c)
      BY ParamAssumption DEF DepthOf, ImageOf, IInv, TypeOK, RunningOwnsStack
    <2>3. QED
      BY <2>1, <2>2, SameFrame
  <1>2. QED
    BY <1>1 DEF Abs!Yield

\* mz_exit is an abstract Exit.
LEMMA ExitMaps ==
    ASSUME IInv, Exit
    PROVE  Abs!Exit
  <1> USE DEF Exit, SwitchToMain, saveVars
  <1>0. PICK r \in Co : r = cpu.co
    BY DEF IInv, TypeOK
  <1>r. r = cpu.co /\ r = mz_gtls_co /\ r \in live /\ share_stack[r] \in Stack
    BY <1>0 DEF IInv, TypeOK, RunningOwnsStack, PartsExist
  <1>1. ASSUME NEW c \in Co, c # r PROVE FrameOf(c)' = FrameOf(c)
    <2>1. Active(c)' <=> Active(c)
      BY <1>r, <1>1 DEF Active, IInv, TypeOK
    <2>2. DepthOf(c)' = DepthOf(c)
      BY <1>r, <1>1, ParamAssumption DEF DepthOf, IInv, TypeOK
    <2>3. Active(c) => ImageOf(c)' = ImageOf(c)
      BY <1>r, <1>1, ParamAssumption DEF ImageOf, IInv, TypeOK, PartsExist, Active
    <2>4. QED
      BY <2>1, <2>2, <2>3, SameFrame
  <1>2. FrameOf(r)' = NoFrame
    BY <1>r, EmptyFrameNext DEF Active, IInv, TypeOK
  <1>3. Frames' = [Frames EXCEPT ![r] = NoFrame]
    BY <1>r, <1>1, <1>2 DEF Frames
  <1>4. Ended' = Ended \cup {r}
    BY <1>r DEF Ended, IInv, TypeOK
  <1>5. QED
    BY <1>r, <1>3, <1>4 DEF Abs!Exit, Frames, Ended

\* Every step of the runtime is an abstract step or changes nothing.
LEMMA StepMaps == IInv /\ IInv' /\ [Next]_vars => [Abs!Next]_(Abs!vars)
  <1> SUFFICES ASSUME IInv, IInv', [Next]_vars PROVE Abs!Next \/ UNCHANGED Abs!vars
    BY DEF Abs!vars
  <1>1. ASSUME NEW m \in Main, CreateMain(m) \/ DestoryMain(m) PROVE UNCHANGED Abs!vars
    BY <1>1, StutterOther DEF CreateMain, DestoryMain, coVars, saveVars, stackVars
  <1>2. ASSUME Return \/ Gone \/ UNCHANGED vars \/ \E c \in Co : ResumeAbort(c)
        PROVE  UNCHANGED Abs!vars
    BY <1>2, StutterOther DEF Return, Gone, ResumeAbort, vars, coVars, saveVars, stackVars
  <1>3. CASE MainStep
    BY <1>3, <1>1, <1>2, StutterStacks, CreateMaps, DestroyMaps, ResumeOwnerMaps,
       ResumeFreeMaps, ResumeEvictMaps DEF MainStep, Abs!Next
  <1>4. CASE CoStep
    BY <1>4, <1>2, RunMaps, YieldMaps, ExitMaps DEF CoStep, Abs!Next
  <1>5. QED
    BY <1>2, <1>3, <1>4 DEF Next

\* The runtime implements private stacks: what a coroutine finds when it is
\* resumed is the stack it had when it yielded, whoever used the memory.
THEOREM StacksArePrivate == Spec => ImplementsPrivateStacks
  <1>1. Spec => []IInv
    BY Invariance
  <1>2. QED
    BY <1>1, AbsInit, StepMaps, PTL DEF Spec, ImplementsPrivateStacks, Abs!Spec
=============================================================================
