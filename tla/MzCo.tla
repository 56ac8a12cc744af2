-------------------------------- MODULE MzCo --------------------------------
(***************************************************************************)
(* The share-stack coroutine runtime of core/coroutine/detail (mzco.h,     *)
(* mzco.cc, mzswap.S), for one thread: mz_gtls_co is thread local and no   *)
(* object is handed to another thread, so threads do not interact.         *)
(*                                                                         *)
(* Coroutines created on one mz_share_stack_t execute in the same memory.  *)
(* mz_resume copies the live part of the stack of its last owner into the  *)
(* private save buffer of that owner, and the saved image of the resumed   *)
(* coroutine back.                                                         *)
(*                                                                         *)
(* Stack memory is counted in words from align_retptr downwards: position  *)
(* i is the i-th word below it, and a stack pointer is a depth, the number *)
(* of words in use.  Registers other than the stack pointer, the counters  *)
(* that are only statistics (max_cpsz) and allocation failure are left     *)
(* out.  The contract of the API (doc/EN/coroutine.md:45-57) is part of    *)
(* the guards: only the main coroutine resumes, and nobody uses a freed    *)
(* object.                                                                 *)
(***************************************************************************)
EXTENDS Integers

CONSTANTS Co,      \* addresses malloc gives to non-main coroutines
          Main,    \* addresses malloc gives to main coroutines
          Stack,   \* addresses malloc gives to share stacks
          Word,    \* values a coroutine writes to its stack
          NULL,    \* the null pointer
          Junk,    \* a word nobody wrote
          Limit,   \* align_limit - sizeof(void*), in words
          Slack,   \* words between the limit and the guard page
          InitSz   \* save_stack_sz given to mz_create, in words

ASSUME ParamAssumption ==
    /\ NULL \notin Co \cup Main
    /\ Limit \in Nat \ {0}
    /\ Slack \in Nat
    /\ InitSz \in Nat \ {0}

Depth == 0 .. Limit + Slack
Pos   == 1 .. Limit + Slack
Image == [Pos -> Word \cup {Junk}]
NoImage == [i \in Pos |-> Junk]

VARIABLES
    mains,         \* main coroutines that exist
    stacks,        \* share stacks that exist
    live,          \* non-main coroutines that exist
    main_co,       \* mz_s.main_co
    share_stack,   \* mz_s.share_stack
    is_end,        \* mz_s.is_end
    reg_sp,        \* mz_s.reg[MZ_REG_IDX_SP], as a depth
    save_sz,       \* save_stack.sz
    valid_sz,      \* save_stack.valid_sz
    save_data,     \* the bytes behind save_stack.ptr
    ct_diff,       \* save_stack.ct_save - save_stack.ct_restore
    owner,         \* mz_share_stack_t.owner
    align_validsz, \* mz_share_stack_t.align_validsz
    mem,           \* the memory of a share stack
    mz_gtls_co,    \* the thread local "current coroutine"
    cpu,           \* the coroutine that executes (NULL: main) and its stack depth
    aborted        \* an assertion failed: the process is gone

coVars    == <<live, main_co, share_stack, is_end>>
saveVars  == <<save_sz, valid_sz, save_data>>
stackVars == <<owner, align_validsz>>
vars == <<mains, stacks, live, main_co, share_stack, is_end, reg_sp, save_sz,
          valid_sz, save_data, ct_diff, owner, align_validsz, mem, mz_gtls_co,
          cpu, aborted>>

Init ==
    /\ mains = {}
    /\ stacks = {}
    /\ live = {}
    /\ main_co = [c \in Co |-> NULL]
    /\ share_stack = [c \in Co |-> NULL]
    /\ is_end = [c \in Co |-> FALSE]
    /\ reg_sp = [c \in Co |-> 0]
    /\ save_sz = [c \in Co |-> InitSz]
    /\ valid_sz = [c \in Co |-> 0]
    /\ save_data = [c \in Co |-> NoImage]
    /\ ct_diff = [c \in Co |-> 0]
    /\ owner = [s \in Stack |-> NULL]
    /\ align_validsz = [s \in Stack |-> 0]
    /\ mem = [s \in Stack |-> NoImage]
    /\ mz_gtls_co = NULL
    /\ cpu = [co |-> NULL, sp |-> 0]
    /\ aborted = FALSE

\* The main coroutine has the processor.
InMain == ~aborted /\ cpu.co = NULL

-----------------------------------------------------------------------------
(* Creation and destruction of the objects.  The content of a freed object *)
(* is never read: it is reset, to keep the states few.                     *)

\* The fields of mz_s after memset and the initialisation in mz_create.
ClearCo(c) ==
    /\ is_end' = [is_end EXCEPT ![c] = FALSE]
    /\ reg_sp' = [reg_sp EXCEPT ![c] = 0]
    /\ save_sz' = [save_sz EXCEPT ![c] = InitSz]
    /\ valid_sz' = [valid_sz EXCEPT ![c] = 0]
    /\ save_data' = [save_data EXCEPT ![c] = NoImage]
    /\ ct_diff' = [ct_diff EXCEPT ![c] = 0]

\* mz_share_stack_new2: no owner, fresh memory.
ShareStackNew(s) ==
    /\ ~aborted
    /\ s \notin stacks
    /\ stacks' = stacks \cup {s}
    /\ owner' = [owner EXCEPT ![s] = NULL]
    /\ align_validsz' = [align_validsz EXCEPT ![s] = 0]
    /\ mem' = [mem EXCEPT ![s] = NoImage]
    /\ UNCHANGED <<mains, coVars, reg_sp, saveVars, ct_diff, mz_gtls_co, cpu, aborted>>

\* mz_share_stack_destory; by contract no coroutine on it is left.
ShareStackDestory(s) ==
    /\ ~aborted
    /\ s \in stacks
    /\ \A c \in live : share_stack[c] # s
    /\ stacks' = stacks \ {s}
    /\ mem' = [mem EXCEPT ![s] = NoImage]
    /\ UNCHANGED <<mains, coVars, reg_sp, saveVars, ct_diff, stackVars,
                   mz_gtls_co, cpu, aborted>>

\* mz_create with main_co = NULL.
CreateMain(m) ==
    /\ InMain
    /\ m \notin mains
    /\ mains' = mains \cup {m}
    /\ UNCHANGED <<stacks, coVars, reg_sp, saveVars, ct_diff, stackVars, mem,
                   mz_gtls_co, cpu, aborted>>

\* mz_create of a coroutine of main coroutine m on stack s.
Create(c, m, s) ==
    /\ ~aborted
    /\ c \notin live
    /\ m \in mains
    /\ s \in stacks
    /\ live' = live \cup {c}
    /\ main_co' = [main_co EXCEPT ![c] = m]
    /\ share_stack' = [share_stack EXCEPT ![c] = s]
    /\ ClearCo(c)
    /\ UNCHANGED <<mains, stacks, stackVars, mem, mz_gtls_co, cpu, aborted>>

\* mz_destory of a main coroutine; by contract its coroutines are gone.
DestoryMain(m) ==
    /\ InMain
    /\ m \in mains
    /\ \A c \in live : main_co[c] # m
    /\ mains' = mains \ {m}
    /\ UNCHANGED <<stacks, coVars, reg_sp, saveVars, ct_diff, stackVars, mem,
                   mz_gtls_co, cpu, aborted>>

\* A plausible slip: the owner field of the stack is forgotten.
ReleaseStackForgotten(c) == UNCHANGED stackVars

\* If c owns its stack, the stack has no owner afterwards.
ReleaseStack(c) ==
    IF owner[share_stack[c]] = c
      THEN /\ owner' = [owner EXCEPT ![share_stack[c]] = NULL]
           /\ align_validsz' = [align_validsz EXCEPT ![share_stack[c]] = 0]
      ELSE UNCHANGED stackVars

\* mz_destory of a non-main coroutine, which is not the executing one.
Destory(c) ==
    /\ ~aborted
    /\ c \in live
    /\ c # cpu.co
    /\ live' = live \ {c}
    /\ ReleaseStack(c)
    /\ main_co' = [main_co EXCEPT ![c] = NULL]
    /\ share_stack' = [share_stack EXCEPT ![c] = NULL]
    /\ ClearCo(c)
    /\ UNCHANGED <<mains, stacks, mem, mz_gtls_co, cpu, aborted>>

-----------------------------------------------------------------------------
(* mz_resume.                                                              *)

\* valid_sz = align_retptr - SP, the part of the stack the owner uses.
UsedBy(o) == reg_sp[o]

\* The size a save buffer of size sz is grown to when need words must fit:
\* it is doubled until they do.
GrownSizes(sz, need) ==
    IF need <= sz
      THEN {sz}
      ELSE {n \in need .. 2 * need - 1 : \E k \in 1 .. need : n = sz * 2^k}

\* Slip: one word too few is copied.
CopyOverShort(base, img, n) == [i \in Pos |-> IF i < n THEN img[i] ELSE base[i]]

\* The image that remains when the n words next to align_retptr of img are
\* copied over base.
CopyOver(base, img, n) == [i \in Pos |-> IF i <= n THEN img[i] ELSE base[i]]

\* Slip: the saved size keeps its old value.
SaveOwnerStaleSize(o, n) ==
    /\ n \in GrownSizes(save_sz[o], UsedBy(o))
    /\ save_sz' = [save_sz EXCEPT ![o] = n]
    /\ save_data' = [save_data EXCEPT
                       ![o] = CopyOver(NoImage, mem[share_stack[o]], UsedBy(o))]
    /\ UNCHANGED valid_sz

\* Slip: the words are not copied.
SaveOwnerNoCopy(o, n) ==
    /\ n \in GrownSizes(save_sz[o], UsedBy(o))
    /\ save_sz' = [save_sz EXCEPT ![o] = n]
    /\ valid_sz' = [valid_sz EXCEPT ![o] = UsedBy(o)]
    /\ UNCHANGED save_data

\* The owner o of the stack is saved to its private buffer, which grows if
\* it must.  A buffer that is allocated anew holds nothing else.
SaveOwner(o, n) ==
    /\ n \in GrownSizes(save_sz[o], UsedBy(o))
    /\ save_sz' = [save_sz EXCEPT ![o] = n]
    /\ valid_sz' = [valid_sz EXCEPT ![o] = UsedBy(o)]
    /\ save_data' = [save_data EXCEPT
                       ![o] = CopyOver(NoImage, mem[share_stack[o]], UsedBy(o))]

\* What a copy of n words adds to ct_save or ct_restore.
Copied(n) == IF n > 0 THEN 1 ELSE 0

\* The saved image of c is put back and c becomes the owner.
Restore(c) ==
    LET s == share_stack[c]
    IN  /\ mem' = [mem EXCEPT ![s] = CopyOver(mem[s], save_data[c], valid_sz[c])]
        /\ owner' = [owner EXCEPT ![s] = c]
        /\ align_validsz' = [align_validsz EXCEPT ![s] = valid_sz[c] + 1]

\* Slip: the thread local variable is not set.
SwitchToUnnamed(c) ==
    /\ cpu' = [co |-> c, sp |-> reg_sp[c]]
    /\ UNCHANGED mz_gtls_co

\* mz_gtls_co = c; mzswap(c->main_co, c).
SwitchTo(c) ==
    /\ mz_gtls_co' = c
    /\ cpu' = [co |-> c, sp |-> reg_sp[c]]

Resumable(c) ==
    /\ InMain
    /\ c \in live
    /\ ~is_end[c]

\* Slip: an owner that went beyond the limit is saved as well.
OwnerFitsAlways(o) == TRUE

\* The assertion on the stack pointer of an owner that is about to be saved.
OwnerFits(o) == reg_sp[o] <= Limit

\* c still owns its stack: nothing is copied.
ResumeOwner(c) ==
    /\ Resumable(c)
    /\ owner[share_stack[c]] = c
    /\ SwitchTo(c)
    /\ UNCHANGED <<mains, stacks, coVars, reg_sp, saveVars, ct_diff, stackVars,
                   mem, aborted>>

\* Nobody owns the stack: the image of c is put back.
ResumeFree(c) ==
    /\ Resumable(c)
    /\ owner[share_stack[c]] = NULL
    /\ valid_sz[c] <= Limit
    /\ Restore(c)
    /\ ct_diff' = [ct_diff EXCEPT ![c] = @ - Copied(valid_sz[c])]
    /\ SwitchTo(c)
    /\ UNCHANGED <<mains, stacks, coVars, reg_sp, saveVars, aborted>>

\* Another coroutine o owns the stack: it is saved first.
ResumeEvict(c, o, n) ==
    /\ Resumable(c)
    /\ o # c
    /\ owner[share_stack[c]] = o
    /\ OwnerFits(o)
    /\ valid_sz[c] <= Limit
    /\ SaveOwner(o, n)
    /\ Restore(c)
    /\ ct_diff' = [ct_diff EXCEPT ![o] = @ + Copied(UsedBy(o)),
                                  ![c] = @ - Copied(valid_sz[c])]
    /\ SwitchTo(c)
    /\ UNCHANGED <<mains, stacks, coVars, reg_sp, aborted>>

\* What the assertions of mz_resume reject: c is over, the owner has used
\* more of the stack than align_limit, or the image to restore is too large.
ResumeFails(c) ==
    LET o == owner[share_stack[c]]
    IN  is_end[c] \/ (o # c /\ ((o # NULL /\ ~OwnerFits(o)) \/ valid_sz[c] > Limit))

ResumeAbort(c) ==
    /\ InMain
    /\ c \in live
    /\ ResumeFails(c)
    /\ aborted' = TRUE
    /\ UNCHANGED <<mains, stacks, coVars, reg_sp, saveVars, ct_diff, stackVars,
                   mem, mz_gtls_co, cpu>>

-----------------------------------------------------------------------------
(* What the executing coroutine does.                                      *)

\* It calls, returns and writes: the new top of its stack is at depth d <=
\* depth + 1 and holds w.  The words below the new top stay behind.
Run(d, w) ==
    LET s == share_stack[cpu.co]
    IN  /\ ~aborted
        /\ cpu.co # NULL
        /\ d <= cpu.sp + 1
        /\ cpu' = [cpu EXCEPT !.sp = d]
        /\ mem' = [mem EXCEPT ![s][d] = w]
        /\ UNCHANGED <<mains, stacks, coVars, reg_sp, saveVars, ct_diff, stackVars,
                       mz_gtls_co, aborted>>

\* mzswap(c, c->main_co), then the end of the mz_resume it returns into.
SwitchToMain(c) ==
    /\ reg_sp' = [reg_sp EXCEPT ![c] = cpu.sp]
    /\ cpu' = [co |-> NULL, sp |-> 0]
    /\ mz_gtls_co' = main_co[c]

\* mz_yield
Yield ==
    /\ ~aborted
    /\ cpu.co # NULL
    /\ SwitchToMain(mz_gtls_co)
    /\ UNCHANGED <<mains, stacks, coVars, saveVars, ct_diff, stackVars, mem, aborted>>

\* mz_exit: the coroutine gives up the stack, so it is never saved again.
Exit ==
    LET c == mz_gtls_co
        s == share_stack[c]
    IN  /\ ~aborted
        /\ cpu.co # NULL
        /\ owner[s] = c
        /\ is_end' = [is_end EXCEPT ![c] = TRUE]
        /\ owner' = [owner EXCEPT ![s] = NULL]
        /\ align_validsz' = [align_validsz EXCEPT ![s] = 0]
        /\ SwitchToMain(c)
        /\ UNCHANGED <<mains, stacks, live, main_co, share_stack, saveVars, ct_diff,
                       mem, aborted>>

\* The entry function returns, into mz_funcp_protector_asm and abort().
Return ==
    /\ ~aborted
    /\ cpu.co # NULL
    /\ aborted' = TRUE
    /\ UNCHANGED <<mains, stacks, coVars, reg_sp, saveVars, ct_diff, stackVars,
                   mem, mz_gtls_co, cpu>>

\* Nothing follows an abort.
Gone == aborted /\ UNCHANGED vars

-----------------------------------------------------------------------------
MainStep ==
    \/ \E s \in Stack : ShareStackNew(s) \/ ShareStackDestory(s)
    \/ \E m \in Main : CreateMain(m) \/ DestoryMain(m)
    \/ \E c \in Co : \/ \E m \in Main, s \in Stack : Create(c, m, s)
                     \/ Destory(c)
                     \/ ResumeOwner(c)
                     \/ ResumeFree(c)
                     \/ ResumeAbort(c)
                     \/ \E o \in Co, n \in 1 .. InitSz + 2 * Limit : ResumeEvict(c, o, n)

CoStep ==
    \/ \E d \in Pos, w \in Word : Run(d, w)
    \/ Yield
    \/ Exit
    \/ Return

Next == MainStep \/ CoStep \/ Gone

Spec == Init /\ [][Next]_vars

-----------------------------------------------------------------------------
(* Properties.                                                             *)

\* Every variable keeps its type.
TypeOK ==
    /\ mains \subseteq Main
    /\ stacks \subseteq Stack
    /\ live \subseteq Co
    /\ main_co \in [Co -> Main \cup {NULL}]
    /\ share_stack \in [Co -> Stack \cup {NULL}]
    /\ is_end \in [Co -> BOOLEAN]
    /\ reg_sp \in [Co -> Depth]
    /\ save_sz \in [Co -> Nat]
    /\ valid_sz \in [Co -> Depth]
    /\ save_data \in [Co -> Image]
    /\ ct_diff \in [Co -> Int]
    /\ owner \in [Stack -> Co \cup {NULL}]
    /\ align_validsz \in [Stack -> Nat]
    /\ mem \in [Stack -> Image]
    /\ mz_gtls_co \in Co \cup Main \cup {NULL}
    /\ cpu \in [co : Co \cup {NULL}, sp : Depth]
    /\ aborted \in BOOLEAN

\* The owner of a share stack is never a freed coroutine, one that has
\* called mz_exit, or one of another stack, although mz_destory, mz_exit and
\* mz_resume each maintain the field on their own; align_validsz is zero
\* exactly when there is no owner.
OwnerIsLive ==
    \A s \in Stack :
        /\ owner[s] # NULL =>
              /\ s \in stacks
              /\ owner[s] \in live
              /\ share_stack[owner[s]] = s
              /\ ~is_end[owner[s]]
        /\ align_validsz[s] = 0 <=> owner[s] = NULL

\* The coroutine that executes is the one mz_gtls_co names, it exists, its
\* main coroutine and its stack exist, and it owns the stack it executes on
\* (so the assertion of mz_exit, mzco.h:192, never fails).
RunningOwnsStack ==
    cpu.co # NULL =>
        /\ mz_gtls_co = cpu.co
        /\ cpu.co \in live
        /\ main_co[cpu.co] \in mains
        /\ share_stack[cpu.co] \in stacks
        /\ owner[share_stack[cpu.co]] = cpu.co

\* Coroutine c can still be resumed but does not own its stack.
Evicted(c) == c \in live /\ ~is_end[c] /\ owner[share_stack[c]] # c

\* The private buffer of a coroutine that does not own its stack holds the
\* whole image up to its stack pointer; the image fits the buffer, and what
\* is restored is within the limit (the assertion at mzco.cc:420 holds
\* because the one at mzco.cc:369 caught every larger image).
SavedImageComplete ==
    \A c \in live :
        /\ valid_sz[c] <= save_sz[c]
        /\ valid_sz[c] <= Limit
        /\ Evicted(c) => valid_sz[c] = reg_sp[c]

\* Every image is copied out once and copied back at most once: ct_save is
\* one ahead of ct_restore while a non-empty image waits in the buffer of an
\* evicted coroutine, and equal to it otherwise.
CopiedBackOnce ==
    \A c \in live : ct_diff[c] = IF Evicted(c) THEN Copied(valid_sz[c]) ELSE 0

-----------------------------------------------------------------------------
(* Each coroutine has, in effect, a stack of its own.                      *)

\* How deep the stack of c is, and where its content is now.
DepthOf(c) == IF cpu.co = c THEN cpu.sp ELSE reg_sp[c]
ImageOf(c) == IF owner[share_stack[c]] = c THEN mem[share_stack[c]] ELSE save_data[c]

NoFrame == [depth |-> 0, words |-> NoImage]

FrameOf(c) ==
    IF c \in live /\ ~is_end[c]
      THEN [depth |-> DepthOf(c),
            words |-> [i \in Pos |-> IF i <= DepthOf(c) THEN ImageOf(c)[i] ELSE Junk]]
      ELSE NoFrame

Abs == INSTANCE PrivateStacks WITH
         Frame   <- [depth : Depth, words : Image],
         Empty   <- NoFrame,
         alive   <- live,
         ended   <- {c \in live : is_end[c]},
         current <- cpu.co,
         frame   <- [c \in Co |-> FrameOf(c)]

\* The runtime implements private stacks: whatever sequence of calls the
\* program makes, a coroutine that is resumed finds exactly the stack it had
\* when it yielded.
ImplementsPrivateStacks == Abs!Spec
=============================================================================
