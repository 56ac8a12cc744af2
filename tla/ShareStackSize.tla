---------------------------- MODULE ShareStackSize ----------------------------
(***************************************************************************)
(* mz_share_stack_new2 and mz_share_stack_destory (mzco.cc:191-298): how a *)
(* requested size becomes a memory area with an optional guard page, and   *)
(* where the stack of a coroutine begins and ends in it.  Addresses are    *)
(* offsets from the lowest usable byte (ptr), which is aligned to 16; the  *)
(* guard page is below it.  Wrap-around of size_t and failing allocations  *)
(* are left out.  Page and minimum size are parameters, so that small ones *)
(* stand for 4096 and 4096; the word of 8 bytes and the alignment of 16    *)
(* are those of x86_64.                                                    *)
(***************************************************************************)
EXTENDS Integers

CONSTANTS Requests,   \* the sizes asked for
          MinSize,    \* 4096
          DefaultSize,\* 2 MB
          PageSize    \* sysconf(_SC_PAGESIZE), a multiple of 16

Word  == 8
Align == 16

VARIABLES
    asked,    \* the size and the guard flag of the last request
    stack,    \* the stack it gave, or NoStack
    aborted   \* an assertion failed

vars == <<asked, stack, aborted>>

NoStack == [sz |-> 0, real_sz |-> 0, highptr |-> 0, retptr |-> 0, limit |-> 0]

Init ==
    /\ asked = [sz |-> 0, guard |-> FALSE]
    /\ stack = NoStack
    /\ aborted = FALSE

\* A request of 0 means the default; no stack is smaller than MinSize.
Requested(sz) ==
    IF sz = 0 THEN DefaultSize
    ELSE IF sz < MinSize THEN MinSize
    ELSE sz

\* The condition sz & (u_pgsz - 1 != 0) of the code: != binds tighter than &,
\* so only the lowest bit of sz is tested.
NeedsRounding(sz) == sz % 2 # 0

\* The size of the area with its guard page, before the final assertion.
WithGuard(sz) ==
    CASE sz <= PageSize -> 2 * PageSize
      [] sz > PageSize /\ NeedsRounding(sz) -> (sz - (sz % PageSize)) + 2 * PageSize
      [] sz > PageSize /\ ~NeedsRounding(sz) -> sz + PageSize

\* The final assertion on it; a size of up to one page does not reach it.
SizeAccepted(sz) ==
    sz > PageSize =>
        /\ WithGuard(sz) \div PageSize > 1
        /\ WithGuard(sz) % PageSize = 0

UsableSize(sz, guard) == IF guard THEN WithGuard(sz) - PageSize ELSE sz

AlignedHigh(size) == ((size - 2 * Word) \div Align) * Align

\* Where things are in an area of which size bytes can be used.
Layout(size, guard) ==
    [ sz      |-> size,
      real_sz |-> IF guard THEN size + PageSize ELSE 0,
      highptr |-> AlignedHigh(size),
      retptr  |-> AlignedHigh(size) - Word,
      limit   |-> size - 16 - 2 * Word ]

ShareStackNew2(sz, guard) ==
    /\ ~aborted
    /\ stack = NoStack
    /\ asked' = [sz |-> sz, guard |-> guard]
    /\ IF guard => SizeAccepted(Requested(sz))
         THEN /\ stack' = Layout(UsableSize(Requested(sz), guard), guard)
              /\ UNCHANGED aborted
         ELSE /\ aborted' = TRUE
              /\ UNCHANGED stack

ShareStackDestory ==
    /\ ~aborted
    /\ stack # NoStack
    /\ stack' = NoStack
    /\ UNCHANGED <<asked, aborted>>

Gone == aborted /\ UNCHANGED vars

Next ==
    \/ \E sz \in Requests, guard \in BOOLEAN : ShareStackNew2(sz, guard)
    \/ ShareStackDestory
    \/ Gone

Spec == Init /\ [][Next]_vars

-----------------------------------------------------------------------------
\* Every variable keeps its type.
TypeOK ==
    /\ asked \in [sz : Requests \cup {0}, guard : BOOLEAN]
    /\ stack \in [sz : Nat, real_sz : Nat, highptr : Nat, retptr : Nat, limit : Nat]
    /\ aborted \in BOOLEAN

\* A stack that is handed out is at least as large as what was asked for, with
\* the guard page on top of it, although the rounding tests the wrong bits.
LargeEnough ==
    stack # NoStack =>
        /\ stack.sz >= asked.sz
        /\ stack.sz >= MinSize
        /\ asked.guard => stack.real_sz % PageSize = 0 /\ stack.real_sz >= 2 * PageSize

\* A stack pointer that passes the assertions of mz_resume (at most
\* align_limit below align_highptr) is inside the area, above the guard page;
\* so is the return address at align_retptr, whatever the alignment cost.
LimitInsideArea ==
    stack # NoStack =>
        /\ stack.highptr - stack.limit > 0
        /\ stack.highptr % Align = 0
        /\ stack.retptr > stack.highptr - stack.limit
        /\ stack.retptr + Word <= stack.sz

\* The assertion at mzco.cc:232 holds for whatever size is asked for: the area
\* is a whole number of pages.
RoundingNeverAborts == ~aborted
=============================================================================
