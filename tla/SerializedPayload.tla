-------------------------- MODULE SerializedPayload --------------------------
(***************************************************************************)
(* The buffer of a SerializedPayload (serialized_payload.h) under every    *)
(* sequence of its operations and every failure of the allocator.  The     *)
(* bytes are reduced to how many of them are defined.                      *)
(***************************************************************************)
EXTENDS Integers

CONSTANT MaxSize  \* sizes tried

VARIABLES length, max_size,
          data,     \* size of the block data points to, None for nullptr
          defined,  \* how many of its bytes have a value
          live,     \* blocks allocated and not freed
          refused, failed, dropped, \* history: a copy was refused, an
                                    \* allocation failed since empty, a block was abandoned
          crashed   \* memcpy through nullptr

vars == <<length, max_size, data, defined, live, refused, failed, dropped, crashed>>
None == -1

Init ==
    /\ length = 0 /\ max_size = 0 /\ data = None /\ defined = 0 /\ live = 0
    /\ refused = FALSE /\ failed = FALSE /\ dropped = FALSE /\ crashed = FALSE

EmptyTo(block) ==
    /\ length' = 0 /\ max_size' = 0 /\ data' = block /\ defined' = 0
    /\ live' = IF data = None THEN live ELSE live - 1
    /\ refused' = FALSE /\ failed' = FALSE
    /\ UNCHANGED <<dropped, crashed>>

\* empty and the destructor
Empty == EmptyTo(None)

Grown(n, bytes) == data' = n /\ max_size' = n /\ defined' = bytes /\ UNCHANGED failed

\* Slip: realloc failed, and the block it left alone is forgotten.
FailNoFree == data' = None /\ defined' = 0 /\ live' = live /\ failed' = TRUE /\ UNCHANGED max_size

\* reserve of more than there is: calloc, or realloc and memset
Allocate(n) ==
    \/ data = None /\ live' = live + 1 /\ Grown(n, n)
    \/ data # None /\ live' = live /\ Grown(n, n)

\* the allocation failed: the block is freed, its size stays, and reserve throws
Fail ==
    /\ data' = None /\ defined' = 0 /\ failed' = TRUE
    /\ live' = IF data = None THEN live ELSE live - 1
    /\ UNCHANGED max_size

Reserve(n) ==
    /\ n > max_size
    /\ Allocate(n) \/ Fail
    /\ UNCHANGED <<length, refused, dropped, crashed>>

\* memcpy of n bytes, into the block as it is after the reserve
CopyBytes(n) == crashed' = (crashed \/ (n > 0 /\ data' = None))

\* copy of n bytes: length is assigned first, and stays when the copy is refused
\* (with_limit) or reserve throws.
Copy(n, limit) ==
    /\ length' = n
    /\ IF n <= max_size THEN
            /\ UNCHANGED <<data, max_size, defined, live, failed>>
            /\ refused' = FALSE /\ CopyBytes(n)
       ELSE IF limit THEN refused' = TRUE /\ UNCHANGED <<data, max_size, defined, live, failed, crashed>>
       ELSE \/ Allocate(n) /\ refused' = FALSE /\ CopyBytes(n)
            \/ Fail /\ UNCHANGED <<refused, crashed>>
    /\ UNCHANGED dropped

\* reserveFragmented(ser): a new block, whatever data pointed to and whether or
\* not calloc returned one
ReserveFragmented(n) ==
    /\ live < 2
    /\ length' = n /\ max_size' = n /\ refused' = FALSE
    /\ \/ data' = n /\ defined' = n /\ live' = live + 1 /\ UNCHANGED failed
       \/ data' = None /\ defined' = 0 /\ failed' = TRUE /\ UNCHANGED live
    /\ dropped' = (dropped \/ data # None)
    /\ UNCHANGED crashed

Next ==
    /\ ~crashed
    /\ \/ Empty
       \/ \E n \in 0..MaxSize : Reserve(n) \/ ReserveFragmented(n)
       \/ \E n \in 0..MaxSize, limit \in BOOLEAN : Copy(n, limit)

Spec == Init /\ [][Next]_vars

-----------------------------------------------------------------------------
TypeOK ==
    /\ length \in 0..MaxSize /\ max_size \in 0..MaxSize
    /\ data \in {None} \cup 0..MaxSize
    /\ defined \in 0..MaxSize
    /\ live \in 0..2
    /\ refused \in BOOLEAN /\ failed \in BOOLEAN /\ dropped \in BOOLEAN /\ crashed \in BOOLEAN

\* While every allocation succeeds, max_size is the size of the block, every
\* byte of it has a value, and what operator== compares lies inside it unless
\* the last copy was refused: a refused copy leaves its length behind.
BlockAsAnnounced ==
    ~failed => /\ data = max_size \/ (data = None /\ max_size = 0)
               /\ data # None => defined = data
               /\ ~refused => length <= max_size

\* No block is lost, whatever fails, except the one reserveFragmented replaces.
NoBlockLost == ~dropped => live = IF data = None THEN 0 ELSE 1

\* Copying into nullptr takes an allocation that failed earlier: the sizes
\* reserve and reserveFragmented then leave make a later copy believe in a block.
CrashNeedsFailure == crashed => failed
=============================================================================
