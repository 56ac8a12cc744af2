------------------------- MODULE DoubleBufferedQueue -------------------------
(***************************************************************************)
(* core/common/data_structure/double_buffered_queue.h.  Producers push to  *)
(* the back queue, the consumer takes from the front queue and swaps the   *)
(* two when the front queue is empty.  Every operation holds the mutexes   *)
(* of the queues it touches from its first to its last statement, and      *)
(* those that need both take the front mutex first, so each is one step.   *)
(***************************************************************************)
EXTENDS Naturals, Sequences

VARIABLES front_queue, back_queue

queueVars == <<front_queue, back_queue>>

QueueInit == front_queue = <<>> /\ back_queue = <<>>

\* What is left in the front queue is discarded.
Swap ==
    /\ front_queue' = back_queue
    /\ back_queue' = <<>>

Push(item) ==
    /\ back_queue' = Append(back_queue, item)
    /\ UNCHANGED front_queue

Front == Head(front_queue)

Pop ==
    /\ front_queue' = Tail(front_queue)
    /\ UNCHANGED back_queue

Empty == front_queue = <<>>

BothEmpty == Empty /\ back_queue = <<>>
=============================================================================
