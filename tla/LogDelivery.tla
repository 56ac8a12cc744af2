----------------------------- MODULE LogDelivery -----------------------------
(***************************************************************************)
(* What the users of the logger are promised: there is one row of entries, *)
(* in the order in which they were logged.  The first of the row is handed, *)
(* once, to the consumers that are registered at that moment, unless the   *)
(* filters of that moment drop it; what is done to consumers and filters   *)
(* before or after makes no difference to it.  How two queues, a worker and *)
(* its rounds bring that about is left to Logger.                          *)
(***************************************************************************)
EXTENDS Integers, Sequences

CONSTANTS Consumer, \* log consumers
          Default,  \* the one that is registered at first
          MaxLogs   \* bound on the number of entries

VARIABLES logged,    \* entries logged so far
          pending,   \* those of them that were not handed on
          consumers, \* the registered consumers
          filter,    \* a filter that no entry passes is set
          received   \* what each consumer was given

vars == <<logged, pending, consumers, filter, received>>

Init ==
    /\ logged = 0
    /\ pending = <<>>
    /\ consumers = {Default}
    /\ filter = FALSE
    /\ received = [c \in Consumer |-> <<>>]

Log ==
    /\ logged < MaxLogs
    /\ logged' = logged + 1
    /\ pending' = Append(pending, logged + 1)
    /\ UNCHANGED <<consumers, filter, received>>

Given(c) == ~filter /\ c \in consumers

HandOn ==
    /\ pending # <<>>
    /\ received' = [c \in Consumer |->
                      IF Given(c) THEN Append(received[c], Head(pending)) ELSE received[c]]
    /\ pending' = Tail(pending)
    /\ UNCHANGED <<logged, consumers, filter>>

Register(c) ==
    /\ consumers' = consumers \cup {c}
    /\ UNCHANGED <<logged, pending, filter, received>>

Clear ==
    /\ consumers' = {}
    /\ UNCHANGED <<logged, pending, filter, received>>

SetFilter ==
    /\ filter' = TRUE
    /\ UNCHANGED <<logged, pending, consumers, received>>

Reset ==
    /\ filter' = FALSE
    /\ consumers' = {Default}
    /\ UNCHANGED <<logged, pending, received>>

Next ==
    \/ Log \/ HandOn \/ Clear \/ SetFilter \/ Reset
    \/ \E c \in Consumer : Register(c)

Spec == Init /\ [][Next]_vars
=============================================================================
