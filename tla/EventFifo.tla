------------------------------ MODULE EventFifo ------------------------------
(***************************************************************************)
(* What the monitor relies on in the event queue of a thread: it gets each *)
(* event once, unchanged, in the order the thread recorded them.           *)
(***************************************************************************)
EXTENDS Sequences

CONSTANTS Values,       \* the events
          Nothing       \* no event

VARIABLES queue,        \* recorded and not taken yet
          got           \* the last one taken

vars == <<queue, got>>

Init == queue = <<>> /\ got = Nothing

Put(v) == queue' = Append(queue, v) /\ UNCHANGED got

Take == queue # <<>> /\ got' = Head(queue) /\ queue' = Tail(queue)

Next == (\E v \in Values : Put(v)) \/ Take

Spec == Init /\ [][Next]_vars
=============================================================================
