------------------------------ MODULE SpscQueue ------------------------------
(***************************************************************************)
(* The event queue of one thread (pthreads/src/spsc_queue.h), with the     *)
(* thread that enqueues and the monitor that takes events out in           *)
(* Detection::process_events.                                              *)
(*                                                                         *)
(* The queue is one linked list without a lock.  From first_ to tail_ it   *)
(* holds the nodes whose events were taken, which the producer uses again; *)
(* after tail_ come the events; head_ is the last node.  tail_copy_ is the *)
(* producer's last look at tail_.  Every access to memory that the other   *)
(* side also accesses is an action of its own, and accesses are seen in    *)
(* the order of the code (both fences are full ones).                      *)
(* A definition named Mutant_X_... is what a plausible bug would make of   *)
(* the definition X after it; no specification uses it.                    *)
(***************************************************************************)
EXTENDS Naturals, Sequences, FiniteSets

CONSTANTS
  Nodes,        \* bound: memory for nodes, enough for Cap events
  Values,       \* the events
  Cap,          \* bound: the producer starts no enqueue with so many in the queue
  Width,        \* bound: length_ counts modulo Width
  Garbage,      \* what length_ may be at the start: the constructor does not set it
  NULL

ASSUME NullAssumption == NULL \notin Nodes \cup Values
ASSUME CapAssumption == Cap \in Nat \ {0}
ASSUME NodesAssumption == IsFiniteSet(Nodes) /\ Cardinality(Nodes) > Cap
ASSUME WidthAssumption == Width \in Nat \ {0} /\ Garbage \subseteq 0..(Width - 1)

VARIABLES
  next, value,  \* the fields of each node
  heap,         \* nodes not allocated yet
  first, tailCopy, head,   \* first_, tail_copy_, head_: the producer's
  tail,         \* tail_: the consumer's, and read by the producer
  length,       \* length_
  ppc, v, n,    \* the producer: what it does next, its event, its node
  plen,         \* the value of length_ it has read
  cpc, size,    \* the monitor: what it does next, how many it still takes
  event,        \* the event it has taken last
  clen          \* the value of length_ it has read

memVars  == <<next, value, heap>>
prodVars == <<first, tailCopy, head, ppc, v, n, plen>>
consVars == <<tail, cpc, size, event, clen>>
vars == <<memVars, prodVars, consVars, length>>

-----------------------------------------------------------------------------
(* The list that starts at node m, and the events in the nodes after tail. *)
Chains == UNION {[1..k -> Nodes] : k \in 1..Cardinality(Nodes)}

IsChain(c) ==
  \A i \in DOMAIN c : next[c[i]] = IF i = Len(c) THEN NULL ELSE c[i + 1]

From(m) == CHOOSE c \in Chains : c[1] = m /\ IsChain(c)

Content == [i \in 1..(Len(From(tail)) - 1) |-> value[From(tail)[i + 1]]]

(* The constructor: one node, in which there is no event. *)
Init ==
  \E m \in Nodes :
    /\ next = [k \in Nodes |-> NULL]
    /\ value = [k \in Nodes |-> NULL]
    /\ heap = Nodes \ {m}
    /\ first = m /\ tailCopy = m /\ head = m /\ tail = m
    /\ length \in Garbage
    /\ ppc = "idle" /\ v = NULL /\ n = NULL /\ plen = 0
    /\ cpc = "idle" /\ size = 0 /\ event = NULL /\ clen = 0

-----------------------------------------------------------------------------
(* The producer: enqueue, with alloc_node. *)

Enqueue(w) ==
  /\ ppc = "idle"
  /\ Len(Content) < Cap
  /\ v' = w
  /\ ppc' = "alloc"
  /\ UNCHANGED <<memVars, consVars, length, first, tailCopy, head, n, plen>>

Mutant_Recycle_SecondTryUnchecked ==
  /\ ppc \in {"alloc", "realloc"}
  /\ ppc = "alloc" => first # tailCopy
  /\ n' = first
  /\ first' = next[first]
  /\ ppc' = "fill"
  /\ UNCHANGED <<memVars, consVars, length, tailCopy, head, v, plen>>

(* A node whose event was taken is used again: first_ is one unless it has *)
(* reached the tail as the producer knows it ...                           *)
Recycle ==
  /\ ppc \in {"alloc", "realloc"}
  /\ first # tailCopy
  /\ n' = first
  /\ first' = next[first]
  /\ ppc' = "fill"
  /\ UNCHANGED <<memVars, consVars, length, tailCopy, head, v, plen>>

Mutant_LoadTail_NotDone ==
  /\ ppc = "alloc"
  /\ first = tailCopy
  /\ ppc' = "realloc"
  /\ UNCHANGED <<memVars, consVars, length, first, tailCopy, head, v, n, plen>>

Mutant_LoadTail_ReadsNext ==
  /\ ppc = "alloc"
  /\ first = tailCopy
  /\ tailCopy' = IF next[tail] # NULL THEN next[tail] ELSE tail
  /\ ppc' = "realloc"
  /\ UNCHANGED <<memVars, consVars, length, first, head, v, n, plen>>

(* ... in which case it looks at the tail again, ...                       *)
LoadTail ==
  /\ ppc = "alloc"
  /\ first = tailCopy
  /\ tailCopy' = tail
  /\ ppc' = "realloc"
  /\ UNCHANGED <<memVars, consVars, length, first, head, v, n, plen>>

(* ... and allocates one if that does not help.                            *)
AllocateNode ==
  /\ ppc = "realloc"
  /\ first = tailCopy
  /\ \E m \in heap : n' = m /\ heap' = heap \ {m}
  /\ ppc' = "fill"
  /\ UNCHANGED <<next, value, consVars, length, first, tailCopy, head, v, plen>>

Fill ==
  /\ ppc = "fill"
  /\ next' = [next EXCEPT ![n] = NULL]
  /\ value' = [value EXCEPT ![n] = v]
  /\ ppc' = "publish"
  /\ UNCHANGED <<heap, consVars, length, first, tailCopy, head, v, n, plen>>

Publish ==
  /\ ppc = "publish"
  /\ next' = [next EXCEPT ![head] = n]
  /\ ppc' = "count"
  /\ UNCHANGED <<value, heap, consVars, length, first, tailCopy, head, v, n, plen>>

(* ++length_ and --length_ read and write it in two steps. *)
IncrementRead ==
  /\ ppc = "count"
  /\ plen' = length
  /\ ppc' = "counted"
  /\ UNCHANGED <<memVars, consVars, length, first, tailCopy, head, v, n>>

IncrementWrite ==
  /\ ppc = "counted"
  /\ length' = (plen + 1) % Width
  /\ ppc' = "advance"
  /\ UNCHANGED <<memVars, consVars, first, tailCopy, head, v, n, plen>>

MoveHead ==
  /\ ppc = "advance"
  /\ head' = n
  /\ ppc' = "idle"
  /\ UNCHANGED <<memVars, consVars, length, first, tailCopy, v, n, plen>>

-----------------------------------------------------------------------------
(* The monitor: what process_events does with this queue. *)

StartPass ==
  /\ cpc = "idle"
  /\ size' = length
  /\ cpc' = "dequeue"
  /\ UNCHANGED <<memVars, prodVars, length, tail, event, clen>>

EndPass ==
  /\ cpc = "dequeue"
  /\ size = 0 \/ next[tail] = NULL
  /\ cpc' = "idle"
  /\ UNCHANGED <<memVars, prodVars, length, tail, size, event, clen>>

ReadValue ==
  /\ cpc = "dequeue"
  /\ size # 0 /\ next[tail] # NULL
  /\ event' = value[next[tail]]
  /\ cpc' = "advance"
  /\ UNCHANGED <<memVars, prodVars, length, tail, size, clen>>

MoveTail ==
  /\ cpc = "advance"
  /\ tail' = next[tail]
  /\ cpc' = "count"
  /\ UNCHANGED <<memVars, prodVars, length, size, event, clen>>

DecrementRead ==
  /\ cpc = "count"
  /\ clen' = length
  /\ cpc' = "counted"
  /\ UNCHANGED <<memVars, prodVars, length, tail, size, event>>

Mutant_DecrementWrite_KeepsSize ==
  /\ cpc = "counted"
  /\ length' = (clen + Width - 1) % Width
  /\ cpc' = "dequeue"
  /\ UNCHANGED <<memVars, prodVars, tail, size, event, clen>>

(* With the --size of the loop that follows. *)
DecrementWrite ==
  /\ cpc = "counted"
  /\ length' = (clen + Width - 1) % Width
  /\ size' = size - 1
  /\ cpc' = "dequeue"
  /\ UNCHANGED <<memVars, prodVars, tail, event, clen>>

-----------------------------------------------------------------------------
Producer ==
  \/ \E w \in Values : Enqueue(w)
  \/ Recycle \/ LoadTail \/ AllocateNode \/ Fill \/ Publish
  \/ IncrementRead \/ IncrementWrite \/ MoveHead

Consumer ==
  StartPass \/ EndPass \/ ReadValue \/ MoveTail \/ DecrementRead \/ DecrementWrite

Next == Producer \/ Consumer

Spec == Init /\ [][Next]_vars

(* The monitor keeps running, whatever the thread does. *)
FairSpec == Spec /\ WF_vars(Consumer)

-----------------------------------------------------------------------------
(* Properties *)

(* The types; in particular first_, tail_copy_, tail_ and head_ are nodes  *)
(* at any time, so none of them runs past the end of the list.             *)
QueueTypeOK ==
  /\ next \in [Nodes -> Nodes \cup {NULL}]
  /\ value \in [Nodes -> Values \cup {NULL}]
  /\ heap \in SUBSET Nodes
  /\ first \in Nodes /\ tailCopy \in Nodes /\ head \in Nodes /\ tail \in Nodes
  /\ length \in 0..(Width - 1) /\ plen \in 0..(Width - 1) /\ clen \in 0..(Width - 1)
  /\ ppc \in {"idle", "alloc", "realloc", "fill", "publish", "count", "counted", "advance"}
  /\ v \in Values \cup {NULL} /\ n \in Nodes \cup {NULL}
  /\ cpc \in {"idle", "dequeue", "advance", "count", "counted"}
  /\ size \in 0..(Width - 1)
  /\ event \in Values \cup {NULL}

(* An event is recorded when its node is linked, and taken when its value  *)
(* is read.                                                                *)
F == INSTANCE EventFifo WITH
       queue <- IF cpc = "advance" THEN Tail(Content) ELSE Content,
       got <- event, Nothing <- NULL

(* The monitor gets every event once, unchanged and in order, whatever     *)
(* happens to length_ and however nodes are used again.                    *)
ImplementsFifo == F!Spec

(* enqueue allocates only when it has to: a queue that never held more     *)
(* than Cap events makes do with Cap + 1 nodes.                            *)
NodesSuffice == ppc = "realloc" /\ first = tailCopy => heap # {}

(* A pass over the queue ends, even if the thread enqueues faster than the *)
(* monitor takes out: that is what size is for.                            *)
PassEnds == (cpc # "idle") ~> (cpc = "idle")
=============================================================================
