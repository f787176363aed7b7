------------------------------- MODULE Replay -------------------------------
(***************************************************************************)
(* The monitor's view of the program: a pass over the event queues of the  *)
(* threads that Avoidance fills, with every event applied to the resource  *)
(* allocation graph (pthreads/src/detection.cc, process_events).           *)
(*                                                                         *)
(* A queue is EventFifo here (module SpscQueue is about the queue itself). *)
(* A pass takes no more events from it than length() says there are, a     *)
(* counter that starts with what is in memory and that thread and monitor  *)
(* change without a lock: it may be short of the number of events.  What a *)
(* thread records while its queue is read stays in it, so reading one      *)
(* queue is one action; between two queues the threads go on.              *)
(* A definition named Mutant_X_... is what a plausible bug would make of   *)
(* the definition X after it; no specification uses it.                    *)
(***************************************************************************)
EXTENDS Avoidance

CONSTANTS
  QueueOrder,   \* the threads in the order of the hash table event_queues
  Shortfalls    \* by how much length() may fall short of a queue

ASSUME QueueOrderAssumption ==
  /\ QueueOrder \in Seq(Threads)
  /\ Elements(QueueOrder) = Threads
  /\ \A i, j \in DOMAIN QueueOrder : QueueOrder[i] = QueueOrder[j] => i = j

ASSUME ShortfallsAssumption == Shortfalls \subseteq Nat

ASSUME NodesAssumption == Threads \cap Mutexes = {}

VARIABLES
  rag,          \* Detection::rag
  reqThreads,   \* Detection::req_threads
  mpc,          \* what the monitor does next
  cursor,       \* the queue it reads next
  behind        \* behind[t]: the events of t less what length() returns

replayVars == <<rag, reqThreads, mpc, cursor, behind>>

Graph == INSTANCE Rag WITH Vertices <- Threads \cup Mutexes

ReplayInit ==
  /\ rag = Graph!EmptyGraph
  /\ reqThreads = {}
  /\ mpc = "idle"
  /\ cursor = 1
  /\ behind \in [Threads -> Shortfalls]

-----------------------------------------------------------------------------
(* The causes of a YIELD event as a vector.  A template of two positions   *)
(* has one cause at most.                                                  *)
Vector(cs) ==
  CHOOSE s \in [1..Cardinality(cs) -> cs] : Elements(s) = cs

(* process_event.  s is the state of the loop over a queue: the graph, the *)
(* requesting threads, and the events held back (ev_vec; the code's in_seq *)
(* is that there are some).                                                *)
ProcessEvent(s, t, e) ==
  CASE e.type = "REQUEST" ->
         [s EXCEPT !.graph = Graph!Request(@, t, e.mtx, e.pos), !.req = @ \cup {t}]
    [] e.type = "YIELD" ->
         [s EXCEPT !.graph = Graph!Yield(@, t, Vector(e.cause))]
    [] e.type = "GRANT" ->
         [s EXCEPT !.graph = Graph!RequestToGrant(@, t, e.mtx, e.pos)]
    [] e.type = "ACQUIRED" ->
         [s EXCEPT !.graph = Graph!GrantToHold(@, t, e.mtx, e.pos), !.req = @ \ {t}]
    [] e.type = "RELEASE" ->
         [s EXCEPT !.graph = Graph!Release(@, e.mtx, t)]
    [] e.type = "CANCEL" ->
         [s EXCEPT !.graph = Graph!Cancel(@, t, e.mtx), !.req = @ \ {t}]

(* The state s after Op has been done with each of the events es of t. *)
Each(Op(_, _, _), s, t, es) ==
  LET run[i \in 0..Len(es)] == IF i = 0 THEN s ELSE Op(run[i - 1], t, es[i])
  IN  run[Len(es)]

(* The events held back are processed after all. *)
Flush(s, t) == Each(ProcessEvent, [s EXCEPT !.held = <<>>], t, s.held)

Mutant_HandleEvent_DropsHeld(s, t, e) ==
  CASE s.held = <<>> /\ e.type = "REQUEST" -> [s EXCEPT !.held = <<e>>]
    [] s.held = <<>> /\ e.type # "REQUEST" -> ProcessEvent(s, t, e)
    [] s.held # <<>> /\ e.type = "RELEASE" -> [s EXCEPT !.held = <<>>]
    [] s.held # <<>> /\ e.type # "RELEASE" /\ e.mtx = s.held[1].mtx ->
         [s EXCEPT !.held = Append(@, e)]
    [] OTHER -> ProcessEvent(Flush(s, t), t, e)

(* One turn of the loop: from a request on, events are held back as long   *)
(* as they are about the same mutex, and dropped when it is released.      *)
HandleEvent(s, t, e) ==
  CASE s.held = <<>> /\ e.type = "REQUEST" -> [s EXCEPT !.held = <<e>>]
    [] s.held = <<>> /\ e.type # "REQUEST" -> ProcessEvent(s, t, e)
    [] s.held # <<>> /\ e.mtx = s.held[1].mtx /\ e.type = "RELEASE" ->
         [s EXCEPT !.held = <<>>]
    [] s.held # <<>> /\ e.mtx = s.held[1].mtx /\ e.type # "RELEASE" ->
         [s EXCEPT !.held = Append(@, e)]
    [] OTHER -> ProcessEvent(Flush(s, t), t, e)

(* The number of events a pass takes: length() is unsigned, so one that    *)
(* falls short of zero is more than there are.                             *)
Taken(t) == IF Len(eq[t]) < behind[t] THEN Len(eq[t]) ELSE Len(eq[t]) - behind[t]

Drained(t) ==
  Flush(Each(HandleEvent, [graph |-> rag, req |-> reqThreads, held |-> <<>>], t,
             SubSeq(eq[t], 1, Taken(t))), t)

Mutant_StartPass_KeepsCursor ==
  /\ mpc = "idle"
  /\ mpc' = "drain"
  /\ UNCHANGED <<vars, rag, reqThreads, cursor, behind>>

StartPass ==
  /\ mpc = "idle"
  /\ mpc' = "drain"
  /\ cursor' = 1
  /\ UNCHANGED <<vars, rag, reqThreads, behind>>

Mutant_DrainQueue_CursorRunsOn(t) ==
  /\ mpc = "drain"
  /\ QueueOrder[cursor] = t
  /\ rag' = Drained(t).graph
  /\ reqThreads' = Drained(t).req
  /\ eq' = [eq EXCEPT ![t] = SubSeq(@, Taken(t) + 1, Len(@))]
  /\ cursor' = cursor + 1
  /\ mpc' = IF cursor < Len(QueueOrder) THEN "drain" ELSE "check"
  /\ UNCHANGED <<pc, arg, lockPos, lockVars, realVars, grantVars, yieldCause, bypass, monVars,
                 behind>>

(* The body of the loop over the queues. *)
DrainQueue(t) ==
  /\ mpc = "drain"
  /\ QueueOrder[cursor] = t
  /\ rag' = Drained(t).graph
  /\ reqThreads' = Drained(t).req
  /\ eq' = [eq EXCEPT ![t] = SubSeq(@, Taken(t) + 1, Len(@))]
  /\ \/ cursor < Len(QueueOrder) /\ cursor' = cursor + 1 /\ UNCHANGED mpc
     \/ cursor = Len(QueueOrder) /\ mpc' = "check" /\ UNCHANGED cursor
  /\ UNCHANGED <<pc, arg, lockPos, lockVars, realVars, grantVars, yieldCause, bypass, monVars,
                 behind>>

-----------------------------------------------------------------------------
(* What the search for cycles comes to, whatever it finds: only its marks  *)
(* stay in the graph, and the monitor is done, or has killed the process,  *)
(* or has let a thread through that it goes on to notify.  Module          *)
(* Detection has the search itself.                                        *)
AnyVerdict ==
  /\ mpc = "check"
  /\ \E marks \in SUBSET (Threads \cup Mutexes) : rag' = [rag EXCEPT !.kafa = marks]
  /\ \/ /\ mpc' \in {"idle", "off"}
        /\ UNCHANGED <<bypass, breaking>>
     \/ \E t \in Threads :
          /\ bypass' = [bypass EXCEPT ![t] = TRUE]
          /\ breaking' = {t}
          /\ mpc' = "notify"
  /\ UNCHANGED <<pc, arg, lockPos, lockVars, realVars, grantVars, yieldCause, yielded, eq,
                 reqThreads, cursor, behind>>

(* yield_notify of the thread let through. *)
Notify ==
  /\ mpc = "notify"
  /\ \E t \in breaking : BreakNotify(t)
  /\ mpc' = "idle"
  /\ UNCHANGED <<rag, reqThreads, cursor, behind>>

Replays == StartPass \/ (\E t \in Threads : DrainQueue(t)) \/ AnyVerdict \/ Notify

ThreadStep == \E t \in Threads : Step(t) \/ Operation(t) \/ SpuriousWakeup(t)

(* The monitor is at the queue of t. *)
Reading(t) ==
  \/ mpc = "drain" /\ (QueueOrder[cursor] = t \/ (cursor > 1 /\ QueueOrder[cursor - 1] = t))
  \/ mpc = "check" /\ QueueOrder[cursor] = t

(* What a thread does to the counters: when it records an event while its  *)
(* queue is read, its ++ and the monitor's -- may overwrite each other.    *)
Miscount ==
  \/ UNCHANGED behind
  \/ \E t \in Threads, b \in Shortfalls :
       eq'[t] # eq[t] /\ Reading(t) /\ behind' = [behind EXCEPT ![t] = b]

ReplayNext == Replays \/ (ThreadStep /\ Miscount /\ UNCHANGED <<rag, reqThreads, mpc, cursor>>)

ReplaySpec == Init /\ ReplayInit /\ [][ReplayNext]_<<vars, replayVars>>

-----------------------------------------------------------------------------
(* Properties *)

(* Thread t has asked for a mutex it does not own yet. *)
Asks(t) ==
  /\ pc[t] \in {"request", "decide", "granted", "locking", "acquired", "yielding", "wait", "asleep"}
  /\ owner[arg[t].mtx] # t

Edges == [to : Threads \cup Mutexes, type : {"REQUEST", "GRANT", "HOLD", "YIELD"},
          pos : Positions \cup {NULL}]

EdgesTo(t) == {e \in Edges : e.to = t}
EdgesToLocks == {e \in Edges : e.type # "YIELD"}

(* Of the edges es, those in S are the ones in X, each of them once. *)
Exactly(es, S, X) ==
  /\ Elements(es) \cap S = X
  /\ \A i, j \in DOMAIN es : es[i] \in S /\ es[i] = es[j] => i = j

(* The edges there should be from mutex m to t, and from t to a mutex. *)
Holding(t, m) ==
  IF owner[m] = t THEN {[to |-> t, type |-> "HOLD", pos |-> acqPos[m]]} ELSE {}

Asked(t) ==
  IF Asks(t)
  THEN {[to |-> arg[t].mtx, pos |-> arg[t].pos,
         type |-> IF pc[t] \in {"locking", "acquired"} THEN "GRANT" ELSE "REQUEST"]}
  ELSE {}

(* Once the queue of a thread is read, the graph has its locks: an edge    *)
(* from each mutex it owns, with the position it acquired it at, and one   *)
(* to the mutex it asks for, and no other; whatever was dropped unseen.    *)
GraphExact ==
  \A t \in Threads : eq[t] = <<>> =>
    /\ \A m \in Mutexes : Exactly(rag.edges[m], EdgesTo(t), Holding(t, m))
    /\ Exactly(rag.edges[t], EdgesToLocks, Asked(t))
    /\ t \in reqThreads <=> Asks(t)
=============================================================================
