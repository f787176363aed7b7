------------------------------ MODULE Detection ------------------------------
(***************************************************************************)
(* The whole pthreads port: the threads of Avoidance and the monitor,      *)
(* which reads their events (Replay) and then looks for cycles             *)
(* (pthreads/src/detection.cc, check_for_cycles).  A cycle of locks is     *)
(* reported: its template is saved and the process killed by a signal,     *)
(* SIGTERM as it comes.  A cycle of yields is broken: one thread is let    *)
(* through.                                                                *)
(* A definition named Mutant_X_... is what a plausible bug would make of   *)
(* the definition X after it; no specification uses it.                    *)
(***************************************************************************)
EXTENDS Replay

CONSTANTS
  MaxUnread     \* bound: a thread starts nothing with so many events unread

ASSUME MutexesAssumption == IsFiniteSet(Mutexes)

VARIABLES
  templates,    \* Detection::history, as a set
  killed        \* the deadlock was saved and the signal raised

detVars == <<templates, killed>>
allVars == <<vars, replayVars, detVars>>

Search == INSTANCE RagSearch WITH Vertices <- Threads \cup Mutexes

DetInit ==
  /\ Init
  /\ ReplayInit
  /\ templates = Elements(History)
  /\ killed = FALSE

-----------------------------------------------------------------------------
(* The positions of the edges of a cycle that have one of the given types, *)
(* last one first.                                                         *)
TemplateOf(cycle, types) ==
  LET last(i) == cycle[Len(cycle) + 1 - i]
      rest[i \in 0..Len(cycle)] ==
        IF i = 0 THEN <<>>
        ELSE IF last(i).type \in types THEN Append(rest[i - 1], last(i).pos) ELSE rest[i - 1]
  IN  rest[Len(cycle)]

(* The order in which req_threads is iterated is that of the addresses. *)
Orders(S) == {s \in [1..Cardinality(S) -> S] : Elements(s) = S}

Deadlock(ts) == Search!HasCycle(rag, ts)
Livelock(ts) == Search!HasAllCycles(rag, ts, Deadlock(ts).cycle)

ReportDeadlock(ts) ==
  /\ Deadlock(ts).found
  /\ templates' = templates \cup {TemplateOf(Deadlock(ts).cycle, {"HOLD"})}
  /\ killed' = TRUE
  /\ mpc' = "off"
  /\ UNCHANGED <<vars, rag, reqThreads, cursor, behind>>

(* The first half of breaking a livelock; the second is BreakNotify.       *)
BreakLivelock(ts) ==
  LET es == Livelock(ts).cycle
      chosen == Search!FirstYield(rag, es)
  IN
  /\ ~Deadlock(ts).found /\ Livelock(ts).found
  /\ templates' = templates \cup {TemplateOf(es, {"HOLD", "YIELD"})}
  /\ rag' = [rag EXCEPT !.kafa = Livelock(ts).kafa]
  /\ \/ /\ chosen = {}
        /\ mpc' = "idle"
        /\ UNCHANGED <<bypass, breaking>>
     \/ \E e \in chosen :
          /\ bypass' = [bypass EXCEPT ![e.from] = TRUE]
          /\ breaking' = {e.from}
          /\ mpc' = "notify"
  /\ UNCHANGED <<pc, arg, lockPos, lockVars, realVars, grantVars, yieldCause, yielded, eq,
                 reqThreads, cursor, behind, killed>>

FindNothing(ts) ==
  /\ ~Deadlock(ts).found /\ ~Livelock(ts).found
  /\ rag' = [rag EXCEPT !.kafa = Livelock(ts).kafa]
  /\ mpc' = "idle"
  /\ UNCHANGED <<vars, reqThreads, cursor, behind, detVars>>

CheckForCycles ==
  /\ mpc = "check"
  /\ \E ts \in Orders(reqThreads) :
       ReportDeadlock(ts) \/ BreakLivelock(ts) \/ FindNothing(ts)

-----------------------------------------------------------------------------
MonitorStep ==
  \/ StartPass /\ UNCHANGED detVars
  \/ \E t \in Threads : DrainQueue(t) /\ UNCHANGED detVars
  \/ CheckForCycles
  \/ Notify /\ UNCHANGED detVars

(* The signal ends the program. *)
ProgramStep ==
  /\ ~killed
  /\ \E t \in Threads :
       \/ Step(t) \/ SpuriousWakeup(t)
       \/ Len(eq[t]) < MaxUnread /\ Operation(t)
  /\ Miscount
  /\ UNCHANGED <<rag, reqThreads, mpc, cursor, detVars>>

DetNext == MonitorStep \/ ProgramStep

DetSpec == DetInit /\ [][DetNext]_allVars

(* The monitor thread keeps running: as it can always take its next step,  *)
(* weak fairness of MonitorStep is that it stays at none for ever.         *)
MonitorRuns ==
  /\ \A l \in {"idle", "check", "notify"} : []<>(mpc # l)
  /\ \A c \in DOMAIN QueueOrder : []<>~(mpc = "drain" /\ cursor = c)

DetFairSpec == DetSpec /\ MonitorRuns

-----------------------------------------------------------------------------
(* Properties *)

(* The types of what this module and Replay add to Avoidance. *)
DetTypeOK ==
  /\ rag.edges \in [Threads \cup Mutexes ->
       Seq([to : Threads \cup Mutexes, type : {"REQUEST", "GRANT", "HOLD", "YIELD"}, pos : Positions])]
  /\ rag.valued \subseteq Threads \cup Mutexes /\ rag.kafa \subseteq Threads \cup Mutexes
  /\ reqThreads \subseteq Threads
  /\ mpc \in {"idle", "drain", "check", "notify", "off"} /\ cursor \in DOMAIN QueueOrder
  /\ behind \in [Threads -> Shortfalls]
  /\ templates \subseteq Seq(Positions)
  /\ killed \in BOOLEAN

(* The monitor lets only threads through of which it has a YIELD event,    *)
(* and leaves the rest of the state of the threads alone.                  *)
A == INSTANCE Avoidance WITH
       eq <- [t \in Threads |-> <<>>], Features <- Features \ {"events"}
ImplementsAvoidance == A!Spec

(* Nothing is left to read in the queues. *)
Quiet == \A t \in Threads : eq[t] = <<>>

(* Different threads f[i] own mutexes h[i], acquired at T[i], and each     *)
(* asks for one of another.                                                *)
AskInCircle(T, f, h) ==
  /\ \A i, j \in DOMAIN T : f[i] = f[j] => i = j
  /\ \A i \in DOMAIN T :
       /\ owner[h[i]] = f[i] /\ acqPos[h[i]] = T[i]
       /\ Asks(f[i]) /\ \E j \in DOMAIN T \ {i} : arg[f[i]].mtx = h[j]

SavedDeadlock ==
  \E T \in templates : \E f \in [DOMAIN T -> Threads], h \in [DOMAIN T -> Mutexes] :
    T # <<>> /\ AskInCircle(T, f, h)

(* "deadlock found and saved to dlock.history", says the monitor, and      *)
(* kills the process: there is one, and it is what was saved.              *)
ReportIsDeadlock == killed => SavedDeadlock

(* The same, when no event has come in since the queues were read.         *)
QuietReportIsDeadlock == killed /\ Quiet => SavedDeadlock

(* Some threads, at least one of them at a lock, can only be let go on by  *)
(* one another.                                                            *)
Stuck(S, t) ==
  \/ pc[t] = "locking" /\ holder[arg[t].mtx] \in S
  \/ pc[t] = "asleep" /\ yieldCause[t] # {} /\ \A c \in yieldCause[t] : c.thread \in S

Deadlocked(S) == S # {} /\ \A t \in S : pc[t] = "locking" /\ Stuck(S, t)

(* The monitor will know what t asks for: the last two events of a thread  *)
(* at a lock are REQUEST and GRANT, and they are not both out of reach of  *)
(* a counter that stays short by two or more.                              *)
Heard(t) == behind[t] <= 1 \/ Len(eq[t]) < behind[t]

(* A deadlock is found and saved, in the end and whatever the other        *)
(* threads do, unless the counter of one of its threads hides that it      *)
(* asks: that thread records nothing more, and is never heard.             *)
DeadlockFound ==
  (\E S \in SUBSET Threads : Deadlocked(S) /\ \A t \in S : Heard(t)) ~> killed

(* Threads that ask for mutexes of one another, and have told the monitor. *)
InCircle(S) ==
  S # {} /\ \A t \in S : eq[t] = <<>> /\ Asks(t) /\ owner[arg[t].mtx] \in S

(* has_cycle finds a cycle whenever there is one among the threads whose   *)
(* queues are read, whatever the other threads have left unread meanwhile, *)
(* and from whichever threads it starts first.                             *)
DeadlockSeen ==
  mpc = "check" /\ (\E S \in SUBSET Threads : InCircle(S)) =>
    \A ts \in Orders(reqThreads) : Deadlock(ts).found

Livelocked(t) ==
  \E S \in SUBSET Threads : t \in S /\ \A u \in S : Stuck(S, u)

(* has_allcycles "returns true if any thread t in vt is livelocked".       *)
LivelockSeen ==
  mpc = "check" /\ Quiet /\ (\E t \in reqThreads : Livelocked(t)) =>
    \A ts \in Orders(reqThreads) : Deadlock(ts).found \/ Livelock(ts).found
=============================================================================
