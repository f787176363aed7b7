------------------------------ MODULE Avoidance ------------------------------
(***************************************************************************)
(* The avoidance half of the pthreads port of Dimmunix, as the threads of  *)
(* a program run it around every pthread_mutex operation                   *)
(* (pthreads/src/preload.c, avoidance.cc, thread.cc).                      *)
(*                                                                         *)
(* A thread asks for a grant before it locks: yield_request gives one, or  *)
(* tells the thread to wait on the grants that, with this one, would       *)
(* occupy every position of a remembered deadlock.  A release takes the    *)
(* grant back and wakes whoever waited on it.                              *)
(*                                                                         *)
(* Every action is what one thread does between two points at which        *)
(* another can be seen to interfere: the real mutexes, avoidLock and       *)
(* fYieldMtx.  Any thread may lock any mutex at any position, so that a    *)
(* behaviour of this module is a behaviour of some program.                *)
(***************************************************************************)
EXTENDS Integers, Sequences, FiniteSets

CONSTANTS
  Threads,      \* threads of the program
  Mutexes,      \* its pthread mutexes, all with avoidance on
  Positions,    \* hash codes of the call stacks it locks at
  History,      \* the templates loaded at start: sequences of positions
  Recursive,    \* the mutexes of type PTHREAD_MUTEX_RECURSIVE
  Features,     \* what the program and the monitor do, see below
  MaxHeld,      \* bound: mutexes one thread holds or asks for at a time
  MaxDepth,     \* bound: how deep a recursive mutex is locked
  NULL          \* the null pointer

(* "trylock": the program calls pthread_mutex_trylock; "condwait": it      *)
(* calls pthread_cond_wait; "cancel": it gives up a granted lock through   *)
(* dlock_cancel; "fail": the real pthread_mutex_lock may return an error;  *)
(* "break": the monitor breaks livelocks; "events": the events for the     *)
(* monitor are recorded (Replay reads them).                               *)
AllFeatures == {"trylock", "condwait", "cancel", "fail", "break", "events"}

ASSUME NullAssumption == NULL \notin Threads \cup Mutexes \cup Positions
ASSUME HistoryAssumption ==
  /\ History \in Seq(Seq(Positions))
  /\ \A k \in DOMAIN History : Len(History[k]) >= 2
ASSUME FeaturesAssumption == Features \subseteq AllFeatures
ASSUME RecursiveAssumption == Recursive \subseteq Mutexes

VARIABLES
  pc,           \* pc[t]: what thread t does next
  arg,          \* arg[t]: the mutex and position of its operation
  lockPos,      \* lockPos[t]: Thread::lockPos
  owner,        \* owner[m]: Mutex::owner
  acqPos,       \* acqPos[m]: Mutex::pos
  count,        \* count[m]: Mutex::count
  holder,       \* holder[m]: who has the real mutex
  depth,        \* depth[m]: how many times (recursive mutexes)
  avoidLock,    \* who has Avoidance::avoidLock
  allowed,      \* allowed[p]: the grants given at position p, oldest first
  yielders,     \* yielders[c]: the threads that wait on cause c
  failed,       \* the grants of which a lock has failed; not in the code
  yieldCause,   \* yieldCause[t]: Thread::yield_cause
  bypass,       \* bypass[t]: Thread::bypass_avoidance
  yielded,      \* threads of which the monitor has seen a YIELD event
  breaking,     \* the threads the monitor has set bypass for, not notified
  eq            \* eq[t]: Thread::_eq, the events the monitor has not read

lockVars  == <<owner, acqPos, count>>
realVars  == <<holder, depth>>
grantVars == <<avoidLock, allowed, yielders, failed>>
monVars   == <<yielded, breaking>>
vars == <<pc, arg, lockPos, lockVars, realVars, grantVars, yieldCause, bypass,
          monVars, eq>>

-----------------------------------------------------------------------------
(* The data of the algorithm. *)

(* LockGrant: a permission to lock mtx; the list it is in says at which position. *)
LockGrants == [thread : Threads, mtx : Mutexes]

(* YieldCause: a grant somebody waits on. *)
Causes == [pos : Positions, thread : Threads, mtx : Mutexes]

NoArg == [mtx |-> NULL, pos |-> NULL]
Args == [mtx : Mutexes \cup {NULL}, pos : Positions \cup {NULL}]

EventTypes == {"REQUEST", "YIELD", "GRANT", "ACQUIRED", "RELEASE", "CANCEL"}
Events == [type : EventTypes, mtx : Mutexes, pos : Positions \cup {NULL},
           cause : SUBSET Causes]

PCs == {"idle", "request", "decide", "granted", "locking", "acquired",
        "yielding", "wait", "asleep", "trying", "releasing", "unlocking",
        "cancelling", "condwait"}

Elements(s) == {s[i] : i \in DOMAIN s}

(* A definition named Mutant_X_... is what a plausible bug would make of   *)
(* the definition X that comes after it.  No specification uses it: a run  *)
(* that puts it in the place of X shows which property would notice.       *)
Mutant_Without_LeavesHole(s, i) == [s EXCEPT ![i] = NULL]

(* s without its element at index i. *)
Without(s, i) == [j \in 1..(Len(s) - 1) |-> IF j < i THEN s[j] ELSE s[j + 1]]

Mutant_OtherSlots_AllOfP(T, p) == {j \in DOMAIN T : T[j] # p}

(* The slots a template has left for others when a thread asks for a lock  *)
(* at p: all its positions but the first that is p.                        *)
OtherSlots(T, p) ==
  {j \in DOMAIN T : T[j] # p \/ \E i \in DOMAIN T : i < j /\ T[i] = p}

Mutant_Matches_OffByOne(T, p) == \A j \in OtherSlots(T, p) : Len(allowed[T[j]]) > 1

(* match_template: every other slot has a grant.  The code takes the first *)
(* grant of each list, whoever has it.                                     *)
Matches(T, p) == \A j \in OtherSlots(T, p) : allowed[T[j]] # <<>>

MatchedGrants(T, p) ==
  {[pos |-> T[j], thread |-> allowed[T[j]][1].thread, mtx |-> allowed[T[j]][1].mtx] :
     j \in OtherSlots(T, p)}

Mutant_MatchingTemplates_FirstOnly(p) ==
  {k \in DOMAIN History :
     /\ p \in Elements(History[k]) /\ Matches(History[k], p)
     /\ \A j \in DOMAIN History : p \in Elements(History[j]) => k <= j}

(* history_positions[p], in the order of the history, restricted to the    *)
(* templates that match.                                                   *)
MatchingTemplates(p) ==
  {k \in DOMAIN History : p \in Elements(History[k]) /\ Matches(History[k], p)}

Enqueue(t, type, m, p, cause) ==
  eq' = IF "events" \in Features
        THEN [eq EXCEPT ![t] = Append(@, [type |-> type, mtx |-> m, pos |-> p, cause |-> cause])]
        ELSE eq

Goto(t, l) == pc' = [pc EXCEPT ![t] = l]

(* The operation returns: its locals are gone. *)
Return(t) == Goto(t, "idle") /\ arg' = [arg EXCEPT ![t] = NoArg]

Held(t) == {m \in Mutexes : holder[m] = t}

-----------------------------------------------------------------------------
Init ==
  /\ pc = [t \in Threads |-> "idle"]
  /\ arg = [t \in Threads |-> NoArg]
  /\ lockPos = [t \in Threads |-> NULL]
  /\ owner = [m \in Mutexes |-> NULL]
  /\ acqPos = [m \in Mutexes |-> NULL]
  /\ count = [m \in Mutexes |-> 0]
  /\ holder = [m \in Mutexes |-> NULL]
  /\ depth = [m \in Mutexes |-> 0]
  /\ avoidLock = NULL
  /\ allowed = [p \in Positions |-> <<>>]
  /\ yielders = [c \in Causes |-> {}]
  /\ failed = {}
  /\ yieldCause = [t \in Threads |-> {}]
  /\ bypass = [t \in Threads |-> FALSE]
  /\ yielded = {}
  /\ breaking = {}
  /\ eq = [t \in Threads |-> <<>>]

(* A program locks a mutex it already has only if it is recursive, and     *)
(* stays below the bounds MaxHeld and MaxDepth.                            *)
MayLock(t, m) ==
  IF holder[m] = t THEN m \in Recursive /\ depth[m] < MaxDepth
                   ELSE Cardinality(Held(t)) < MaxHeld

(* The real mutex m can be locked by t. *)
RealFree(t, m) == holder[m] = NULL \/ (holder[m] = t /\ m \in Recursive)

-----------------------------------------------------------------------------
(* pthread_mutex_lock *)

(* Avoidance::acquire up to the first yield_request. *)
Acquire(t, m, p) ==
  /\ pc[t] = "idle"
  /\ MayLock(t, m)
  /\ arg' = [arg EXCEPT ![t] = [mtx |-> m, pos |-> p]]
  /\ IF owner[m] = t
     THEN Goto(t, "locking") /\ UNCHANGED <<lockPos, eq>>
     ELSE /\ lockPos' = [lockPos EXCEPT ![t] = p]
          /\ Enqueue(t, "REQUEST", m, p, {})
          /\ Goto(t, "request")
  /\ UNCHANGED <<lockVars, realVars, grantVars, yieldCause, bypass, monVars>>

(* yield_request takes avoidLock and calls template_instance, which keeps  *)
(* the old yield_cause when no template matches.                           *)
TemplateInstance(t) ==
  /\ pc[t] = "request"
  /\ avoidLock = NULL
  /\ avoidLock' = t
  /\ LET ks == MatchingTemplates(arg[t].pos) IN
     \/ (ks = {} /\ UNCHANGED yieldCause)
     \/ \E k \in ks :
          /\ \A j \in ks : k <= j
          /\ yieldCause' = [yieldCause EXCEPT ![t] = MatchedGrants(History[k], arg[t].pos)]
  /\ Goto(t, "decide")
  /\ UNCHANGED <<arg, lockPos, lockVars, realVars, allowed, yielders, failed, bypass, monVars, eq>>

(* The rest of yield_request when it grants, with insert_allowed.          *)
Grant(t) ==
  /\ pc[t] = "decide"
  /\ yieldCause[t] = {} \/ bypass[t]
  /\ bypass' = [bypass EXCEPT ![t] = FALSE]
  /\ allowed' = [allowed EXCEPT ![arg[t].pos] = Append(@, [thread |-> t, mtx |-> arg[t].mtx])]
  /\ avoidLock' = NULL
  /\ Goto(t, "granted")
  /\ UNCHANGED <<arg, lockPos, lockVars, realVars, yielders, failed, yieldCause, monVars, eq>>

EmitGrant(t) ==
  /\ pc[t] = "granted"
  /\ Enqueue(t, "GRANT", arg[t].mtx, arg[t].pos, {})
  /\ Goto(t, "locking")
  /\ UNCHANGED <<arg, lockPos, lockVars, realVars, grantVars, yieldCause, bypass, monVars>>

(* The rest of yield_request when it yields ... *)
Yield(t) ==
  /\ pc[t] = "decide"
  /\ yieldCause[t] # {} /\ ~bypass[t]
  /\ yielders' = [c \in Causes |-> IF c \in yieldCause[t] THEN yielders[c] \cup {t} ELSE yielders[c]]
  /\ avoidLock' = NULL
  /\ Goto(t, "yielding")
  /\ UNCHANGED <<arg, lockPos, lockVars, realVars, allowed, failed, yieldCause, bypass, monVars,
                 eq>>

(* ... whose event copies yield_cause after avoidLock is released. *)
EmitYield(t) ==
  /\ pc[t] = "yielding"
  /\ Enqueue(t, "YIELD", arg[t].mtx, arg[t].pos, yieldCause[t])
  /\ yielded' = IF "break" \in Features THEN yielded \cup {t} ELSE yielded
  /\ Goto(t, "wait")
  /\ UNCHANGED <<arg, lockPos, lockVars, realVars, grantVars, yieldCause, bypass, breaking>>

(* yield_wait looks at its condition under fYieldMtx, when it starts and   *)
(* whenever it is woken: it waits on ...                                   *)
Sleep(t) ==
  /\ pc[t] = "wait"
  /\ yieldCause[t] # {} /\ ~bypass[t]
  /\ Goto(t, "asleep")
  /\ UNCHANGED <<arg, lockPos, lockVars, realVars, grantVars, yieldCause, bypass, monVars, eq>>

(* ... or acquire calls yield_request again. *)
Retry(t) ==
  /\ pc[t] = "wait"
  /\ yieldCause[t] = {} \/ bypass[t]
  /\ Goto(t, "request")
  /\ UNCHANGED <<arg, lockPos, lockVars, realVars, grantVars, yieldCause, bypass, monVars, eq>>

Mutant_Cleared_SleepersOnly(ts) ==
  [t \in Threads |-> IF t \in ts /\ pc[t] = "asleep" THEN {} ELSE yieldCause[t]]

(* yield_notify of the threads in ts: the causes of each are cleared, and  *)
(* one that had any is signalled; a signal is lost on who does not sleep.  *)
Cleared(ts) == [t \in Threads |-> IF t \in ts THEN {} ELSE yieldCause[t]]
Woken(ts) == [t \in Threads |->
                IF t \in ts /\ yieldCause[t] # {} /\ pc[t] = "asleep" THEN "wait" ELSE pc[t]]

(* pthread_cond_wait may return without a signal. *)
SpuriousWakeup(t) ==
  /\ pc[t] = "asleep"
  /\ Goto(t, "wait")
  /\ UNCHANGED <<arg, lockPos, lockVars, realVars, grantVars, yieldCause, bypass, monVars, eq>>

(* real_pthread_mutex_lock returns. *)
RealLock(t) ==
  LET m == arg[t].mtx IN
  /\ pc[t] = "locking"
  /\ RealFree(t, m)
  /\ holder' = [holder EXCEPT ![m] = t]
  /\ depth' = [depth EXCEPT ![m] = @ + 1]
  /\ Goto(t, "acquired")
  /\ UNCHANGED <<arg, lockPos, lockVars, grantVars, yieldCause, bypass, monVars, eq>>

(* It returns an error: the wrapper passes it on and calls nothing more,   *)
(* and a grant that was given for the call stays.                          *)
RealLockFails(t) ==
  LET c == [pos |-> arg[t].pos, thread |-> t, mtx |-> arg[t].mtx] IN
  /\ "fail" \in Features
  /\ pc[t] = "locking"
  /\ failed' = IF owner[arg[t].mtx] = t THEN failed ELSE failed \cup {c}
  /\ Return(t)
  /\ UNCHANGED <<lockPos, lockVars, realVars, avoidLock, allowed, yielders, yieldCause, bypass,
                 monVars, eq>>

(* Avoidance::acquired *)
Acquired(t) ==
  LET m == arg[t].mtx IN
  /\ pc[t] = "acquired"
  /\ IF owner[m] = NULL
     THEN /\ acqPos' = [acqPos EXCEPT ![m] = lockPos[t]]
          /\ owner' = [owner EXCEPT ![m] = t]
          /\ Enqueue(t, "ACQUIRED", m, lockPos[t], {})
     ELSE UNCHANGED <<acqPos, owner, eq>>
  /\ count' = [count EXCEPT ![m] = @ + 1]
  /\ Return(t)
  /\ UNCHANGED <<lockPos, realVars, grantVars, yieldCause, bypass, monVars>>

-----------------------------------------------------------------------------
(* pthread_mutex_trylock: the position is noted, no grant is asked for. *)

TryAcquire(t, m, p) ==
  /\ "trylock" \in Features
  /\ pc[t] = "idle"
  /\ MayLock(t, m)
  /\ arg' = [arg EXCEPT ![t] = [mtx |-> m, pos |-> p]]
  /\ lockPos' = IF owner[m] = t THEN lockPos ELSE [lockPos EXCEPT ![t] = p]
  /\ Goto(t, "trying")
  /\ UNCHANGED <<lockVars, realVars, grantVars, yieldCause, bypass, monVars, eq>>

RealTryLock(t) ==
  LET m == arg[t].mtx IN
  /\ pc[t] = "trying"
  /\ IF RealFree(t, m)
     THEN /\ holder' = [holder EXCEPT ![m] = t]
          /\ depth' = [depth EXCEPT ![m] = @ + 1]
          /\ Goto(t, "acquired") /\ UNCHANGED arg
     ELSE Return(t) /\ UNCHANGED realVars
  /\ UNCHANGED <<lockPos, lockVars, grantVars, yieldCause, bypass, monVars, eq>>

-----------------------------------------------------------------------------
(* pthread_mutex_unlock *)

Mutant_Release_ClearsPosFirst(t, m) ==
  /\ pc[t] = "idle"
  /\ holder[m] = t
  /\ count' = [count EXCEPT ![m] = @ - 1]
  /\ acqPos' = [acqPos EXCEPT ![m] = NULL]
  /\ arg' = [arg EXCEPT ![t] = [mtx |-> m, pos |-> acqPos[m]]]
  /\ IF count'[m] > 0 \/ acqPos[m] = NULL
     THEN Goto(t, "unlocking") /\ UNCHANGED <<owner, eq>>
     ELSE /\ owner' = [owner EXCEPT ![m] = NULL]
          /\ Enqueue(t, "RELEASE", m, acqPos[m], {})
          /\ Goto(t, "releasing")
  /\ UNCHANGED <<lockPos, realVars, grantVars, yieldCause, bypass, monVars>>

Mutant_Release_KeepsOwner(t, m) ==
  /\ pc[t] = "idle"
  /\ holder[m] = t
  /\ count' = [count EXCEPT ![m] = @ - 1]
  /\ arg' = [arg EXCEPT ![t] = [mtx |-> m, pos |-> acqPos[m]]]
  /\ IF count'[m] > 0 \/ acqPos[m] = NULL
     THEN Goto(t, "unlocking") /\ UNCHANGED <<acqPos, eq>>
     ELSE /\ acqPos' = [acqPos EXCEPT ![m] = NULL]
          /\ Enqueue(t, "RELEASE", m, acqPos[m], {})
          /\ Goto(t, "releasing")
  /\ UNCHANGED <<owner, lockPos, realVars, grantVars, yieldCause, bypass, monVars>>

Mutant_Release_CountOffByOne(t, m) ==
  /\ pc[t] = "idle"
  /\ holder[m] = t
  /\ count' = [count EXCEPT ![m] = @ - 1]
  /\ arg' = [arg EXCEPT ![t] = [mtx |-> m, pos |-> acqPos[m]]]
  /\ IF count'[m] >= 0 \/ acqPos[m] = NULL
     THEN Goto(t, "unlocking") /\ UNCHANGED <<owner, acqPos, eq>>
     ELSE /\ owner' = [owner EXCEPT ![m] = NULL]
          /\ acqPos' = [acqPos EXCEPT ![m] = NULL]
          /\ Enqueue(t, "RELEASE", m, acqPos[m], {})
          /\ Goto(t, "releasing")
  /\ UNCHANGED <<lockPos, realVars, grantVars, yieldCause, bypass, monVars>>

(* Avoidance::release up to avoidLock, on its three ways out.              *)
Release(t, m) ==
  /\ pc[t] = "idle"
  /\ holder[m] = t
  /\ count' = [count EXCEPT ![m] = @ - 1]
  /\ arg' = [arg EXCEPT ![t] = [mtx |-> m, pos |-> acqPos[m]]]
  /\ \/ /\ count'[m] > 0
        /\ Goto(t, "unlocking")
        /\ UNCHANGED <<owner, acqPos, eq>>
     \/ /\ count'[m] <= 0
        /\ owner' = [owner EXCEPT ![m] = NULL]
        /\ IF acqPos[m] = NULL
           THEN Goto(t, "unlocking") /\ UNCHANGED <<acqPos, eq>>
           ELSE /\ acqPos' = [acqPos EXCEPT ![m] = NULL]
                /\ Enqueue(t, "RELEASE", m, acqPos[m], {})
                /\ Goto(t, "releasing")
  /\ UNCHANGED <<lockPos, realVars, grantVars, yieldCause, bypass, monVars>>

Mutant_RemoveAllowed_AnyMutex(t, m, p) ==
  LET s == allowed[p] IN
  IF \E i \in DOMAIN s : s[i].thread = t
  THEN \E i \in DOMAIN s :
         /\ s[i].thread = t
         /\ \A j \in DOMAIN s : j < i => s[j].thread # t
         /\ allowed' = [allowed EXCEPT ![p] = Without(s, i)]
  ELSE UNCHANGED allowed

(* remove_allowed: the first grant of t for m in the list of position p.   *)
RemoveAllowed(t, m, p) ==
  LET g == [thread |-> t, mtx |-> m]
      s == allowed[p] IN
  \/ /\ g \notin Elements(s)
     /\ UNCHANGED allowed
  \/ \E i \in DOMAIN s :
       /\ s[i] = g
       /\ \A j \in DOMAIN s : j < i => s[j] # g
       /\ allowed' = [allowed EXCEPT ![p] = Without(s, i)]

(* The critical section of release: the grant is taken back and whoever    *)
(* waits on it is notified, then lockPos is reset.                         *)
ReleaseAllowed(t) ==
  LET m == arg[t].mtx
      p == arg[t].pos
      c == [pos |-> p, thread |-> t, mtx |-> m] IN
  /\ pc[t] = "releasing"
  /\ avoidLock = NULL
  /\ RemoveAllowed(t, m, p)
  /\ yieldCause' = Cleared(yielders[c])
  /\ pc' = [Woken(yielders[c]) EXCEPT ![t] = "unlocking"]
  /\ yielders' = [yielders EXCEPT ![c] = {}]
  /\ lockPos' = [lockPos EXCEPT ![t] = NULL]
  /\ UNCHANGED <<arg, lockVars, realVars, avoidLock, failed, bypass, monVars, eq>>

(* The real unlock. *)
RealUnlock(t) ==
  LET m == arg[t].mtx IN
  /\ pc[t] = "unlocking"
  /\ depth' = [depth EXCEPT ![m] = @ - 1]
  /\ holder' = IF depth'[m] = 0 THEN [holder EXCEPT ![m] = NULL] ELSE holder
  /\ Return(t)
  /\ UNCHANGED <<lockPos, lockVars, grantVars, yieldCause, bypass, monVars, eq>>

-----------------------------------------------------------------------------
(* dlock_cancel, for a program that gives a granted lock up before it has  *)
(* it: the grant is taken back, but nobody is notified.                    *)

Cancel(t) ==
  /\ "cancel" \in Features
  /\ pc[t] = "locking"
  /\ lockPos[t] # NULL /\ owner[arg[t].mtx] # t
  /\ Enqueue(t, "CANCEL", arg[t].mtx, lockPos[t], {})
  /\ Goto(t, "cancelling")
  /\ UNCHANGED <<arg, lockPos, lockVars, realVars, grantVars, yieldCause, bypass, monVars>>

Mutant_CancelAllowed_KeepsGrant(t) ==
  /\ pc[t] = "cancelling"
  /\ avoidLock = NULL
  /\ lockPos' = [lockPos EXCEPT ![t] = NULL]
  /\ Return(t)
  /\ UNCHANGED <<lockVars, realVars, grantVars, yieldCause, bypass, monVars, eq>>

CancelAllowed(t) ==
  /\ pc[t] = "cancelling"
  /\ avoidLock = NULL
  /\ RemoveAllowed(t, arg[t].mtx, lockPos[t])
  /\ lockPos' = [lockPos EXCEPT ![t] = NULL]
  /\ Return(t)
  /\ UNCHANGED <<lockVars, realVars, avoidLock, yielders, failed, yieldCause, bypass, monVars, eq>>

-----------------------------------------------------------------------------
(* pthread_cond_wait is not intercepted: the real mutex is released and    *)
(* taken again behind the back of the avoidance code.                      *)

CondWait(t, m) ==
  /\ "condwait" \in Features
  /\ pc[t] = "idle"
  /\ holder[m] = t /\ depth[m] = 1
  /\ holder' = [holder EXCEPT ![m] = NULL]
  /\ depth' = [depth EXCEPT ![m] = 0]
  /\ arg' = [arg EXCEPT ![t] = [mtx |-> m, pos |-> NULL]]
  /\ Goto(t, "condwait")
  /\ UNCHANGED <<lockPos, lockVars, grantVars, yieldCause, bypass, monVars, eq>>

CondWake(t) ==
  LET m == arg[t].mtx IN
  /\ pc[t] = "condwait"
  /\ holder[m] = NULL
  /\ holder' = [holder EXCEPT ![m] = t]
  /\ depth' = [depth EXCEPT ![m] = 1]
  /\ Return(t)
  /\ UNCHANGED <<lockPos, lockVars, grantVars, yieldCause, bypass, monVars, eq>>

-----------------------------------------------------------------------------
(* The monitor breaks a livelock by letting one thread through.  It picks  *)
(* one it has a YIELD event of, which may have been woken since, and does  *)
(* so without avoidLock: it sets bypass_avoidance ...                      *)

BreakYield(t) ==
  /\ t \in yielded
  /\ t \notin breaking
  /\ bypass' = [bypass EXCEPT ![t] = TRUE]
  /\ breaking' = breaking \cup {t}
  /\ UNCHANGED <<pc, arg, lockPos, lockVars, realVars, grantVars, yieldCause, yielded, eq>>

Mutant_BreakNotify_NoSignal(t) ==
  /\ t \in breaking
  /\ yieldCause' = Cleared({t})
  /\ breaking' = breaking \ {t}
  /\ UNCHANGED <<pc, arg, lockPos, lockVars, realVars, grantVars, bypass, yielded, eq>>

(* ... and then calls yield_notify. *)
BreakNotify(t) ==
  /\ t \in breaking
  /\ yieldCause' = Cleared({t})
  /\ pc' = Woken({t})
  /\ breaking' = breaking \ {t}
  /\ UNCHANGED <<arg, lockPos, lockVars, realVars, grantVars, bypass, yielded, eq>>

-----------------------------------------------------------------------------
(* What a thread does once it has started an operation ... *)
Step(t) ==
  \/ TemplateInstance(t) \/ Grant(t) \/ EmitGrant(t)
  \/ Yield(t) \/ EmitYield(t) \/ Sleep(t) \/ Retry(t)
  \/ RealLock(t) \/ RealLockFails(t) \/ Acquired(t) \/ RealTryLock(t)
  \/ ReleaseAllowed(t) \/ RealUnlock(t)
  \/ CancelAllowed(t) \/ CondWake(t)

(* ... and the operations its program chooses from. *)
Operation(t) ==
  \/ \E m \in Mutexes, p \in Positions : Acquire(t, m, p) \/ TryAcquire(t, m, p)
  \/ \E m \in Mutexes : Release(t, m) \/ CondWait(t, m)
  \/ Cancel(t)

Monitor == \E t \in Threads : BreakYield(t) \/ BreakNotify(t)

Next == \/ \E t \in Threads : Step(t) \/ Operation(t) \/ SpuriousWakeup(t)
        \/ Monitor

Spec == Init /\ [][Next]_vars

(* The threads keep running, a program does not sit on a lock forever, and *)
(* who tries again and again for a lock that is free again and again gets  *)
(* it in the end.                                                          *)
ThreadFairness ==
  \A t \in Threads :
    /\ WF_vars(Step(t))
    /\ WF_vars(\E m \in Mutexes : Release(t, m))
    /\ SF_vars(TemplateInstance(t)) /\ SF_vars(ReleaseAllowed(t)) /\ SF_vars(RealLock(t))

(* The monitor finishes what it began. *)
MonitorFairness == \A t \in Threads : WF_vars(BreakNotify(t))

FairSpec == Spec /\ ThreadFairness /\ MonitorFairness

-----------------------------------------------------------------------------
(* Properties *)

(* Every variable keeps its type. *)
TypeOK ==
  /\ pc \in [Threads -> PCs]
  /\ arg \in [Threads -> Args]
  /\ lockPos \in [Threads -> Positions \cup {NULL}]
  /\ owner \in [Mutexes -> Threads \cup {NULL}]
  /\ acqPos \in [Mutexes -> Positions \cup {NULL}]
  /\ count \in [Mutexes -> Int]
  /\ holder \in [Mutexes -> Threads \cup {NULL}]
  /\ depth \in [Mutexes -> Int]
  /\ avoidLock \in Threads \cup {NULL}
  /\ allowed \in [Positions -> Seq(LockGrants)]
  /\ yielders \in [Causes -> SUBSET Threads]
  /\ failed \in SUBSET Causes
  /\ yieldCause \in [Threads -> SUBSET Causes]
  /\ bypass \in [Threads -> BOOLEAN]
  /\ yielded \in SUBSET Threads
  /\ breaking \in SUBSET Threads
  /\ eq \in [Threads -> Seq(Events)]

(* The allowed map as the abstract specification sees it. *)
GrantsInForce ==
  {c \in Causes : [thread |-> c.thread, mtx |-> c.mtx] \in Elements(allowed[c.pos])}
Tokens == {t \in Threads : bypass[t]}

I == INSTANCE Immunity WITH grants <- GrantsInForce, tokens <- Tokens

(* Avoidance gives and takes grants as Immunity does: a grant completes a  *)
(* known deadlock pattern only if it spends the bypass of its thread.      *)
ImplementsImmunity == I!Spec

(* No set of grants in force puts a different one on every position of a   *)
(* remembered deadlock (the promise of template_instance, as long as the   *)
(* monitor lets nobody through).                                           *)
NoOccupation == \A k \in DOMAIN History : ~I!Occupies(GrantsInForce, History[k])

(* Threads f[i] each hold a mutex acquired at T[i], and each is blocked on *)
(* one that another of them holds.                                         *)
DeadlockAt(T, f, h) ==
  /\ \A i, j \in DOMAIN T : f[i] = f[j] => i = j
  /\ \A i \in DOMAIN T :
       /\ holder[h[i]] = f[i] /\ acqPos[h[i]] = T[i]
       /\ pc[f[i]] = "locking" /\ \E j \in DOMAIN T \ {i} : arg[f[i]].mtx = h[j]

(* A deadlock in the history does not happen again: what Dimmunix is for.  *)
Immune ==
  \A k \in DOMAIN History :
    \A f \in [DOMAIN History[k] -> Threads], h \in [DOMAIN History[k] -> Mutexes] :
      ~DeadlockAt(History[k], f, h)

(* Whoever owns a mutex does so under a grant for it at the position it    *)
(* was acquired at, so that the matching sees every lock that is held.     *)
HoldersGranted ==
  \A m \in Mutexes : owner[m] # NULL =>
    /\ acqPos[m] # NULL
    /\ [thread |-> owner[m], mtx |-> m] \in Elements(allowed[acqPos[m]])

(* Thread t has, asks for, or gives back mutex m under a grant at p. *)
Backed(t, m, p) ==
  \/ (owner[m] = t /\ acqPos[m] = p)
  \/ /\ arg[t].mtx = m
     /\ \/ (pc[t] \in {"granted", "locking", "acquired", "releasing"} /\ arg[t].pos = p)
        \/ (pc[t] = "cancelling" /\ lockPos[t] = p)

(* No grant outlives its lock, unless the real lock failed: every other    *)
(* one in force belongs to a thread that has the mutex, is about to, or is *)
(* giving it back, and is there once.  One that is left behind makes       *)
(* others yield for ever, as those in failed do.                           *)
NoLeakedGrant ==
  \A c \in Causes \ failed : \A i, j \in DOMAIN allowed[c.pos] :
    allowed[c.pos][i] = [thread |-> c.thread, mtx |-> c.mtx] =>
      /\ Backed(c.thread, c.mtx, c.pos)
      /\ allowed[c.pos][i] = allowed[c.pos][j] => i = j

(* A thread that waits, or is about to, is registered with every grant it  *)
(* waits on, and each of those grants is in force: whoever takes it back   *)
(* is going to wake it.                                                    *)
NoLostWakeup ==
  \A t \in Threads : pc[t] \in {"yielding", "wait", "asleep"} =>
    \A c \in yieldCause[t] : t \in yielders[c] /\ c \in GrantsInForce

(* Mutex::owner is "current owner otherwise null" (mutex.h): it never      *)
(* names a thread that does not have the mutex.                            *)
OwnerIsHolder == \A m \in Mutexes : owner[m] # NULL => owner[m] = holder[m]

(* What release calls "bad and should not happen" does not: whoever gives  *)
(* a mutex back for the last time finds the position it was acquired at.   *)
PositionKnown ==
  \A m \in Mutexes, t \in Threads :
    holder[m] = t /\ pc[t] = "idle" /\ count[m] <= 1 => acqPos[m] # NULL

(* A thread that sleeps on a grant in force is woken.  That what it sleeps *)
(* on is in force is NoLostWakeup.                                         *)
YieldersWake ==
  \A t \in Threads :
    (pc[t] = "asleep" /\ yieldCause[t] \cap GrantsInForce # {}) ~> (pc[t] # "asleep")

(* A thread the monitor lets through does not sleep on. *)
BypassWakes == \A t \in Threads : (pc[t] = "asleep" /\ bypass[t]) ~> (pc[t] # "asleep")
=============================================================================
