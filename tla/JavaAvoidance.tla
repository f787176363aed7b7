---------------------------- MODULE JavaAvoidance ----------------------------
(***************************************************************************)
(* Avoidance in the Java port (DimmunixOptimized, package deadlock), as    *)
(* the hooks around monitorenter and monitorexit run it, and the bypass    *)
(* of livelocks by its cycle detector.                                     *)
(*                                                                         *)
(* No lock protects the whole of it.  A thread first publishes its grants, *)
(* then looks for an instance of a signature among the grants it sees; if  *)
(* there is one, it takes its own back and waits for the others to go.     *)
(* Grants are objects that are recycled, each with a read-write lock that  *)
(* orders those who are about to wait for it before the thread that takes  *)
(* it back and wakes them.  Where an analysis of the program's methods has *)
(* found that a thread inside one position of a signature cannot come to   *)
(* the next one any more, a call has been put into the program that hides  *)
(* the grants of the thread's locks from then on and wakes who yields to   *)
(* it.                                                                     *)
(***************************************************************************)
EXTENDS Integers, Sequences, SequencesExt, FiniteSets

CONSTANTS
  Threads,      \* threads of the application
  Locks,        \* the objects they synchronize on
  Positions,    \* the call stacks they do it at
  History,      \* the signatures: sequences of positions
  Sites,        \* which thread locks what where: <<thread, lock, position>>
  SkipSites,    \* who calls skipAvoidance(): <<thread, signature, index in it>>
  PoolSize,     \* bound: the LockGrant objects of a thread
  MaxHeld,      \* bound: locks one thread has or asks for at a time
  MaxDepth,     \* bound: MaxDepth[l]: how deep it is in l
  NULL          \* the null pointer

ASSUME NullAssumption ==
  /\ NULL \notin Threads \cup Locks \cup Positions
  /\ NULL \notin Threads \X Nat
ASSUME HistoryAssumption ==
  /\ History \in Seq(Seq(Positions))
  /\ \A s \in DOMAIN History : Len(History[s]) >= 2
ASSUME PoolAssumption == PoolSize \in Nat
ASSUME SitesAssumption == Sites \subseteq Threads \X Locks \X Positions
ASSUME SkipSitesAssumption ==
  \A x \in SkipSites : x[1] \in Threads /\ x[2] \in DOMAIN History /\ x[3] \in DOMAIN History[x[2]]
ASSUME DepthAssumption == \A l \in Locks : MaxDepth[l] \in Nat \ {0}

VARIABLES
  pc,           \* pc[t]: what thread t does next
  arg,          \* arg[t]: the lock and position of its operation
  holder,       \* holder[l]: who is in the monitor of l
  owner,        \* owner[l]: LockNode::owner
  nlck,         \* nlck[l]: LockNode::nlck
  skip,         \* skip[l]: LockNode::skip
  acqGrants,    \* acqGrants[l]: LockNode::currentLockGrants
  lockGrants,   \* lockGrants[p]: Position::lockGrants, oldest first
  grant,        \* grant[g]: lock, position and n of the LockGrant g
  yielders,     \* yielders[g]: LockGrant::yielders
  readers,      \* readers[g]: who has yieldersLock of g for reading
  writer,       \* writer[g]: has the thread of g called its writeLock().lock()?
  removed,      \* removed[t]: ThreadNode::removedLockGrants, the last one first
  curGrants,    \* curGrants[t]: ThreadNode::currentLockGrants
  scan,         \* scan[t]: how far instantiatesTemplates has come
  curInstance,  \* curInstance[t]: ThreadNode::curInstance
  toSkip,       \* toSkip[t]: ThreadNode::instancesToSkip
  found,        \* yielding threads in the livelock the detector has found
  through       \* grants confirmed although the scan skipped an instance or
                \* passed over a grant

lockVars  == <<holder, owner, nlck, skip>>
grantVars == <<lockGrants, grant, removed>>
waitVars  == <<yielders, readers, writer>>
scanVars  == <<scan, curInstance>>
vars == <<pc, arg, lockVars, grantVars, waitVars, scanVars, curGrants, acqGrants,
          toSkip, found, through>>

(* A LockGrant serves one thread for ever: it is recycled through the     *)
(* removedLockGrants of that thread.                                       *)
LockGrants == Threads \X (1..PoolSize)
Thread(g) == g[1]

Elements(s) == {s[i] : i \in DOMAIN s}

(* currentMatchingPositions of a thread at p: places in signatures *)
MatchingPositions(p) ==
  UNION {{<<s, i>> : i \in {i \in DOMAIN History[s] : History[s][i] = p}} :
           s \in DOMAIN History}

(* lockGrants without g: ConcurrentLinkedQueue::remove(nodeRef) *)
Without(s, g) ==
  LET i == CHOOSE i \in DOMAIN s : s[i] = g
  IN [j \in 1..(Len(s) - 1) |-> IF j < i THEN s[j] ELSE s[j + 1]]

ScanOf(S) == [left |-> S, seen |-> << >>, cut |-> FALSE]
NoInstance  == [sig |-> 0, grants |-> << >>]
Unused      == [lock |-> NULL, pos |-> NULL, n |-> 0]

Init ==
  /\ pc = [t \in Threads |-> "idle"]
  /\ arg = [t \in Threads |-> <<NULL, NULL>>]
  /\ holder = [l \in Locks |-> NULL]
  /\ owner = [l \in Locks |-> NULL]
  /\ nlck = [l \in Locks |-> 0]
  /\ skip = [l \in Locks |-> FALSE]
  /\ acqGrants = [l \in Locks |-> << >>]
  /\ lockGrants = [p \in Positions |-> << >>]
  /\ grant = [g \in LockGrants |-> Unused]
  /\ yielders = [g \in LockGrants |-> {}]
  /\ readers = [g \in LockGrants |-> {}]
  /\ writer = [g \in LockGrants |-> FALSE]
  /\ removed = [t \in Threads |-> [i \in 1..PoolSize |-> <<t, i>>]]
  /\ curGrants = [t \in Threads |-> << >>]
  /\ scan = [t \in Threads |-> ScanOf({})]
  /\ curInstance = [t \in Threads |-> NoInstance]
  /\ toSkip = [t \in Threads |-> {}]
  /\ found = {}
  /\ through = {}

Goto(t, label) == pc' = [pc EXCEPT ![t] = label]
Lock(t) == arg[t][1]
Held(t) == {l \in Locks : owner[l] = t}

(* Entering a monitor *)

(* avoidance(): only a position of the history makes the thread ask. *)
Avoidance(t, l, p) ==
  /\ pc[t] = "idle"
  /\ <<t, l, p>> \in Sites
  /\ owner[l] # t
  /\ Cardinality(Held(t)) < MaxHeld
  /\ arg' = [arg EXCEPT ![t] = <<l, p>>]
  /\ Goto(t, IF MatchingPositions(p) = {} THEN "entering" ELSE "grant")
  /\ UNCHANGED <<lockVars, grantVars, waitVars, scanVars, curGrants, acqGrants,
                 toSkip, found, through>>

(* The thread is in the monitor already: acquire() only counts. *)
Reenter(t, l) ==
  /\ pc[t] = "idle"
  /\ owner[l] = t
  /\ nlck[l] < MaxDepth[l]
  /\ nlck' = [nlck EXCEPT ![l] = @ + 1]
  /\ UNCHANGED <<pc, arg, holder, owner, skip, grantVars, waitVars, scanVars, curGrants,
                 acqGrants, toSkip, found, through>>

(* grant(): one LockGrant for each matching position, published at once. *)
Grant(t) ==
  LET p == arg[t][2]
      g == Head(removed[t])
  IN /\ pc[t] = "grant"
     /\ removed[t] # << >>
     /\ removed' = [removed EXCEPT ![t] = Tail(@)]
     /\ grant' = [grant EXCEPT ![g] = [lock |-> Lock(t), pos |-> p, n |-> 1]]
     /\ lockGrants' = [lockGrants EXCEPT ![p] = Append(@, g)]
     /\ curGrants' = [curGrants EXCEPT ![t] = Append(@, g)]
     /\ IF Len(curGrants'[t]) = Cardinality(MatchingPositions(p))
        THEN /\ Goto(t, "scan")
             /\ scan' = [scan EXCEPT ![t] = ScanOf(MatchingPositions(p))]
        ELSE UNCHANGED <<pc, scan>>
     /\ UNCHANGED <<arg, lockVars, waitVars, curInstance, acqGrants, toSkip, found, through>>

(* The place in a signature the scan is at, and instance() of it.  The     *)
(* places are gone through in the order of the history.                    *)
At(t) ==
  CHOOSE x \in scan[t].left : \A y \in scan[t].left \ {x} :
    x[1] < y[1] \/ (x[1] = y[1] /\ x[2] < y[2])
Signature(t) == History[At(t)[1]]
Index(t) == At(t)[2]

(* A definition named Mutant_X_... is what a plausible bug would make of   *)
(* X: no specification uses it.                                            *)
Mutant_Look_MissesNewest(t) ==
  LET k == Len(scan[t].seen) + 1
      list == lockGrants[Signature(t)[k]]
  IN /\ pc[t] = "scan"
     /\ k <= Len(Signature(t))
     /\ scan' = [scan EXCEPT ![t] =
          [left |-> @.left,
           seen |-> Append(@.seen, IF k = Index(t) THEN <<curGrants[t][1]>>
                                   ELSE [j \in 1..(Len(list) - 1) |->
                                           IF skip[grant[list[j]].lock] THEN NULL ELSE list[j]]),
           cut  |-> @.cut \/ (k # Index(t) /\ \E j \in DOMAIN list : skip[grant[list[j]].lock])]]
     /\ UNCHANGED <<pc, arg, lockVars, grantVars, waitVars, curInstance, curGrants,
                    acqGrants, toSkip, found, through>>

(* The iterator over the grants at the next position.  It reads a list     *)
(* that others change: this model lets it read the list at one moment, and *)
(* the lists of the positions of a signature at different moments.  The    *)
(* grants of a lock to skip are passed over and leave a gap.               *)
Look(t) ==
  LET k == Len(scan[t].seen) + 1
      list == lockGrants[Signature(t)[k]]
  IN /\ pc[t] = "scan"
     /\ k <= Len(Signature(t))
     /\ scan' = [scan EXCEPT ![t] =
          [left |-> @.left,
           seen |-> Append(@.seen, IF k = Index(t) THEN <<curGrants[t][1]>>
                                   ELSE [j \in DOMAIN list |->
                                           IF skip[grant[list[j]].lock] THEN NULL ELSE list[j]]),
           cut  |-> @.cut \/ (k # Index(t) /\ \E j \in DOMAIN list : skip[grant[list[j]].lock])]]
     /\ UNCHANGED <<pc, arg, lockVars, grantVars, waitVars, curInstance, curGrants,
                    acqGrants, toSkip, found, through>>

(* LockGrant::disjoint *)
Disjoint(g, h) == Thread(g) # Thread(h) /\ grant[g].lock # grant[h].lock

(* The instances of the signature in what was seen, as indices. *)
Instances(seen) ==
  {f \in [DOMAIN seen -> UNION {DOMAIN seen[i] : i \in DOMAIN seen}] :
     /\ \A i \in DOMAIN f : f[i] \in DOMAIN seen[i] /\ seen[i][f[i]] # NULL
     /\ \A i, j \in DOMAIN f : i = j \/ Disjoint(seen[i][f[i]], seen[j][f[j]])}

(* The backtracking search comes to the lexicographically first one first. *)
First(fs) ==
  CHOOSE f \in fs : \A h \in fs \ {f} :
    \E i \in DOMAIN f : f[i] < h[i] /\ \A j \in 1..(i - 1) : f[j] = h[j]

(* Instance::cloneInstance and equalsTo: by signature, threads and locks. *)
Clone(inst) ==
  [sig |-> inst.sig, who |-> [i \in DOMAIN inst.grants |->
                                <<Thread(inst.grants[i]), grant[inst.grants[i]].lock>>]]

(* All positions of the signature are seen: is there an instance of it     *)
(* that is not to be skipped?  Then take the grants back; otherwise go on  *)
(* to the next matching position, after the last one with the lock.  The   *)
(* instance is forgotten then unless the detector is still going to read   *)
(* it: nobody else does.                                                   *)
Decide(t) ==
  LET fs   == Instances(scan[t].seen)
      inst == [sig |-> At(t)[1], grants |-> [i \in DOMAIN scan[t].seen |->
                                            scan[t].seen[i][First(fs)[i]]]]
      skipped == fs # {} /\ Clone(inst) \in toSkip[t]
      rest == scan[t].left \ {At(t)}
      cut  == scan[t].cut \/ skipped
  IN /\ pc[t] = "scan"
     /\ Len(scan[t].seen) = Len(Signature(t))
     /\ \/ /\ fs # {} /\ ~skipped
           /\ curInstance' = [curInstance EXCEPT ![t] = inst]
           /\ scan' = [scan EXCEPT ![t] = ScanOf({})]
           /\ Goto(t, "retract")
           /\ UNCHANGED <<toSkip, through>>
        \/ /\ fs = {} \/ skipped
           /\ rest # {}
           /\ scan' = [scan EXCEPT ![t] = [left |-> rest, seen |-> << >>, cut |-> cut]]
           /\ UNCHANGED <<pc, curInstance, toSkip, through>>
        \/ /\ fs = {} \/ skipped
           /\ rest = {}
           /\ scan' = [scan EXCEPT ![t] = ScanOf({})]
           /\ toSkip' = [toSkip EXCEPT ![t] = {}]
           /\ through' = IF cut THEN through \cup Elements(curGrants[t]) ELSE through
           /\ curInstance' = IF t \in found THEN curInstance
                             ELSE [curInstance EXCEPT ![t] = NoInstance]
           /\ Goto(t, "entering")
     /\ UNCHANGED <<arg, lockVars, grantVars, waitVars, curGrants, acqGrants, found>>

(* Monitorenter *)
Enter(t) ==
  /\ pc[t] = "entering"
  /\ holder[Lock(t)] = NULL
  /\ holder' = [holder EXCEPT ![Lock(t)] = t]
  /\ Goto(t, "acquired")
  /\ UNCHANGED <<arg, owner, nlck, skip, grantVars, waitVars, scanVars, curGrants,
                 acqGrants, toSkip, found, through>>

(* acquire() of a lock that has no owner *)
Acquire(t) ==
  /\ pc[t] = "acquired"
  /\ owner' = [owner EXCEPT ![Lock(t)] = t]
  /\ nlck' = [nlck EXCEPT ![Lock(t)] = @ + 1]
  /\ acqGrants' = [acqGrants EXCEPT ![Lock(t)] = curGrants[t]]
  /\ curGrants' = [curGrants EXCEPT ![t] = << >>]
  /\ arg' = [arg EXCEPT ![t] = <<NULL, NULL>>]
  /\ Goto(t, "idle")
  /\ UNCHANGED <<holder, skip, grantVars, waitVars, scanVars, toSkip, found, through>>

(* Leaving it *)

Mutant_Release_OffByOne(t, l) ==
  /\ pc[t] = "idle"
  /\ owner[l] = t
  /\ nlck' = [nlck EXCEPT ![l] = @ - 1]
  /\ IF nlck[l] = 2
     THEN /\ owner' = [owner EXCEPT ![l] = NULL]
          /\ skip' = [skip EXCEPT ![l] = FALSE]
          /\ arg' = [arg EXCEPT ![t] = <<l, NULL>>]
          /\ Goto(t, IF acqGrants[l] = << >> THEN "leaving" ELSE "ungrant")
     ELSE UNCHANGED <<owner, skip, arg, pc>>
  /\ UNCHANGED <<holder, grantVars, waitVars, scanVars, curGrants, acqGrants,
                 toSkip, found, through>>

(* release() *)
Release(t, l) ==
  /\ pc[t] = "idle"
  /\ owner[l] = t
  /\ nlck' = [nlck EXCEPT ![l] = @ - 1]
  /\ IF nlck[l] = 1
     THEN /\ owner' = [owner EXCEPT ![l] = NULL]
          /\ skip' = [skip EXCEPT ![l] = FALSE]
          /\ arg' = [arg EXCEPT ![t] = <<l, NULL>>]
          /\ Goto(t, IF acqGrants[l] = << >> THEN "leaving" ELSE "ungrant")
     ELSE UNCHANGED <<owner, skip, arg, pc>>
  /\ UNCHANGED <<holder, grantVars, waitVars, scanVars, curGrants, acqGrants,
                 toSkip, found, through>>

(* Monitorexit *)
Leave(t) ==
  /\ pc[t] = "leaving"
  /\ holder' = [holder EXCEPT ![Lock(t)] = NULL]
  /\ arg' = [arg EXCEPT ![t] = <<NULL, NULL>>]
  /\ Goto(t, "idle")
  /\ UNCHANGED <<owner, nlck, skip, grantVars, waitVars, scanVars, curGrants, acqGrants,
                 toSkip, found, through>>

(* Taking grants back: those of a request that is unsafe, or of a lock *)

Ungranting(t) == IF pc[t] = "retract" THEN curGrants[t]
                 ELSE IF pc[t] = "ungrant" THEN acqGrants[Lock(t)] ELSE << >>

(* ungrant() calls writeLock().lock(): from now on no new reader gets in. *)
WriteLock(t) ==
  LET g == Head(Ungranting(t))
  IN /\ Ungranting(t) # << >>
     /\ ~writer[g]
     /\ writer' = [writer EXCEPT ![g] = TRUE]
     /\ UNCHANGED <<pc, arg, lockVars, grantVars, yielders, readers, scanVars, curGrants,
                    acqGrants, toSkip, found, through>>

Mutant_Ungrant_StaysListed(t) ==
  LET g == Head(Ungranting(t))
  IN /\ Ungranting(t) # << >>
     /\ writer[g] /\ readers[g] = {} /\ grant[g].n = 1
     /\ grant' = [grant EXCEPT ![g].n = 0]
     /\ removed' = [removed EXCEPT ![t] = <<g>> \o @]
     /\ UNCHANGED <<pc, arg, lockVars, lockGrants, waitVars, scanVars, curGrants, acqGrants,
                    toSkip, found, through>>

(* Position::ungrant, once the readers have left *)
Ungrant(t) ==
  LET g == Head(Ungranting(t))
  IN /\ Ungranting(t) # << >>
     /\ writer[g] /\ readers[g] = {} /\ grant[g].n = 1
     /\ grant' = [grant EXCEPT ![g].n = 0]
     /\ lockGrants' = [lockGrants EXCEPT ![grant[g].pos] = Without(@, g)]
     /\ removed' = [removed EXCEPT ![t] = <<g>> \o @]
     /\ UNCHANGED <<pc, arg, lockVars, waitVars, scanVars, curGrants, acqGrants,
                    toSkip, found, through>>

(* wakeUpYieldingThreads, and the next grant *)
WakeUp(t) ==
  LET g == Head(Ungranting(t))
      rest == Tail(Ungranting(t))
      next == IF rest # << >> THEN pc[t] ELSE IF pc[t] = "retract" THEN "readlock" ELSE "leaving"
  IN /\ Ungranting(t) # << >>
     /\ writer[g] /\ grant[g].n = 0
     /\ pc' = [u \in Threads |-> IF u = t THEN next
                                 ELSE IF u \in yielders[g] /\ pc[u] = "waiting" THEN "grant"
                                 ELSE pc[u]]
     /\ yielders' = [yielders EXCEPT ![g] = {}]
     /\ writer' = [writer EXCEPT ![g] = FALSE]
     /\ curGrants' = IF pc[t] = "retract" THEN [curGrants EXCEPT ![t] = rest] ELSE curGrants
     /\ acqGrants' = IF pc[t] = "ungrant" THEN [acqGrants EXCEPT ![Lock(t)] = rest]
                     ELSE acqGrants
     /\ through' = through \ {g}
     /\ UNCHANGED <<arg, lockVars, grantVars, readers, scanVars, toSkip, found>>

(* Yielding *)

(* The grants of the instance t yields to *)
Others(t) == {g \in LockGrants : g \in Elements(curInstance[t].grants) /\ Thread(g) # t}

(* readLock().lock() on each of them, in the order of the signature *)
ReadLock(t) ==
  /\ pc[t] = "readlock"
  /\ \E i \in DOMAIN curInstance[t].grants :
       LET g == curInstance[t].grants[i]
       IN /\ g \in Others(t)
          /\ t \notin readers[g]
          /\ \A j \in 1..(i - 1) : LET h == curInstance[t].grants[j]
                                   IN h \in Others(t) => t \in readers[h]
          /\ ~writer[g]
          /\ readers' = [readers EXCEPT ![g] = @ \cup {t}]
  /\ UNCHANGED <<pc, arg, lockVars, grantVars, yielders, writer, scanVars, curGrants,
                 acqGrants, toSkip, found, through>>

Mutant_Yield_Unchecked(t) ==
  /\ pc[t] = "readlock"
  /\ \A g \in Others(t) : t \in readers[g]
  /\ readers' = [g \in LockGrants |-> readers[g] \ {t}]
  /\ yielders' = [g \in LockGrants |-> IF g \in Others(t) THEN yielders[g] \cup {t}
                                      ELSE yielders[g]]
  /\ Goto(t, "waiting")
  /\ UNCHANGED <<arg, lockVars, grantVars, writer, scanVars, curGrants, acqGrants,
                 toSkip, found, through>>

(* Instance::isActive: no grant of it was taken back meanwhile.  Then the  *)
(* thread registers and waits; in either case it lets the writers in.      *)
Yield(t) ==
  LET active == \A g \in Others(t) : grant[g].n # 0
  IN /\ pc[t] = "readlock"
     /\ \A g \in Others(t) : t \in readers[g]
     /\ readers' = [g \in LockGrants |-> readers[g] \ {t}]
     /\ yielders' = IF active THEN [g \in LockGrants |-> IF g \in Others(t)
                                     THEN yielders[g] \cup {t} ELSE yielders[g]]
                    ELSE yielders
     /\ Goto(t, IF active THEN "waiting" ELSE "grant")
     /\ UNCHANGED <<arg, lockVars, grantVars, writer, scanVars, curGrants, acqGrants,
                    toSkip, found, through>>

(* Object.wait may return for no reason; the thread asks again. *)
SpuriousWakeup(t) ==
  /\ pc[t] = "waiting"
  /\ Goto(t, "grant")
  /\ UNCHANGED <<arg, lockVars, grantVars, waitVars, scanVars, curGrants, acqGrants,
                 toSkip, found, through>>

(* skipAvoidance(): t can no longer come from where it took a lock at      *)
(* position i of the signature to the next one.  Its locks of that         *)
(* position are hidden from every scan until they are released, and who    *)
(* yields to t with an instance of the signature is woken; the grants      *)
(* stay.  A yielding thread is in currentYields from just before it waits  *)
(* until just after: the call may miss any of them.  It waits for readers  *)
(* of a grant to leave before it wakes the yielders of the grant.          *)
SkipAvoidance(t, s, i) ==
  LET SkipLocks == {l \in Locks : /\ owner[l] = t
                                  /\ \E g \in Elements(acqGrants[l]) : grant[g].pos = History[s][i]}
      Yielding == {u \in Threads : pc[u] \in {"waiting", "grant"} /\ curInstance[u].sig = s}
      YieldedTo == {g \in UNION {Elements(curInstance[u].grants) : u \in Yielding} : Thread(g) = t}
  IN /\ pc[t] = "idle"
     /\ <<t, s, i>> \in SkipSites
     /\ skip' = [l \in Locks |-> skip[l] \/ l \in SkipLocks]
     /\ \E G \in SUBSET YieldedTo :
          /\ \A g \in G : readers[g] = {}
          /\ pc' = [u \in Threads |-> IF pc[u] = "waiting" /\ \E g \in G : u \in yielders[g]
                                      THEN "grant" ELSE pc[u]]
          /\ yielders' = [g \in LockGrants |-> IF g \in G THEN {} ELSE yielders[g]]
     /\ UNCHANGED <<arg, holder, owner, nlck, grantVars, readers, writer, scanVars, curGrants,
                    acqGrants, toSkip, found, through>>

(* The cycle detector *)

(* ResourceAllocationGraph::update: whom a thread waits for *)
WaitsFor(t) ==
  IF pc[t] = "waiting" THEN {Thread(g) : g \in Others(t)}
  ELSE IF pc[t] = "entering" THEN {holder[Lock(t)]} \ {NULL} ELSE {}

(* hasCycles: threads none of whose edges leads out of the set *)
IsStuck(S) == \A t \in S : WaitsFor(t) # {} /\ WaitsFor(t) \subseteq S
Stuck == UNION {S \in SUBSET Threads : IsStuck(S)}

IsCycle(c) ==
  /\ \A i, j \in DOMAIN c : c[i] = c[j] => i = j
  /\ \A i \in DOMAIN c : c[(i % Len(c)) + 1] \in WaitsFor(c[i])

(* checkForYieldCycles, on the state of one moment *)
CheckForYieldCycles ==
  /\ found = {}
  /\ \E n \in 1..Cardinality(Stuck) : \E c \in [1..n -> Stuck] :
       /\ IsCycle(c)
       /\ found' = {t \in Elements(c) : pc[t] = "waiting"}
       /\ found' # {}
  /\ UNCHANGED <<pc, arg, lockVars, grantVars, waitVars, scanVars, curGrants, acqGrants,
                 toSkip, through>>

Mutant_BypassLivelock_Silent(t) ==
  /\ t \in found
  /\ found' = found \ {t}
  /\ toSkip' = [toSkip EXCEPT ![t] = @ \cup {Clone(curInstance[t])}]
  /\ UNCHANGED <<pc, arg, lockVars, grantVars, waitVars, scanVars, curGrants, acqGrants,
                 through>>

(* ThreadNode::bypassLivelock, for one thread after the other and later *)
BypassLivelock(t) ==
  /\ t \in found
  /\ found' = found \ {t}
  /\ toSkip' = [toSkip EXCEPT ![t] = @ \cup {Clone(curInstance[t])}]
  /\ pc' = IF pc[t] = "waiting" THEN [pc EXCEPT ![t] = "grant"] ELSE pc
  /\ UNCHANGED <<arg, lockVars, grantVars, waitVars, scanVars, curGrants, acqGrants, through>>

Step(t) ==
  \/ \E l \in Locks, p \in Positions : Avoidance(t, l, p)
  \/ \E l \in Locks : Reenter(t, l) \/ Release(t, l)
  \/ Grant(t) \/ Look(t) \/ Decide(t) \/ Enter(t) \/ Acquire(t) \/ Leave(t)
  \/ WriteLock(t) \/ Ungrant(t) \/ WakeUp(t)
  \/ ReadLock(t) \/ Yield(t) \/ SpuriousWakeup(t)
  \/ BypassLivelock(t)
  \/ \E s \in DOMAIN History : \E i \in DOMAIN History[s] : SkipAvoidance(t, s, i)

Next == CheckForYieldCycles \/ \E t \in Threads : Step(t)

Spec == Init /\ [][Next]_vars

(* Dimmunix's own steps are those of running threads; monitors and the     *)
(* read-write locks are fair (a thread that waits for one that is free     *)
(* again and again gets it); the program leaves every monitor it enters,   *)
(* unless it comes to wait for another one for ever; the detector runs     *)
(* periodically.                                                           *)
Fairness ==
  /\ WF_vars(CheckForYieldCycles)
  /\ \A t \in Threads :
       /\ WF_vars(Grant(t) \/ Look(t) \/ Decide(t) \/ Acquire(t) \/ Leave(t)
                    \/ WriteLock(t) \/ Ungrant(t) \/ WakeUp(t) \/ Yield(t))
       /\ WF_vars(ReadLock(t))
       /\ WF_vars(BypassLivelock(t))
       /\ SF_vars(Enter(t))
       /\ \A l \in Locks : SF_vars(Release(t, l) /\ nlck[l] = 1)
  /\ \A l \in Locks : []<>(nlck[l] <= 1)

FairSpec == Spec /\ Fairness

(* Properties *)

PCs == {"idle", "grant", "scan", "retract", "readlock", "waiting", "entering",
        "acquired", "ungrant", "leaving"}
Instance == [sig : DOMAIN History, grants : Seq(LockGrants)] \cup {NoInstance}

(* Every variable keeps its type. *)
TypeOK ==
  /\ pc \in [Threads -> PCs]
  /\ arg \in [Threads -> (Locks \cup {NULL}) \X (Positions \cup {NULL})]
  /\ holder \in [Locks -> Threads \cup {NULL}]
  /\ owner \in [Locks -> Threads \cup {NULL}]
  /\ \A l \in Locks : nlck[l] \in 0..MaxDepth[l]
  /\ skip \in [Locks -> BOOLEAN]
  /\ acqGrants \in [Locks -> Seq(LockGrants)]
  /\ lockGrants \in [Positions -> Seq(LockGrants)]
  /\ grant \in [LockGrants -> [lock : Locks \cup {NULL}, pos : Positions \cup {NULL}, n : 0..1]]
  /\ yielders \in [LockGrants -> SUBSET Threads]
  /\ readers \in [LockGrants -> SUBSET Threads]
  /\ writer \in [LockGrants -> BOOLEAN]
  /\ removed \in [Threads -> Seq(LockGrants)]
  /\ curGrants \in [Threads -> Seq(LockGrants)]
  /\ \A t \in Threads : scan[t].left \subseteq (DOMAIN History) \X Nat /\ scan[t].seen \in Seq(Seq(LockGrants \cup {NULL}))
  /\ curInstance \in [Threads -> Instance]
  /\ \A t \in Threads : \A s \in toSkip[t] : s.sig \in DOMAIN History
  /\ found \in SUBSET Threads
  /\ through \in SUBSET LockGrants

(* Grants of locks that are held, or that their thread may go and take *)
Confirmed ==
  {g \in LockGrants : /\ grant[g].n = 1
                      /\ \/ \E l \in Locks : g \in Elements(acqGrants[l])
                         \/ pc[Thread(g)] \in {"entering", "acquired"}}

(* However the threads' publishing and scanning interleave, the grants     *)
(* they go ahead with never make an instance of a signature, except one    *)
(* that a bypassed thread completed, or a thread that passed over a grant  *)
(* whose lock is to be skipped.                                            *)
NoOccupation ==
  \A s \in DOMAIN History :
    ~ \E f \in [DOMAIN History[s] -> Confirmed \ through] :
        /\ \A i \in DOMAIN f : grant[f[i]].pos = History[s][i]
        /\ \A i, j \in DOMAIN f : i = j \/ Disjoint(f[i], f[j])

(* A yielding thread is registered with every grant it yields to, and none *)
(* of them has gone without waking it, whatever object was recycled.       *)
NoLostWakeup ==
  \A t \in Threads : pc[t] = "waiting" =>
    \A g \in Others(t) : t \in yielders[g] /\ (grant[g].n = 1 \/ writer[g])

(* The LockGrant objects of a thread: those in use are listed once, at     *)
(* their position, and belong to one lock or to the request of the thread; *)
(* all the others wait to be recycled, once.                               *)
GrantsExact ==
  \A g \in LockGrants :
    LET t == Thread(g)
        Places(s) == {i \in DOMAIN s : s[i] = g}
        Uses == ({NULL} \X Places(curGrants[t]))
                  \cup UNION {{l} \X Places(acqGrants[l]) : l \in Locks}
    IN /\ \A p \in Positions : Cardinality(Places(lockGrants[p])) =
              IF grant[g].n = 1 /\ grant[g].pos = p THEN 1 ELSE 0
       /\ Cardinality(Places(removed[t])) = 1 - grant[g].n
       /\ Cardinality(Uses) = IF writer[g] THEN 1 ELSE grant[g].n

(* A thread does not yield for ever: the grants it yields to go away, or   *)
(* the detector finds the livelock and lets it through.                    *)
YieldsEnd ==
  \A t \in Threads : pc[t] = "waiting" ~> pc[t] # "waiting"
=============================================================================
