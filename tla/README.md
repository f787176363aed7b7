# A TLA+ verification of Dimmunix

Dimmunix gives a program immunity against deadlocks it has met before. When a
deadlock happens, the call stacks at which the deadlocked threads had acquired
their locks are saved as a *template*. From the next start on, no thread is
granted a lock that would put one thread on every position of a template: it
*yields* until one of the others has released.

The repository holds three implementations of this idea, and this directory models
all three: the pthreads port (avoidance, event queues, resource allocation graph,
detection), the port to Android's Dalvik VM (with its history file and the death and
restart of the process), and the avoidance of the Java port, which does without a
common lock. They are checked with TLC, and their main promises proved with TLAPS.

    tlc -config avoid_live.cfg MCAvoidance.tla   # one run
    tlapm AvoidanceProofs.tla                    # the proofs of one module

## 1. The system

| Part | Where | State | Operations |
|---|---|---|---|
| Interposition | `pthreads/src/preload.c`, `dlock.c` | table `pthread_mutex_t` -> `Mutex` (`aux_mutexes`) | `pthread_mutex_lock`, `_trylock`, `_unlock`, each around the real one |
| Avoidance | `avoidance.cc`, `thread.cc`, `mutex.h`, `template_instance.h`, `yieldcause.h` | `allowed` (position -> grants), `yielders` (cause -> threads), `avoidLock`; per thread `yield_cause`, `bypass_avoidance`, `lockPos`; per mutex `owner`, `pos`, `count` | `acquire`, `acquired`, `release`, `cancel`, `yield_request`, `yield_wait`, `yield_notify` |
| Event queues | `spsc_queue.h`, `event.h` | a lock-free list per thread, an unsynchronised `length_` | `enqueue` (the thread), `dequeue` (the monitor) |
| Detection | `detection.cc`, `ulock.h` | set of requesting threads, the graph, its own copy of the history | `process_events` every 100 ms, `process_event`, `check_for_cycles` |
| Resource allocation graph | `graph.cc` | vertices and typed edges, colours | `request`, `request_to_grant`, `grant_to_hold`, `release`, `yield`, `has_cycle`, `has_allcycles` |
| History | `template.cc`, `position.cc` | the file `dlock.history` | `load_templates`, `save_templates` |
| Dalvik port | `android/dalvik-vm-dimmunix/dimmunix.c`, called from `Sync.c` | the same tables in fixed arrays under `avoidanceLock`; the file `DIMHISTFILE` | `before`, `after`, `beforeUnlock` around a monitor; the search for cycles runs in the requesting thread; `loadHistory` at the start |
| Java port | `java/src/DimmunixOptimized`, older `Dimmunix` | concurrent lists of `LockGrant` objects per position, a read-write lock in each, `curInstance` and `instancesToSkip` per thread | `avoidance`, `acquire`, `release` at the instrumented `monitorenter`/`monitorexit`; a detector thread |
| Communix, Vaccine, agents | `java/src/...` | a database of signatures; none | exchange, static analysis, bytecode rewriting |

How the parts of the pthreads port interact: a wrapper calls Avoidance before
and after the real operation, in the calling thread. Avoidance records each step
as an event in the thread's own queue. The monitor thread drains all queues,
replays them on the graph, and looks for cycles. A cycle of locks is a deadlock:
the template is saved and the process killed. A cycle in which threads yield is a
livelock: the monitor sets `bypass_avoidance` of one thread and wakes it. The
history is read once, at start; the monitor and Avoidance each have their own.

In the Dalvik port the parts are one file, and everything happens in the thread that
enters a monitor. It asks for a grant; it looks for a cycle through itself and appends
what it finds to the history file; then it goes ahead or waits on the condition variable of a
template. A deadlocked application is killed by its user and started again: what the
next process knows is what that file holds. In the Java port a thread publishes
its grants, scans the lists of the other positions of its signatures, and either goes ahead or
takes its grants back and registers with those it yields to. A detector thread resolves
livelocks by making one thread skip an instance.

**What is hard.** In the pthreads port several locks protect little (`avoidLock` the grants,
`fYieldMtx` the sleeping of one thread, the real mutexes the fields of a
`Mutex`), and the monitor's interventions take none of the first. A thread
registers as a yielder, then sleeps, while others release. `owner`, `pos` and
`count` follow the real mutex at a distance, and `pthread_cond_wait` is not
interposed at all. The queues are lock-free and their length is racy. In the Dalvik
port `pthread_cond_wait` gives the one lock up in the middle of a request, templates are compared
by an index that does not do what its name says, and the process can die anywhere. In the Java
port nothing but the order of publishing and looking keeps two threads from both completing a
deadlock, and the objects that carry the wake-ups are recycled under those who wait. The
`hazards` of `PROJECT.json` list these, each at its line.

**What makes each part correct.** Avoidance: no grant completes a template, so a
remembered deadlock does not recur; no grant is lost (a lock invisible to the
matching) or left behind (somebody yields for ever); no wake-up is lost. Event
queues: every event once, in order, unchanged. Detection: a saved template is a
deadlock that was there; a deadlock that stays is found; a livelock is broken.
History: a template, once saved, is known after a restart. The ports: the same of avoidance, by
other means, and no thread stays in Dimmunix's own waits.

## 2. Modules

| Module | What it is |
|---|---|
| `Immunity` | abstract specification: a set of grants that never completes a template, but for threads the monitor lets through |
| `Avoidance` | `preload.c`'s wrappers, `avoidance.cc`, `thread.cc` and the monitor's `bypass` |
| `MCAvoidance` | histories and symmetry for TLC |
| `AvoidanceProofs` | type correctness; no template is ever occupied; Avoidance implements Immunity; no wake-up is lost; owners, grants and real locks agree; a remembered deadlock does not recur; what leaves a grant behind |
| `EventFifo` | abstract specification: a FIFO queue |
| `SpscQueue` | `spsc_queue.h` with the loop of `process_events` that drains it |
| `MCSpscQueue` | instances for TLC |
| `SpscQueueProofs` | no pointer leaves the list; the nodes suffice; the queue implements `EventFifo` |
| `Rag` | `graph.cc`: the graph as a value, and the methods that change it |
| `RagSearch` | `graph.cc`: `has_cycle`, `has_allcycles`; `detection.cc`: which yield to break |
| `Replay` | `detection.cc`, `process_events`: extends `Avoidance` with the queues' other end and the graph; what a verdict of the search may do |
| `Detection` | `detection.cc`, `check_for_cycles`: extends `Replay`; the whole port |
| `MCDetection` | instances for TLC |
| `ReplayProofs` | the graph has exactly the locks of a thread whose queue is read |
| `SearchProofs` | the searches of `RagSearch` end in every graph; what they find |
| `DetectionProofs` | types; a report is of a deadlock; threads that ask for mutexes of one another are seen; Detection implements Avoidance |
| `Memory` | abstract specification of a port that keeps its own history over restarts: what is recorded is known from the next start on, and never occupied |
| `DalvikRag` | `dimmunix.c`: the graph of the Dalvik port, `hasCycles` and `getTemplate` |
| `Dalvik` | the Dalvik port: `dimmunix.c` with the parts of `Sync.c` that call it |
| `MCDalvik` | instances for TLC |
| `DalvikRagProofs` | the search ends; what it finds, and that it finds every cycle of two threads |
| `DalvikProofs` | types; grants are exact; no known template is occupied; a known deadlock does not recur; no wake-up is lost; a deadlock of two threads is known; Dalvik implements Memory |
| `JavaAvoidance` | the Java port: `DimmunixDeadlock.java` and the classes it works on, with the bypass of `CycleDetector.java` |
| `MCJavaAvoidance` | instances for TLC |
| `JavaProofs` | types; grants are exact; no wake-up is lost; which grants never occupy a signature, with no lock over the matching |

`Detection` EXTENDS `Replay` EXTENDS `Avoidance`; both graph modules are instantiated with threads
and mutexes as vertices. No module has a RECURSIVE operator: what recurses is a recursive function.
`Replay` has a specification of its own (`ReplaySpec`), in which a search may find anything
(`AnyVerdict`). So that the graph is exact is proved without a search, and the steps of `Detection`
are shown to be among those.

### Avoidance

One variable per field of the code (the comments of the module name them), plus
`holder` and `depth`, which are the real pthread mutexes, and `pc`/`arg`, the
control point and the locals of each thread. `lockGrantees[p]` of the code's
comments is `allowed[p]`.

| Code | Actions |
|---|---|
| `acquire` up to the first `yield_request` | `Acquire`, `TryAcquire` |
| `yield_request`: `template_instance` under `avoidLock` | `TemplateInstance` |
| ... grants (`insert_allowed`) / enqueues GRANT | `Grant`, `EmitGrant` |
| ... registers the yielder / enqueues YIELD | `Yield`, `EmitYield` |
| `yield_wait` | `Sleep`, `Retry`, `SpuriousWakeup` |
| the real lock returns / returns an error / the real trylock returns | `RealLock`, `RealLockFails`, `RealTryLock` |
| `acquired` | `Acquired` |
| `release` before / inside `avoidLock`, with `yield_notify` of the yielders | `Release`, `ReleaseAllowed` |
| the real unlock | `RealUnlock` |
| `cancel` | `Cancel`, `CancelAllowed` |
| `check_for_cycles`: `bypass_avoidance = true` / `yield_notify` | `BreakYield`, `BreakNotify` |
| `pthread_cond_wait`, which the library does not see | `CondWait`, `CondWake` |

`avoidLock` is explicit from the matching to the decision, because the monitor
can change `yield_cause` and `bypass_avoidance` in between without it. The
critical section of `release` is one action: the only accesses from outside the
lock, those of `yield_wait` and of the monitor, are each to one thread under its
`fYieldMtx`, and the notifications of different threads commute with them.
`vector<YieldCause>` and `vector<Thread*>` become sets: duplicates only repeat a
notification. `allowed` stays a sequence, since the code matches its first
element and removes the first that fits.

A program is any sequence of lock, trylock and unlock calls, at any positions,
with up to `MaxHeld` mutexes at a time. The constant `Features` says what else it
and the monitor do: `trylock`, `condwait`, `cancel`, `fail` (the real `pthread_mutex_lock` returns an error,
and the wrapper calls nothing more), `break`, `events`. The variable `failed` is not in the code: it
remembers which grants a failed lock has left. The monitor, when it
breaks, picks any thread it has seen yield: this over-approximates the choice
`check_for_cycles` makes, as `detect_yields` shows. Features are
assumptions of the theorems; section 3 says which property each of them breaks.

### SpscQueue

One action per access to memory that both sides use: `enqueue` is `Enqueue`,
`Recycle`/`LoadTail`/`AllocateNode` (`alloc_node`), `Fill`, `Publish`,
`IncrementRead`, `IncrementWrite`, `MoveHead`; the monitor is `StartPass` (it
reads `length()`), `ReadValue`, `MoveTail`, `DecrementRead`, `DecrementWrite`,
`EndPass`. `++length_` is a read and a write, as the comment `// races` concedes, and
its initial value is any, since the constructor sets none. Both fences are full
barriers, so memory is sequentially consistent here.

### Rag, RagSearch

A graph is the sequences of outgoing edges of its vertices, in the order the code's
lists have them, since `FirstTo` (the first edge to a vertex) and the searches depend
on it; the vertices whose field `value` is set, because `release` and the others compare
values and an event may create a vertex without one; and the `kafa` marks that one call of
`has_allcycles` leaves for the next. The searches are translated branch by branch: what
they keep in `cycle` and in the colours from one start to the next matters (a vertex
that one start has finished is not visited by the next). A recursive method is a function of its calls
`<<v, i, s>>`, the loop over the edges of `v` from edge `i` on in state `s` (`DfsLoop` in `dfs_visit`,
`KafasLoop` in `visit_kafas`, `CyclesLoop` in `find_only_cycles`). Its domain, all calls, is infinite: TLC computes
the values it needs, and that the function has them is a theorem.

### Replay, Detection

| Code | Definition |
|---|---|
| `process_event` | `ProcessEvent` |
| `process_events`, the loop over one queue, with `in_seq`/`ev_vec` | `HandleEvent`, `Flush`, `Drained` |
| ... the loop over the queues | `StartPass`, `DrainQueue` |
| `check_for_cycles`, a deadlock: save, then `kill` | `ReportDeadlock` |
| ... a livelock: save, choose, `bypass_avoidance = true` | `BreakLivelock`, `FirstYield` |
| ... neither | `FindNothing` |
| ... `yield_notify` of the chosen thread | `Notify` (in `Replay`, with `Avoidance`'s `BreakNotify`) |
| `check_for_cycles`, whatever it finds | `AnyVerdict` (in `Replay`) |

Reading one queue is one action: what a thread records while its queue is read stays in it
(`PassEnds` of `SpscQueue`), and no step in between is seen by anybody else. Between two queues the
threads go on. A queue is `EventFifo` here. How many events a pass takes from it (`Taken`) is what
`length()` returns, and that may fall short: `behind` is by how much, one of `Shortfalls` at the
start, since the constructor sets no value, and one of them again after an event is recorded while
the queue is read, when `++` and `--` may overwrite each other (`Miscount`; the accesses one by one
are in `SpscQueue`). A counter that is too high, or below zero and so huge, lets the pass read
everything. `templates` is a set: a template saved twice only takes space. The causes of a yield
become a vector in some order (`Vector`); in the instances templates have two positions, so there is
one cause at most. `req_threads` is a set of pointers, iterated in the order of addresses:
`CheckForCycles` takes any order. The signal after a report is SIGTERM unless the environment sets
another; it ends the program (`killed`).

### Memory, Dalvik

| Code | Actions |
|---|---|
| `lockMonitor` on a monitor one is in | `Reenter` |
| `before()` at a position of `java.*` (`filterPos`) | `EnterFiltered` |
| `before()`: `REQUEST`, the search, then grant or yield | `Enter` (its `Request`) |
| ... its loop after `pthread_cond_wait` | `Retry` (the same `Request`), `SpuriousWakeup` |
| `Monitor::lock` | `RealLock`, `RealUnlock` |
| `after()`, and the `lockCount` that `waitMonitor` restores | `After` |
| `beforeUnlock()` from `unlockMonitor` / `waitMonitor` | `Exit`, `Wait` (their `BeforeUnlock`) |
| `unlockMonitor` of a reentered monitor | `ExitNested` |
| the end of an `Object.wait()` | `WaitEnds` |
| one word of `loadHistory` | `LoadLine` |
| the process is killed; Zygote forks it anew | `Restart` |

Everything between two releases of `avoidanceLock` is one action. `HasCycles` follows `hasCycles`
call by call, with the globals it threads through (`joinPointFound`, the stack, the colours);
`Picks` are what the backtracking of `instance()` chooses from, in its order. Templates are indices
into a history that only grows, as in the code. The file is a sequence of lines. `saveTemplate`
first adds a template to the history in memory and then opens the file, which may fail (`Opens`):
the template is then not in the file, and since it is known now nothing tries again (`unsaved`
remembers these; it is not in the code). A file that is there is taken to open for reading at the
start. `ReadBack` is what becomes of a line with a native frame, whose text `(Native Method)` has a
blank that splits it (the instances have no native frames). Facts that shape the model: a template
saved while the program runs stays without effect until the next start, since `Position::inHist` is
set by `loadHistory` alone; a starvation is saved like a deadlock, but nothing breaks it; a monitor
that `Object.wait()` takes back is entered from a frame of `java.lang.Object`, which is filtered, so
that it is not tracked; a join point that is no longer in the cycle sends `getTemplate` past its end
(three threads or more). The thin locks of the VM are left out: Dimmunix is called for fat ones
only, and a race to create one is settled by the compare-and-swap in `Sync.c`.

`Memory` says what all this is for, without a lock or a thread's program: records survive,
and from a start on the templates recorded before it are never occupied. The mapping takes the
grants from the lists of grantees, what is recorded from the file, and what is known from the
templates that were loaded (before loading is through nothing can be granted).

### JavaAvoidance

| Code | Actions |
|---|---|
| `avoidance()` up to the first grant | `Avoidance` |
| `grant()` of one matching position | `Grant` |
| `instance()`: the iterator of one position / the result of one signature | `Look`, `Decide` |
| `ungrant()`: the write lock / `Position::ungrant` / `wakeUpYieldingThreads` | `WriteLock`, `Ungrant`, `WakeUp` |
| the read locks / `isActive`, registration, `wait` | `ReadLock`, `Yield`, `SpuriousWakeup` |
| `monitorenter` / `monitorexit` | `Enter`, `Leave` |
| `acquire()` / `release()` | `Acquire`, `Reenter`, `Release` |
| `skipAvoidance()` | `SkipAvoidance` |
| `checkForYieldCycles` / `bypassLivelock` | `CheckForYieldCycles`, `BypassLivelock` |

Threads interleave between the publications of two grants, between the reads of two positions,
and between all lock operations. What the model takes together: an iterator reads
the list of one position at one moment; `curInstance` changes with the decision (in the code its
fields change one by one, and the detector may clone a half-written one); the yielders of one grant are woken
in one step; the detector sees the threads at one moment and takes one cycle. Call stacks
are compared whole, `yieldTimeout` is at its default of none.

An analysis of the program's methods (`SkipAvoidanceAnalysis`, on whenever Dimmunix is) finds where
a thread inside one position of a signature can no longer come to the next, and calls of
`skipAvoidance` are put there. Where they are is the constant `SkipSites`. A call marks the locks
its thread took at that position (`skip`), wakes who yields to the thread with that signature, and
leaves the grants in place; a scan passes over the grants of a marked lock (`Look`), and the mark
goes when the lock is left (`Release`). Marking and waking are one action: the instances that yield
are a list that changes while it is read, so the action wakes any part of those it could find there,
and what is separate in the code comes out as a spurious wake-up, or a call that found nobody, next
to it. Not modelled is that its write lock keeps new readers of a grant out while it waits for the
old ones.

`curInstance` is forgotten when nothing reads it any more, and `curGrants` when the lock
owns them. `found`, `through` and `cut` are history variables of a kind: `found` is the detector's
list, the other two mark grants of a scan that skipped an instance or passed over a grant.

## 3. Runs

Eight runs pass.

| Run | Instance | Shows |
|---|---|---|
| `avoid_aab` | 3 threads, 1 mutex, templates (A,A,B), (B,B), trylock and condition waits | `TypeOK`, `NoOccupation`, `NoLostWakeup`, `ImplementsImmunity`, with overlapping templates in which a position occurs twice, and grants that condition waits leave behind |
| `avoid_ops` | 2 threads, 3 recursive mutexes, templates (A,A), (A,B), cancelled requests, real locks that fail | `Immune`, `HoldersGranted`, `NoLeakedGrant` (only a real lock that fails leaves a grant), `OwnerIsHolder`, `PositionKnown` |
| `avoid_live` | 2 threads, 1 mutex, template (A,A), a monitor that breaks any yield | `YieldersWake`, `BypassWakes` |
| `queue_fifo` | queue of up to 2 events, 3 nodes | `ImplementsFifo`, `NodesSuffice`, `PassEnds`, `QueueTypeOK` (no pointer leaves the list) |
| `detect_locks` | 2 threads, 2 mutexes, no history yet, the monitor, length counters that fall two short | `DeadlockFound` (of deadlocks between threads that no counter hides), `DeadlockSeen`, `QuietReportIsDeadlock`, `GraphExact`, `DetTypeOK` |
| `detect_yields` | 2 threads, 1 mutex, template (A,A), the monitor | `ImplementsAvoidance`: the monitor does to the threads only what that of `avoid_live` may do |
| `dalvik_memory` | 2 threads that share code, 2 monitors, 2 positions, an empty file at first, which may fail to open, `Object.wait()`, restarts at any moment | `ImplementsMemory`, `NoOccupation`, `Immune`, `DeadlockKnown` (of a deadlock the file has what `Template_equals` takes for it, or could not be opened), `NoLostWakeup`, `GrantsExact`, `YieldsEndOrAreFound`, `TypeOK` |
| `java` | 2 threads, 2 objects, signatures (A,B), (C,A), one object reentered, grants recycled from pools of 2, a call of `skipAvoidance` | `NoOccupation`, `NoLostWakeup`, `GrantsExact`, `YieldsEnd`, `TypeOK`, and that nobody is ever stuck |

Four runs end in a violation: what the code says in a comment or a message is not what it
does (`findings` in `PROJECT.json` has the details).

| Run | The code says | What happens |
|---|---|---|
| `phantom_deadlock` | "deadlock found and saved" | the queues are read one after the other; the graph has a cycle of locks that were never held together |
| `unseen_livelock` | "returns true if any thread t in vt is livelocked" | the mutex a yielding thread asks for is free, which makes the thread "safe" for `visit_kafas` |
| `lost_wakeup` | "we bypass only once", "thread waits (blocks) if it has something in its yield_cause" | a grant by bypass leaves `yield_cause` filled; a later request, which no template concerns, sleeps on it for ever |
| `dalvik_forgets` | "deadlock found !", "saving new deadlock signature" | `Template_equalsFrom` compares all positions with the first one of the other template; a deadlock at A and B passes for the known one at A and A and is never saved |

The second and the third are about livelocks. A thread that yields keeps its REQUEST edge in front of its
YIELD edges, so a livelock is seen only when every mutex in it is held (`unseen_livelock`); and what
is seen may be over, since YIELD edges stay when a thread is granted its lock: in `lost_wakeup` two
yields of different times close a cycle, and a thread that is not even asking for a lock is let through.

More facts about the pthreads port, each the reason for an assumption below, and each reproduced by adding
the feature to `Features`:

- *trylock* never asks for a grant, although the lock it takes can be one of a deadlock: with
  `trylock` a remembered deadlock recurs (`Immune` and `HoldersGranted` fail in `Avoidance`). The monitor has the
  same blind spot: the vertex of a thread whose first operation is a trylock has no value, `release` does not find its
  HOLD edge, and a deadlock is reported that is none (`QuietReportIsDeadlock` and `GraphExact` fail
  in `Detection` with 2 threads, 2 mutexes, no history, `MaxUnread` 4 and exact counters).
- *condwait*: `pthread_cond_wait` is not interposed, so that a waiting thread is still `owner` and its
  grant is never taken back (`OwnerIsHolder`, `PositionKnown` and `NoLeakedGrant` fail).
- *break*: `bypass_avoidance` is set in two steps, between which it may already have been used, so that "bypass
  only once" can be twice, and a thread let through may complete a template (`NoOccupation` fails).
- *fail*: when the real lock returns an error, `pthread_mutex_lock` calls neither `dlock_acquired` nor
  `dlock_cancel`, and the grant stays for ever. `NoLeakedGrant` excuses these grants (`failed`) and no others; who yields to one is
  not woken (`YieldersWake` fails), and the graph keeps that the lock was asked for.
- *cancel*: `Graph::cancel` has its body commented out, so that a cancelled request stays in the
  graph (`QuietReportIsDeadlock` and `GraphExact` fail). `GraphExact` leaves out the YIELD edges, for the
  reason above.

And about the Java port, in larger instances than that of `java`: the read locks of an instance are
taken in the order of the signature and writers keep readers out, so that four threads with four
locks and the signatures (A,B,C), (B,A,D) can block one another inside Dimmunix; a bypass that comes
late lets a later request through, which no livelock concerns; two threads that publish at the same
moment both retract, and may do so again.

### Bounds

*Avoidance.* Two threads and two mutexes make the smallest deadlock; `avoid_ops` adds a mutex
outside it, and `avoid_aab` a thread, for the second grant at a position. Whether a template is
occupied is a matter of who has grants, and one mutex is enough for three threads to ask for grants
at once. Two positions suffice for every pattern of equal and different positions in a template of
two; (A,A,B) with (B,B) has a template that shares a position with another, and one with three
slots. `MaxHeld` = 2 in `avoid_ops` allows a thread to hold one lock and ask for another, with a
third mutex that is left to the other thread; as each real lock that fails leaves a grant, the run
goes no further once grants are left of two kinds, or three are of one (`OneFailure`): there are
then states in which a lock follows a failed one, with the grant of the failed one in front of its
own. `avoid_live` uses 1: with more, a thread can yield while it holds a lock, and then only
detection resolves the cycle, or, as `unseen_livelock` shows, does not. `MaxDepth` = 2 reaches the
second level of a recursive mutex. `avoid_aab` stops at two grants per position (`FewGrants`),
because each condition wait may leave one behind.

*Detection.* `MaxUnread` keeps a thread from starting an operation with that many events unread. In
`detect_locks` it is 4: request, grant, acquired and release of one lock are unread together and may
be dropped as a sequence, and a second operation may follow; and the run goes no further once more
than 6 events are unread in both queues (`FewUnread`), which both threads reach when each has locked
a mutex. As only the monitor is fair, such a stop is that of a thread that does nothing more.
`Shortfalls` = {0, 2} is a counter that is exact or too high, and one that is two short, which hides
both REQUEST and GRANT of a thread at a lock; `DeadlockFound` without its condition (`Heard`) is
violated there, and the runs of threads that yield have exact counters. Without a history positions
only matter for what is saved, and one is enough. `detect_yields` has the template (A,A), so that
each thread may yield to the other, and `MaxUnread` 1, which lets the events of one operation
accumulate. The violations of `phantom_deadlock` and the others are found within the same bounds;
each cfg names its own.

*Queue.* `Cap` = 2 events is one more than the one node of difference between
`tail_copy_` and `tail_` that the allocation depends on, so that nodes go round
several times; `Width` lets the counter wrap both ways.

*Dalvik.* In `dalvik_memory` the threads share code, and one has a place of its own
(`SharedPlaces`), so that they may deadlock at A and A, and at A and B, and a deadlock may pass for
another; t1 also enters a monitor at a filtered position, and one monitor is waited on. The run
starts with an empty file, lets the threads deadlock, and goes on after any number of restarts until
the file or the memory has more than two lines (`FewLines`): the first deadlock, and what is learned
by a process that avoids it. (The memory can have one template twice, since `Template_equals` does
not take a template of two different positions for itself.) `dalvik_forgets` lets any thread enter
any monitor at either of two positions.

*Java.* `WithinOther` are the places of a deadlock of two, and a place outside the history at which
one thread asks for the object of the other, with its grant: the livelock that only the detector
ends. Position A is in both signatures, so that a request makes two grants; with `PoolSize` 2 every
LockGrant is recycled at once. One object is entered twice (`OnlyM1Twice`). In the other, t2 comes
upon a call of `skipAvoidance` for its position B (`T2LeavesB`); without the rule for grants that
were passed over, `NoOccupation` is violated through it.

Where `SYMMETRY` is used, threads and mutexes are interchangeable in the instance and no liveness
property is checked. `CHECK_DEADLOCK FALSE` is there because programs may deadlock in patterns that
are not in the history, and because the process is killed on a report; `java` does without it.

### Fairness

`YieldersWake` (under `FairSpec` of `Avoidance`) needs that threads keep running: weak fairness of every started
operation, of unlocking (a program does not keep a lock for ever), and strong
fairness of getting `avoidLock` and a real mutex that become free again and again,
as the mutexes of the system give in practice. Sleeping is never forced to end:
only a notification, or a spurious wake-up, which is not fair, ends it. `BypassWakes`
needs of the monitor only that it finishes what it began. `PassEnds` assumes that the
monitor runs and nothing of the thread that enqueues. `DeadlockFound` assumes only that the monitor thread
runs: `MonitorRuns` says that it stays at none of its control points for ever. As it can
always take its next step, this is weak fairness of `MonitorStep`, in a form TLC evaluates
without searching for cycles again (ENABLED of it would).

`YieldsEndOrAreFound` (Dalvik) needs that a thread does not stay woken for ever (it can always take
its next step; stated as `[]<>` for the same reason), that it finishes what it does in a monitor's
entry or exit, that it leaves each monitor it is in (strong fairness of `Exit` and `ExitNested` for
each: it may reenter in between), and that a monitor that becomes free again and again is got.
Nothing is assumed of restarts or spurious wake-ups, nor that an `Object.wait()` ends: there may be
nobody to notify. The property excuses a thread while a monitor is asked for or held that the graph
does not have (`Untracked`), and while some thread waits with another monitor in its hands
(`WaitsInside`): who yields to the grant of that monitor may be the one that would notify, and the
code has nothing that resolves this. `Object.wait()` violates the property without either excuse.
`YieldsEnd` (Java) assumes the same of threads and monitors, and that the detector runs and acts on
what it has found.

## 4. Proofs

All for any number of threads, mutexes, positions and templates.

| Theorem | Assumes | Says |
|---|---|---|
| `AvoidanceProofs!TypeCorrect` | - | `[]TypeOK` |
| `AvoidanceProofs!NeverOccupied` | no `break` | `[]NoOccupation` |
| `AvoidanceProofs!Implementation` | no `break` | Avoidance implements Immunity |
| `AvoidanceProofs!Owners` | no `condwait` | `[]OwnerIsHolder` |
| `AvoidanceProofs!ReleasesFindPosition` | no `condwait` | `[]PositionKnown` |
| `AvoidanceProofs!EveryLockGranted` | no `trylock`, `condwait` | `[]HoldersGranted` |
| `AvoidanceProofs!DeadlocksDoNotRecur` | no `break`, `trylock`, `condwait` | `[]Immune` |
| `AvoidanceProofs!NoGrantIsLeft` | no `condwait` | `[]NoLeakedGrant`: only failed locks leave a grant |
| `AvoidanceProofs!NoWakeupIsLost` | no `break`, `cancel` | `[]NoLostWakeup` |
| `SpscQueueProofs!TypeCorrect` | - | `[]QueueTypeOK` |
| `SpscQueueProofs!RecyclingSuffices` | - | `[]NodesSuffice` |
| `SpscQueueProofs!QueueImplementsFifo` | - | the queue implements `EventFifo` |
| `ReplayProofs!GraphIsExact` | `events`; no `trylock`, `cancel`, `fail`, `condwait` | `[]GraphExact`, of `ReplaySpec` |
| `DetectionProofs!DetTypeCorrect` | the same | `[]DetTypeOK` |
| `DetectionProofs!QuietReportsAreDeadlocks` | the same | `[]QuietReportIsDeadlock` |
| `DetectionProofs!DeadlocksAreSeen` | the same | `[]DeadlockSeen` |
| `DetectionProofs!DetectionImplementsAvoidance` | the same, and `break` | `Detection` implements `Avoidance` |
| `DetectionProofs!DetectionGraphIsExact` | the same, but for `break` | `[]GraphExact`, of `DetSpec` |
| `DalvikProofs!GrantsAreExact` | - | `[]GrantsExact` |
| `DalvikProofs!NeverOccupied` | - | `[]NoOccupation` |
| `DalvikProofs!DeadlocksDoNotRecur` | - | `[]Immune` |
| `DalvikProofs!WakeupsKept` | - | `[]NoLostWakeup` |
| `DalvikProofs!TypeCorrect` | - | `[]TypeOK` |
| `DalvikProofs!DeadlocksAreKnown` | - | `[]DeadlockKnown`, whatever code the threads share |
| `DalvikProofs!DeadlocksAreRecorded`, its corollary | each position is of one thread (`PlacesAreOwn`); no line of the first file is a position twice (`TwoPlaces`) | `[]DeadlockRecorded` |
| `DalvikProofs!MemoryKept` | no native frames (`NoNativeSites`, `Readable`), no two equal lines in the first file (`NoDoubles`) | Dalvik implements `Memory` |
| `DalvikRagProofs!SearchIsDefined` | - | `hasCycles` ends, in every graph |
| `DalvikRagProofs!HasCyclesFacts`, `TemplateFacts` | - | what a reported cycle and its template are made of |
| `DalvikRagProofs!CrossedTemplate` | two threads ask for what the other has | they are found, with the template of their two positions |
| `JavaProofs!TypeCorrect` | - | `[]TypeOK` |
| `JavaProofs!GrantsAreExact` | - | `[]GrantsExact` |
| `JavaProofs!WakeupsKept` | - | `[]NoLostWakeup` |
| `JavaProofs!NeverOccupied` | - | `[]NoOccupation`: but for grants `through` |

The templates of `Avoidance` and `JavaAvoidance` have at least two positions (`HistoryAssumption`);
in `Dalvik`, threads and monitors are different things and there are finitely many of each
(`NodesAssumption`), and the first file may hold anything unless the table says otherwise. In
`Replay` threads and mutexes are different things, too, and in `Detection` there are finitely many
mutexes, as of threads (`MutexesAssumption`); in `SpscQueue` there are more nodes than the queue
ever holds events; in `JavaAvoidance` the bound on the depth of a lock is a number.

**Avoidance.** `TInv` adds to the types that a started operation has its mutex and
position (`ArgOK`). `LockInv`: `avoidLock` is held exactly at the decision. `MatchInv`:
a thread that is about to grant without a cause saw no template match, *and none
matches now* - the second half is where `avoidLock` is needed, because a grant of another
thread in between would make one match. `GrantSafe` is the heart: if no template matches at `p`, one grant
more at `p` occupies no template that was not occupied. (The matching is coarser than the
occupation: it asks for a grant at each other slot, not for different ones.) From these,
`NoOccupation` is preserved by every `GrantStep`, and each step is a step of Immunity.

`OwnInv` relates the bookkeeping of a mutex to the real one: the real depth is the
count, plus one while its thread is between the real operation and the
bookkeeping (`InBetween`); the owner is the holder or null; a thread that asks for a lock
has its position in `lockPos`. It is needed because `acquired` tests `owner`, not the
real mutex. `GrantedInv`: a lock asked for and granted keeps its grant until it is given back. A
deadlock at the positions of a template is then one grant per position, by different
threads: an occupation, which `NoOccupation` excludes.

`LeakInv` is the other direction of `GrantedInv`: every grant is one that a failed lock has left, or
is backed by an owner or by a request in one particular phase (`Backing`, whose two cases exclude
each other), *and each list has such a one once* - without the second half a release could leave a
duplicate of the grant it takes back.

`WakeInv`: what a thread yields on is in force, and from `Yield` on it is registered for
it; hence the release that takes the grant back finds it.

**SpscQueue.** The nodes in memory are one list, which `IsChain` says by an existentially quantified
sequence of nodes instead of by following pointers: from `first_`, the oldest that may be used
again, past `tail_copy_`, what the producer last saw of the consumer, to `tail_`, the dummy, and on
through the events in the queue to `head_`. Each access to memory moves one of these positions
forward or takes a node from one end to the other; the abstract queue is the stretch behind `tail_`.
The stretch before it is what can be recycled, which is why `Cap` + 1 nodes are enough. `length_`
occurs in none of this: whatever updates it loses only decides how much of the queue one pass reads.

**Replay.** The graph and a queue hold the same knowledge at different times, and sequences of events
that cancel out are dropped without being applied; the invariant has to say what the graph *will* show. It follows
one thread: what the graph shows of it is a *view*, a set of HOLD edges for each mutex and a set of edges to a
mutex (`Shows`). `Effect` is what each event makes of a view, *with the views in which a thread records it*:
one that asks does not have the mutex, a release is of a mutex it has and comes while it asks for none. The invariant
(`Tracks`): there is a view the graph shows now from which reading the queue leads to what the thread really has and
asks for, *from every graph that shows this view*, since other queues may be read before. (In that view, too, no thread
asks for a mutex it has, `Sane`; `DeadlocksAreSeen` needs this.) Inside the loop (`Follows`), a state
that holds events back would show the right view after processing them, and shows it without the mutex
they are about as it is, so that they may be dropped when it is released. Events of one thread keep the views of
all others (`Keeps`), although they share the edges of mutexes. `Each`, the loop, is a recursive
function; that it is well defined is proved by the least counterexample (`RunExists`).

**Detection.** First, that the searches compute anything. A call leads to calls with fewer white
vertices or, at the same vertex, with fewer edges left (`Ranked`; `find_only_cycles` also enters
black vertices). From this an approximation of the function for each rank extends to the next
(`Recursion`), and `LoopExists` gives each of the three functions its equation. What every call
keeps is proved along the same ranks (`ByRank`).

Every edge a search collects is an edge of the graph (`From`, `HasAllCyclesFacts`). What `has_cycle`
reports is a path of lock edges whose end is its beginning (`Found`, `HasCycleFacts`), if every lock
edge leads to a vertex whose value is set (`Fine`: the end of a cycle is found by comparing values)
and no circle has only two edges (`Long`: `has_cycle` would pass over it and keep its edges). The
code guarantees neither by itself; both follow from what the graph can be, even while queues are
half read (`GraphFine`, `GraphLong`).

Conversely, a visit that finds nothing leaves its vertex black, and lock edges lead from black
vertices to black ones only, along which a number falls (`Settled`; the number is that of the vertex
in the order in which they turn black, so that a new one gets the highest, `Finishes`). So in a set
of vertices that each have a lock edge to one of the set, none is black (`NoneBlack`): if
`has_cycle` starts from one of them, it reports (`HasCycleFinds`), whatever the colours left by
earlier starts. Threads that ask for each other's mutexes and whose queues are read are, with these
mutexes, such a set, because their edges are in the graph (`CircleShown`).

That is `Shaped`: threads ask for mutexes and yield to threads, mutexes are held by threads, and
only a thread that has recorded a YIELD event has a YIELD edge. It is kept because the events say
enough (`SoundEvents`, `QueuesSound`). When nothing is left to read, `GraphIsExact` makes every lock
edge true (`True`, `GraphTrue`): a HOLD edge is an owner and its position, any other a thread that
asks. A circle of such edges is then a circle of different threads that ask for each other's
mutexes, since a thread asks for one mutex and a mutex has one owner, and the template is the
positions of its HOLD edges, each once (`TemplateMarks`, `CircleIsDeadlock`). `DInv` carries this
from the report on: the process is killed then, and no thread does anything more.

That the searches leave alone what was replayed is by the way they are written, but has to be said
(`DetectionReplays`), so that `GraphIsExact` is of `Detection`, too. The step correspondences
(`DetReplays`, `DetAvoids`) then need of a verdict only that the thread it lets through is one that
has yielded, and that one at a time is let through (`breaking` is one thread, exactly at `notify`).

**Dalvik.** One invariant (`Inv`) for the first four theorems. `Counts`: how often a thread is in the list of a
position is the number of monitors it is in there, plus one while it enters another - counted, because
`Request` adds an entry and `ungrant` removes the *first* of the thread, which need not be the one it
added. That asking and giving up again leaves the counts alone is proved of `Append` and `RemoveFirst`
(`AskAndUngrant`). `Waiting` is `NoLostWakeup` with its template in the history;
`Mons` and `Ops` tie `Node::owner` and `Node::acqPos` to the real monitor; `KnownInHist` makes the positions
of a loaded template the tracked ones; `Loading` says that reading the file is over before anything else
begins. An instance is restated by threads instead of indices (`Occupants`), which makes it monotone in the grants;
whatever the search finds, all that is used of it here is that the history grows (`Extends`). A restart
is a fresh start: `FreshInv` serves `Init` and `Restart`.

The other three theorems depend on what the search returns. That its recursion defines anything is
itself a theorem (`SearchIsDefined`): every visit colours a node that was new (`Rank`), so that an
approximation for each rank extends to the next. `Sane` is then kept by every visit: no node is
twice on the way, and the label of a node belongs to the node it leads to. `CrossedTemplate`
computes the search through a cycle of two threads; no yields edge is followed before it is found.
`Types` (`Typed` and `Placed`: a position in the graph, in a list of grantees or in a yields edge is
with a thread that enters something there) turns these into facts about positions, and `TypeCorrect`
needs it because what the search returns goes to the file. `Filed`, for `DeadlocksAreKnown`: what is
known is in the file, or could not be written to it (`Noted`). A deadlock of two threads closes with
the request of one of them, which finds it before it does anything else (`CrossedTemplate`); it is
saved or equal, for `Template_equals`, to one that is known. That this is the same deadlock needs
`PlacesAreOwn`, because `Template_equalsFrom` takes templates for equal that are not (without the
hypothesis the run `dalvik_forgets` is the counterexample); hence `DeadlocksAreRecorded` is a
corollary only. `Remembered`, for `MemoryKept`: what was loaded is the lines read so far, none of
them dropped as a double; every step then adds a line at most, reads one, or is one of `Memory`'s
grants and releases. Native frames are excluded because a line with one is not read back (with
native frames TLC finds `ImplementsMemory` violated).

**Java.** `WakeupsKept` needs little more than the types: a thread registers under the read locks
with grants it has seen active, and a grant goes only past its writer. `GrantsAreExact` follows each
LockGrant instead of counting: one that is listed is in use, at its position and listed once
(`Listed`); one in use belongs to the request of its thread or to a lock (`InUse`); one that is not
is in the pool of its thread (`Recycled`); and its writer lock is held from before it goes until its
yielders are awake (`Writers`), so that it is not taken back twice. `Owned` adds that a lock nobody
owns has grants only while the thread that leaves it takes them back, so that acquiring it
overwrites none. The fold that chooses the instance is characterised as the lexicographically least
one, so that its result is of the right type. `NeverOccupied` is the proof that publishing before
scanning is enough. `StateInv` says whose grants are where. `LastIsPending`: the grants in force can
be numbered by the order of their publication so that the last grant of any instance belongs to a
thread whose scan is not over and will see the others. A thread that goes ahead has no pending scan,
so no instance consists of confirmed grants alone. A scan that has passed over the grant of a marked
lock makes its own grants `through`: the mark is of the lock, so it also hides the grants of threads
that wait for it, and an occupation it lets happen may outlive it. A recycled object gets a new
number, which the invariant leaves existentially quantified.

**Only model-checked:** the liveness properties (out of the prover's reach): `YieldersWake`,
`BypassWakes`, `PassEnds`, `DeadlockFound`, `YieldsEndOrAreFound`, `YieldsEnd`. Every invariant and
every refinement that a passing run checks is also a theorem. That `has_cycle` finds a deadlock
whose events are read is one, too; that the monitor gets to read them and to look again is in
`DeadlockFound`. Of `has_allcycles` it is proved that what it returns is of the graph; it does not
find every livelock (`unseen_livelock`). For the Dalvik port, `CrossedTemplate` proves that
deadlocks of two threads are found. The theorems about lists of events, nodes and edges, and about
what the searches return, are proved without induction on data, by a least counterexample
(`LeastNat`) or by sequences that are quantified over.

**Why the assumptions:** each excluded feature breaks the property it is excluded from, as section 3
explains (`fail` is like `cancel` for the graph); `cancel` takes a grant back and notifies nobody,
and with `break` a cause may stay behind (`lost_wakeup`).

## 5. Not modelled

*pthreads.* The registry of mutexes of `preload.c`; the history file (in `Dalvik` it is modelled,
with crashes); dynamic analysis in `Avoidance`; what a mutex that returns an error knows of its
owner (`RealLockFails` may happen to any call, and leaves the mutex as it is); a monitor that learns
a template while the program goes on (`templates` is what the monitor has; Avoidance reads its own
copy once, at start).

*Dalvik.* The sizes of the fixed arrays; the rest of `Sync.c`: thin locks, the creation of monitors,
notification and interrupts, of which all that matters here is that a wait may end; a history file
that is there and cannot be read. The condition variables of loaded templates are never initialised
by the code; bionic takes any value for one, and they are modelled as working.

*Java.* Saving and merging signatures, the accounting of false positives (`adjustPrecision`), the
simple avoidance by semaphores, the analysis that decides where `skipAvoidance` is called, and
comparing call stacks to a depth: call stacks are compared whole. `Object.wait` is not hooked, and
programs of the model do not call it. The experimental modules for other bug classes, the first
version, Communix and Vaccine.

*Everywhere.* Capturing and hashing call stacks (a position is its hash code,
which is what the code compares), debug output, the generated templates for benchmarks, static analyses and
bytecode rewriting. Most of the C code of the repository is the Dalvik virtual machine the Android port is built
into - its interpreter, verifier, compiler, class loader and JNI -, which has nothing to do
with Dimmunix: of it only the calls into `dimmunix.c` are modelled, and the share of all lines that
definitions map to stays small for that reason. The status of every part is under `components` in `PROJECT.json`.

## 6. Plan

Done: `Immunity`, `Avoidance`; `EventFifo`, `SpscQueue`; `Rag`, `RagSearch`, `Replay`, `Detection`;
`Memory`, `DalvikRag`, `Dalvik`; `JavaAvoidance`; the proofs of section 4. Worth doing next:

1. The searches against reference definitions of a cycle and of a knot of yields, over all
   small graphs (`RagSearch` with several starts and left-over colours).
2. The Java port's history: merging signatures, and the precision that makes avoidance skip some of them.
3. The mutex registry of `preload.c` and its double insertion.
