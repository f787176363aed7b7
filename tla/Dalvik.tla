------------------------------- MODULE Dalvik -------------------------------
(***************************************************************************)
(* The port of Dimmunix to the Dalvik VM of Android, from the monitors of  *)
(* the VM that call it (Sync.c) to its history file (dimmunix.c).          *)
(*                                                                         *)
(* It has no monitor thread: a thread that asks for a monitor looks for a  *)
(* deadlock itself, saves it, and is then granted the request or waits on  *)
(* the condition variable of the template it would complete.  Everything   *)
(* before(), after() and beforeUnlock() do is done under avoidanceLock,    *)
(* which pthread_cond_wait gives up: each is one action here.              *)
(*                                                                         *)
(* The process may be killed at any time (a deadlocked application is) and *)
(* started again; the history file is all that stays.                      *)
(***************************************************************************)
EXTENDS DalvikRag, SequencesExt

CONSTANTS
  Native,       \* those of native methods: class.method(Native Method)
  Sites,        \* which thread enters what where: <<thread, monitor, position>>
  Waits,        \* the monitors it calls Object.wait() on
  FirstFile,    \* the history file before the first start
  Opens,        \* what can come of opening DIMHISTFILE to append to it
  Restarts,     \* may the process be killed and started again?
  MaxHeld,      \* bound: monitors one thread is in or enters at a time
  MaxDepth      \* bound: how often it reenters one

ASSUME PositionsAssumption == Native \subseteq Positions
ASSUME SitesAssumption == Sites \subseteq Threads \X Monitors \X (Positions \cup {NULL})
ASSUME FileAssumption == FirstFile \in Seq(Seq(Positions))
ASSUME OpensAssumption == Opens \subseteq BOOLEAN

VARIABLES
  pc,           \* pc[t]: what thread t does next
  arg,          \* arg[t]: the monitor and position (Thread::reqPos) of its operation
  holder,       \* holder[m]: who has Monitor::lock
  lockCount,    \* lockCount[m]: Monitor::lockCount
  next,         \* next[n]: Node::next, of a lock also its Node::owner
  acqPos,       \* acqPos[m]: Node::acqPos, equal to Node::posNext
  yields,       \* yields[t]: Node::yields with Node::posYields
  grantees,     \* grantees[p]: Position::lockGrantees, oldest first
  inHist,       \* the positions with Position::inHist
  history,      \* the templates in memory
  loaded,       \* how many of them were read at the start
  unread,       \* the lines loadHistory has not come to yet
  file,         \* the lines of DIMHISTFILE
  unsaved,      \* the templates it could not be opened for since the start
  waitsOn,      \* waitsOn[t]: the template whose condition variable t waits on
  found         \* "deadlock found !" has been logged since the start

monVars   == <<holder, lockCount>>
ragVars   == <<next, acqPos, yields>>
histVars  == <<inHist, history, loaded, unread, file, unsaved>>
vars == <<pc, arg, monVars, ragVars, grantees, histVars, waitsOn, found>>

PCs == {"idle", "asleep", "woken", "entering", "entered", "leaving",
        "waitleaving", "waiting"}

(* depth: what lockCount is set to once the monitor is entered. *)
NoArg == [mon |-> NULL, pos |-> NULL, depth |-> 0]

Goto(t, l) == pc' = [pc EXCEPT ![t] = l]

Return(t) == Goto(t, "idle") /\ arg' = [arg EXCEPT ![t] = NoArg]

Held(t) == {m \in Monitors : holder[m] = t}

-----------------------------------------------------------------------------
(* The history *)

(* Template_equalsFrom compares x[1], x[2], ... with y[start], y[j], ...   *)
(* where each j is Template_next of the one before.                        *)
TemplateNext(start, i, size) ==
  IF start + i >= size THEN start + i - size ELSE start + i

EqualsFrom(x, y, start) ==
  LET j[i \in 0..Len(x)] == IF i = 0 THEN start ELSE TemplateNext(start, j[i - 1], Len(x))
  IN  \A i \in 0..(Len(x) - 1) : x[i + 1] = y[j[i] + 1]

TemplateEquals(x, y) ==
  Len(x) = Len(y) /\ \E start \in 0..(Len(x) - 1) : EqualsFrom(x, y, start)

(* addToHistory: the history with T, unless it has an equal one. *)
IsKnown(h, T) == \E k \in DOMAIN h : TemplateEquals(h[k], T)
AddToHistory(h, T) == IF IsKnown(h, T) THEN h ELSE Append(h, T)

(* fscanf reads a line up to the blank in "(Native Method)", and the rest  *)
(* as another template: neither can ever be occupied, since no call stack  *)
(* is half a position.  One template with a hole stands for both.          *)
ReadBack(T) == [i \in DOMAIN T |-> IF T[i] \in Native THEN NULL ELSE T[i]]

-----------------------------------------------------------------------------
(* checkForCycles with saveTemplate: what becomes of the memory            *)
(* M = [history, file, unsaved, found] when t looks for a cycle in G.  A   *)
(* template that is new in memory is written to the file, if that can be   *)
(* opened; if not, nothing tries again.                                    *)
Checked(M, G, t, opened) ==
  LET s == HasCycles(G, t)
      T == GetTemplate(s)
      N == [M EXCEPT !.history = Append(@, T), !.found = TRUE]
  IN  IF ~s.found THEN M
      ELSE IF IsKnown(M.history, T) THEN [M EXCEPT !.found = TRUE]
      ELSE IF opened THEN [N EXCEPT !.file = Append(@, T)]
      ELSE [N EXCEPT !.unsaved = @ \cup {T}]

Keep(M) ==
  history' = M.history /\ file' = M.file /\ unsaved' = M.unsaved /\ found' = M.found

-----------------------------------------------------------------------------
(* The instances of templates *)

Has(T, p) == p \in Elements(T)

(* The ways to pick a grant of another thread at every position of T, as   *)
(* indices into the lists of grantees g.                                   *)
Picks(T, g) ==
  LET longest == UNION {DOMAIN g[T[i]] : i \in {i \in DOMAIN T : T[i] \in Positions}} IN
  {f \in [DOMAIN T -> longest] :
     /\ \A i \in DOMAIN T : T[i] \in Positions /\ f[i] \in DOMAIN g[T[i]]
     /\ \A i, j \in DOMAIN T : g[T[i]][f[i]] = g[T[j]][f[j]] => i = j}

(* instance: is there one? *)
Instance(T, g) == Picks(T, g) # {}

(* The one its backtracking finds first, as the threads it leaves in       *)
(* Template::threads.                                                      *)
FirstInstance(T, g) ==
  LET f == CHOOSE f \in Picks(T, g) : \A h \in Picks(T, g) \ {f} :
             \E i \in DOMAIN T : f[i] < h[i] /\ \A j \in 1..(i - 1) : f[j] = h[j]
  IN  [i \in DOMAIN T |-> g[T[i]][f[i]]]

(* A definition named Mutant_X_... is what a plausible bug would make of   *)
(* the definition X that follows; no specification uses it.                *)
Mutant_YieldEdges_None(t, T, g) == <<>>

(* yieldEvent: edges to the other threads of the instance of T. *)
YieldEdges(t, T, g) ==
  LET threads == FirstInstance(T, g) IN
  Chosen([i \in DOMAIN T |-> [thread |-> threads[i], pos |-> T[i]]],
         {e \in Edges : e.thread # t})

Mutant_Matching_FirstPosition(h, g, p) ==
  {k \in DOMAIN h : h[k] # <<>> /\ h[k][1] = p /\ Instance(h[k], g)}

(* The templates that the grant of p to t would complete. *)
Matching(h, g, p) == {k \in DOMAIN h : Has(h[k], p) /\ Instance(h[k], g)}

-----------------------------------------------------------------------------
(* initDimmunix, in the child of Zygote that becomes the application. *)
Init ==
  /\ pc = [t \in Threads |-> "idle"]
  /\ arg = [t \in Threads |-> NoArg]
  /\ holder = [m \in Monitors |-> NULL]
  /\ lockCount = [m \in Monitors |-> 0]
  /\ next = [n \in Nodes |-> NULL]
  /\ acqPos = [m \in Monitors |-> NULL]
  /\ yields = [t \in Threads |-> <<>>]
  /\ grantees = [p \in Positions |-> <<>>]
  /\ file = FirstFile
  /\ unread = FirstFile
  /\ history = <<>> /\ loaded = 0 /\ inHist = {} /\ unsaved = {}
  /\ waitsOn = [t \in Threads |-> 0]
  /\ found = FALSE

(* The process dies and is started again. *)
Restart ==
  /\ Restarts
  /\ pc' = [t \in Threads |-> "idle"]
  /\ arg' = [t \in Threads |-> NoArg]
  /\ holder' = [m \in Monitors |-> NULL]
  /\ lockCount' = [m \in Monitors |-> 0]
  /\ next' = [n \in Nodes |-> NULL]
  /\ acqPos' = [m \in Monitors |-> NULL]
  /\ yields' = [t \in Threads |-> <<>>]
  /\ grantees' = [p \in Positions |-> <<>>]
  /\ unread' = file
  /\ history' = <<>> /\ loaded' = 0 /\ inHist' = {} /\ unsaved' = {}
  /\ waitsOn' = [t \in Threads |-> 0]
  /\ found' = FALSE
  /\ UNCHANGED file

Mutant_LoadLine_ForgetsLast ==
  /\ unread # <<>>
  /\ unread' = Tail(unread)
  /\ history' = IF unread' = <<>> THEN history ELSE AddToHistory(history, ReadBack(Head(unread)))
  /\ loaded' = Len(history')
  /\ inHist' = inHist \cup (Elements(Head(unread)) \ Native)
  /\ UNCHANGED <<pc, arg, monVars, ragVars, grantees, file, unsaved, waitsOn, found>>

Mutant_LoadLine_FirstPosition ==
  /\ unread # <<>>
  /\ unread' = Tail(unread)
  /\ history' = AddToHistory(history, ReadBack(Head(unread)))
  /\ loaded' = Len(history')
  /\ inHist' = inHist \cup ({Head(unread)[1]} \ Native)
  /\ UNCHANGED <<pc, arg, monVars, ragVars, grantees, file, unsaved, waitsOn, found>>

(* One word of loadHistory; a line without positions is none. *)
LoadLine ==
  /\ unread # <<>>
  /\ LET T == Head(unread) IN
     /\ history' = IF Elements(T) = {} THEN history ELSE AddToHistory(history, ReadBack(T))
     /\ inHist' = inHist \cup (Elements(T) \ Native)
  /\ unread' = Tail(unread)
  /\ loaded' = Len(history')
  /\ UNCHANGED <<pc, arg, monVars, ragVars, grantees, file, unsaved, waitsOn, found>>

-----------------------------------------------------------------------------
(* monitorenter *)

(* lockMonitor on a monitor the thread is in already. *)
Reenter(t, m) ==
  /\ pc[t] = "idle"
  /\ holder[m] = t
  /\ lockCount[m] < MaxDepth
  /\ lockCount' = [lockCount EXCEPT ![m] = @ + 1]
  /\ UNCHANGED <<pc, arg, holder, ragVars, grantees, histVars, waitsOn, found>>

(* The application starts when loadHistory is through (enabled).           *)
MayEnter(t, m, p) ==
  /\ pc[t] = "idle"
  /\ unread = <<>>
  /\ <<t, m, p>> \in Sites
  /\ holder[m] # t
  /\ Cardinality(Held(t)) < MaxHeld

(* before() at a position of java.* (no position): nothing is asked for.   *)
EnterFiltered(t, m) ==
  /\ MayEnter(t, m, NULL)
  /\ arg' = [arg EXCEPT ![t] = [NoArg EXCEPT !.mon = m]]
  /\ Goto(t, "entering")
  /\ UNCHANGED <<monVars, ragVars, grantees, histVars, waitsOn, found>>

(* ungrant: the first grant of t at p is taken out of g. *)
Ungrant(g, p, t) == [g EXCEPT ![p] = RemoveFirst(@, t)]

(* Request, the first time and after every wait: o1 and o2 say whether the *)
(* file can be opened for what its two searches find.                      *)
Request(t, m, p, first, o1, o2) ==
  LET next1  == IF first THEN [next EXCEPT ![t] = m] ELSE next
      Graph(y) == [next |-> next1, acqPos |-> acqPos, yields |-> y]
      M0     == [history |-> history, file |-> file, unsaved |-> unsaved, found |-> found]
      M1     == IF first THEN Checked(M0, Graph(yields), t, o1) ELSE M0
      asked  == [grantees EXCEPT ![p] = Append(@, t)]
      ks     == Matching(M1.history, asked, p) IN
  /\ next' = next1
  /\ \/ /\ p \notin inHist                                \* not in a template
        /\ Keep(M1)
        /\ Goto(t, "entering")
        /\ UNCHANGED <<grantees, yields, waitsOn>>
     \/ /\ p \in inHist /\ ks = {}                          \* grantEvent
        /\ Keep(M1)
        /\ grantees' = asked
        /\ yields' = [yields EXCEPT ![t] = <<>>]
        /\ Goto(t, "entering")
        /\ UNCHANGED waitsOn
     \/ \E k \in ks :                                       \* yieldEvent, ungrant
        /\ p \in inHist /\ \A j \in ks : k <= j
        /\ grantees' = Ungrant(asked, p, t)
        /\ yields' = [yields EXCEPT ![t] = YieldEdges(t, M1.history[k], asked)]
        /\ Keep(Checked(M1, Graph(yields'), t, o2))
        /\ waitsOn' = [waitsOn EXCEPT ![t] = k]
        /\ Goto(t, "asleep")
  /\ UNCHANGED <<monVars, acqPos, inHist, loaded, unread>>

(* before() *)
Enter(t, m, p) ==
  /\ MayEnter(t, m, p)
  /\ arg' = [arg EXCEPT ![t] = [mon |-> m, pos |-> p, depth |-> 0]]
  /\ \E o1, o2 \in Opens : Request(t, m, p, TRUE, o1, o2)

(* ... its loop, when pthread_cond_wait has returned. *)
Retry(t) ==
  /\ pc[t] = "woken"
  /\ \E o1, o2 \in Opens : Request(t, arg[t].mon, arg[t].pos, FALSE, o1, o2)
  /\ UNCHANGED arg

SpuriousWakeup(t) ==
  /\ pc[t] = "asleep"
  /\ Goto(t, "woken")
  /\ waitsOn' = [waitsOn EXCEPT ![t] = 0]
  /\ UNCHANGED <<arg, monVars, ragVars, grantees, histVars, found>>

(* Monitor::lock is taken. *)
RealLock(t) ==
  LET m == arg[t].mon IN
  /\ pc[t] = "entering"
  /\ holder[m] = NULL
  /\ holder' = [holder EXCEPT ![m] = t]
  /\ Goto(t, "entered")
  /\ UNCHANGED <<arg, lockCount, ragVars, grantees, histVars, waitsOn, found>>

Acquired(t, m) == [next EXCEPT ![m] = t, ![t] = NULL]

(* after(), with Acquired unless the position was filtered; waitMonitor    *)
(* then restores lockCount.                                                *)
After(t) ==
  LET m == arg[t].mon
      p == arg[t].pos IN
  /\ pc[t] = "entered"
  /\ acqPos' = [acqPos EXCEPT ![m] = p]
  /\ next' = IF p = NULL THEN next ELSE Acquired(t, m)
  /\ lockCount' = [lockCount EXCEPT ![m] = arg[t].depth]
  /\ Return(t)
  /\ UNCHANGED <<holder, yields, grantees, histVars, waitsOn, found>>

-----------------------------------------------------------------------------
(* monitorexit and Object.wait() *)

Mutant_Woken_FirstPosition(p) ==
  {t \in Threads : pc[t] = "asleep" /\ history[waitsOn[t]][1] = p}

(* Release: the templates with p wake everybody that waits on them.        *)
Woken(p) == {t \in Threads : pc[t] = "asleep" /\ Has(history[waitsOn[t]], p)}

Mutant_BeforeUnlock_ClearsFirst(t, m, l) ==
  /\ acqPos' = [acqPos EXCEPT ![m] = NULL]
  /\ next' = [next EXCEPT ![m] = NULL]
  /\ pc' = [pc EXCEPT ![t] = l]
  /\ UNCHANGED <<grantees, waitsOn, holder, yields, histVars, found>>

(* beforeUnlock(), for a thread that then goes to l. *)
BeforeUnlock(t, m, l) ==
  LET p == acqPos[m]
      tracked == p # NULL /\ p \in inHist
      ws == IF tracked THEN Woken(p) ELSE {} IN
  /\ acqPos' = [acqPos EXCEPT ![m] = NULL]
  /\ next' = IF p = NULL THEN next ELSE [next EXCEPT ![m] = NULL]
  /\ grantees' = IF tracked THEN Ungrant(grantees, p, t) ELSE grantees
  /\ pc' = [u \in Threads |-> IF u = t THEN l ELSE IF u \in ws THEN "woken" ELSE pc[u]]
  /\ waitsOn' = [u \in Threads |-> IF u \in ws THEN 0 ELSE waitsOn[u]]
  /\ UNCHANGED <<holder, yields, histVars, found>>

(* unlockMonitor *)
Exit(t, m) ==
  /\ pc[t] = "idle"
  /\ holder[m] = t
  /\ lockCount[m] = 0
  /\ arg' = [arg EXCEPT ![t] = [NoArg EXCEPT !.mon = m]]
  /\ BeforeUnlock(t, m, "leaving")
  /\ UNCHANGED lockCount

Mutant_ExitNested_OffByOne(t, m) ==
  /\ pc[t] = "idle"
  /\ holder[m] = t
  /\ lockCount[m] >= 0
  /\ lockCount' = [lockCount EXCEPT ![m] = @ - 1]
  /\ UNCHANGED <<pc, arg, holder, ragVars, grantees, histVars, waitsOn, found>>

ExitNested(t, m) ==
  /\ pc[t] = "idle"
  /\ holder[m] = t
  /\ lockCount[m] > 0
  /\ lockCount' = [lockCount EXCEPT ![m] = @ - 1]
  /\ UNCHANGED <<pc, arg, holder, ragVars, grantees, histVars, waitsOn, found>>

(* waitMonitor, up to the wait. *)
Wait(t, m) ==
  /\ m \in Waits
  /\ pc[t] = "idle"
  /\ holder[m] = t
  /\ arg' = [arg EXCEPT ![t] = [mon |-> m, pos |-> NULL, depth |-> lockCount[m]]]
  /\ lockCount' = [lockCount EXCEPT ![m] = 0]
  /\ BeforeUnlock(t, m, "waitleaving")

(* Monitor::lock is given up. *)
RealUnlock(t) ==
  /\ pc[t] \in {"leaving", "waitleaving"}
  /\ holder' = [holder EXCEPT ![arg[t].mon] = NULL]
  /\ IF pc[t] = "leaving" THEN Return(t) ELSE Goto(t, "waiting") /\ UNCHANGED arg
  /\ UNCHANGED <<lockCount, ragVars, grantees, histVars, waitsOn, found>>

(* A notification, an interrupt or a timeout ends the wait.  The top frame *)
(* is then java.lang.Object.wait, so that lockMonitor asks for nothing.    *)
WaitEnds(t) ==
  /\ pc[t] = "waiting"
  /\ Goto(t, "entering")
  /\ UNCHANGED <<arg, monVars, ragVars, grantees, histVars, waitsOn, found>>

-----------------------------------------------------------------------------
Step(t) == Retry(t) \/ RealLock(t) \/ After(t) \/ RealUnlock(t) \/ WaitEnds(t)

Operation(t) ==
  \/ \E m \in Monitors :
       \/ Reenter(t, m) \/ EnterFiltered(t, m)
       \/ \E p \in Positions : Enter(t, m, p)
       \/ Exit(t, m) \/ ExitNested(t, m) \/ Wait(t, m)

Next == \/ \E t \in Threads : Step(t) \/ Operation(t) \/ SpuriousWakeup(t)
        \/ LoadLine \/ Restart

Spec == Init /\ [][Next]_vars

(* Threads keep running and leave every monitor in the end; one that asks  *)
(* again and again for a monitor that is free again and again gets it.     *)
(* Object.wait() need not end: there may be nobody to notify.              *)
(* (A woken thread can always go on: its fairness needs no ENABLED.)       *)
Fairness ==
  \A t \in Threads :
    /\ []<>(pc[t] # "woken")
    /\ WF_vars(After(t) \/ RealUnlock(t))
    /\ \A m \in Monitors : SF_vars(Exit(t, m)) /\ SF_vars(ExitNested(t, m))
    /\ SF_vars(RealLock(t))

FairSpec == Spec /\ Fairness

-----------------------------------------------------------------------------
(* Properties *)

(* Every variable keeps its type. *)
TypeOK ==
  /\ pc \in [Threads -> PCs]
  /\ arg \in [Threads -> [mon : Monitors \cup {NULL}, pos : Positions \cup {NULL}, depth : Nat]]
  /\ holder \in [Monitors -> Threads \cup {NULL}]
  /\ lockCount \in [Monitors -> Nat]
  /\ next \in [Nodes -> Nodes \cup {NULL}]
  /\ acqPos \in [Monitors -> Positions \cup {NULL}]
  /\ yields \in [Threads -> Seq(Edges)]
  /\ grantees \in [Positions -> Seq(Threads)]
  /\ inHist \subseteq Positions
  /\ history \in Seq(Seq(Positions \cup {NULL}))
  /\ loaded \in 0..Len(history)
  /\ unread \in Seq(Seq(Positions))
  /\ file \in Seq(Seq(Positions))
  /\ unsaved \subseteq Seq(Positions)
  /\ waitsOn \in [Threads -> 0..Len(history)]
  /\ found \in BOOLEAN

Given == {g \in [pos : Positions, thread : Threads] : g.thread \in Elements(grantees[g.pos])}
Recorded == Elements(file) \ {<<>>}
Known == IF unread = <<>> THEN {history[k] : k \in 1..loaded} ELSE Recorded

Promise == INSTANCE Memory WITH given <- Given, known <- Known, recorded <- Recorded

(* The VM keeps the promise over its restarts: what is recorded is known   *)
(* from the next start on, nothing recorded is lost, and no grant puts     *)
(* different threads on all positions of what is known.                    *)
ImplementsMemory == Promise!Spec

(* No template that was in the history when the program started has an     *)
(* instance among the grants in force.                                     *)
NoOccupation == \A k \in 1..loaded : ~Instance(history[k], grantees)

(* Threads f[i] each are in a monitor entered at T[i], and each is blocked *)
(* at one that another of them is in.                                      *)
DeadlockAt(T, f, h) ==
  /\ \A i, j \in DOMAIN T : f[i] = f[j] => i = j
  /\ \A i \in DOMAIN T :
       /\ next[h[i]] = f[i] /\ acqPos[h[i]] = T[i]
       /\ pc[f[i]] = "entering" /\ \E j \in DOMAIN T \ {i} : arg[f[i]].mon = h[j]

(* A deadlock that was in the history when the program started does not    *)
(* happen again.                                                           *)
Immune ==
  \A k \in 1..loaded :
    \A f \in [DOMAIN history[k] -> Threads], h \in [DOMAIN history[k] -> Monitors] :
      ~DeadlockAt(history[k], f, h)

(* m2 is held by a thread that waits for m1, and the other way round. *)
CrossedAt(m1, m2) ==
  /\ m1 # m2
  /\ next[m1] # NULL /\ next[m2] # NULL
  /\ next[next[m1]] = m2 /\ next[next[m2]] = m1
  /\ acqPos[m1] # NULL /\ acqPos[m2] # NULL

(* Two threads that are deadlocked do not die unrecorded: their positions  *)
(* are in the file ("deadlock found !", dimmunix.c), unless it could not   *)
(* be opened when the template was new ("Can't open history file").        *)
DeadlockRecorded ==
  \A m1, m2 \in Monitors : CrossedAt(m1, m2) =>
    \E T \in Elements(file) \cup unsaved :
      T \in {<<acqPos[m1], acqPos[m2]>>, <<acqPos[m2], acqPos[m1]>>}

(* The same as far as Template_equals can tell templates apart, which does *)
(* not take <<A, B>> for new when <<A, A>> is recorded.                    *)
DeadlockKnown ==
  \A m1, m2 \in Monitors : CrossedAt(m1, m2) =>
    \E T \in Elements(file) \cup unsaved :
      \/ TemplateEquals(T, <<acqPos[m1], acqPos[m2]>>)
      \/ TemplateEquals(T, <<acqPos[m2], acqPos[m1]>>)

(* A thread waits only as long as it would have to yield again: with its   *)
(* request the template it waits on has an instance.  Whatever ends that   *)
(* is a release at a position of the template, which wakes it.             *)
NoLostWakeup ==
  \A t \in Threads : pc[t] = "asleep" =>
    LET p == arg[t].pos IN
    Instance(history[waitsOn[t]], [grantees EXCEPT ![p] = Append(@, t)])

(* The grants of thread t at p are those of the monitors it is in, or on   *)
(* its way into, at p: the matching sees every lock, ungrant always finds  *)
(* what it takes back, and nothing is left behind.                         *)
GrantsExact ==
  \A t \in Threads, p \in Positions :
    Cardinality({i \in DOMAIN grantees[p] : grantees[p][i] = t})
      = IF p \notin inHist THEN 0
        ELSE Cardinality({m \in Monitors : next[m] = t /\ acqPos[m] = p})
             + (IF pc[t] \in {"entering", "entered"} /\ arg[t].pos = p THEN 1 ELSE 0)

(* A monitor is asked for or held that the graph does not have: entered in *)
(* java.* code, or again after Object.wait().                              *)
Untracked ==
  \/ \E t \in Threads : pc[t] = "entering" /\ arg[t].pos = NULL
  \/ \E m \in Monitors : holder[m] # NULL /\ acqPos[m] = NULL /\ arg[holder[m]].mon # m

(* A thread is in Object.wait() with another monitor in its hands. *)
WaitsInside == \E t \in Threads : pc[t] = "waiting" /\ Held(t) # {}

(* A thread does not wait on a template for ever, unless a cycle is found  *)
(* and saved, or the graph is incomplete, or somebody waits in a monitor:  *)
(* every yield ends in a release, or is seen.                              *)
YieldsEndOrAreFound ==
  \A t \in Threads :
    (pc[t] = "asleep") ~> (pc[t] # "asleep" \/ found \/ Untracked \/ WaitsInside)
=============================================================================
