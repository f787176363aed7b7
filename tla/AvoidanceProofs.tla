--------------------------- MODULE AvoidanceProofs ---------------------------
(***************************************************************************)
(* Theorems about Avoidance, for any number of threads, mutexes, positions *)
(* and templates.                                                          *)
(***************************************************************************)
EXTENDS Avoidance, TLAPS

-----------------------------------------------------------------------------
(* Sequences as the lists of grants use them. *)

(* Appending adds the new element and keeps the others. *)
LEMMA AppendElements ==
  ASSUME NEW S, NEW s \in Seq(S), NEW e \in S
  PROVE  /\ Append(s, e) \in Seq(S)
         /\ Elements(Append(s, e)) = Elements(s) \cup {e}
<1>1. Append(s, e) \in Seq(S) /\ Len(Append(s, e)) = Len(s) + 1
  OBVIOUS
<1>2. DOMAIN Append(s, e) = 1..(Len(s) + 1) /\ DOMAIN s = 1..Len(s) /\ Len(s) \in Nat
  OBVIOUS
<1>3. \A i \in 1..Len(s) : Append(s, e)[i] = s[i]
  OBVIOUS
<1>4. Append(s, e)[Len(s) + 1] = e
  OBVIOUS
<1>5. Elements(Append(s, e)) \subseteq Elements(s) \cup {e}
  BY <1>2, <1>3, <1>4 DEF Elements
<1>6. Elements(s) \cup {e} \subseteq Elements(Append(s, e))
  BY <1>2, <1>3, <1>4 DEF Elements
<1> QED
  BY <1>1, <1>5, <1>6

(* Without takes one element out and keeps every other one. *)
LEMMA WithoutElements ==
  ASSUME NEW S, NEW s \in Seq(S), NEW i \in DOMAIN s
  PROVE  /\ Without(s, i) \in Seq(S)
         /\ Elements(Without(s, i)) \subseteq Elements(s)
         /\ \A e \in Elements(s) : e # s[i] => e \in Elements(Without(s, i))
<1>1. i \in 1..Len(s) /\ Len(s) \in Nat /\ Len(s) >= 1 /\ DOMAIN s = 1..Len(s)
  OBVIOUS
<1>2. \A j \in 1..Len(s) : s[j] \in S
  OBVIOUS
<1>3. DOMAIN Without(s, i) = 1..(Len(s) - 1)
  BY DEF Without
<1>4. \A j \in 1..(Len(s) - 1) : Without(s, i)[j] = IF j < i THEN s[j] ELSE s[j + 1]
  BY DEF Without
<1>5. Without(s, i) \in [1..(Len(s) - 1) -> S]
  BY <1>1, <1>2 DEF Without
<1>6. Without(s, i) \in Seq(S)
  BY <1>1, <1>5
<1>7. Elements(Without(s, i)) \subseteq Elements(s)
  BY <1>1, <1>3, <1>4 DEF Elements
<1>8. ASSUME NEW e \in Elements(s), e # s[i]
      PROVE  e \in Elements(Without(s, i))
  <2>1. PICK j \in 1..Len(s) : e = s[j]
    BY <1>1 DEF Elements
  <2>2. CASE j < i
    <3>1. j \in 1..(Len(s) - 1) /\ Without(s, i)[j] = e
      BY <1>1, <1>4, <2>1, <2>2
    <3> QED
      BY <1>3, <3>1 DEF Elements
  <2>3. CASE j > i
    <3>1. j - 1 \in 1..(Len(s) - 1) /\ ~(j - 1 < i) /\ (j - 1) + 1 = j
      BY <1>1, <2>3
    <3>2. Without(s, i)[j - 1] = e
      BY <1>4, <2>1, <3>1
    <3> QED
      BY <1>3, <3>1, <3>2 DEF Elements
  <2> QED
    BY <1>1, <1>8, <2>1, <2>2, <2>3
<1> QED
  BY <1>6, <1>7, <1>8

-----------------------------------------------------------------------------
(* Type correctness *)

(* An operation that is under way has its mutex, and its position where it *)
(* is still going to use it.                                               *)
ArgOK ==
  \A t \in Threads :
    /\ pc[t] # "idle" => arg[t].mtx \in Mutexes
    /\ pc[t] \notin {"idle", "unlocking", "condwait"} => arg[t].pos \in Positions
    /\ pc[t] = "cancelling" => lockPos[t] \in Positions

TInv == TypeOK /\ ArgOK

LEMMA EnqueueType ==
  ASSUME eq \in [Threads -> Seq(Events)], NEW t \in Threads, NEW type \in EventTypes,
         NEW m \in Mutexes, NEW p \in Positions \cup {NULL}, NEW cause \in SUBSET Causes,
         Enqueue(t, type, m, p, cause)
  PROVE  eq' \in [Threads -> Seq(Events)]
<1>1. [type |-> type, mtx |-> m, pos |-> p, cause |-> cause] \in Events
  BY DEF Events
<1>2. Append(eq[t], [type |-> type, mtx |-> m, pos |-> p, cause |-> cause]) \in Seq(Events)
  BY <1>1, AppendElements
<1> QED
  BY <1>2 DEF Enqueue

(* remove_allowed leaves lists of grants, with nothing new and everything  *)
(* that is not the grant asked for.                                        *)
LEMMA RemoveAllowedFacts ==
  ASSUME allowed \in [Positions -> Seq(LockGrants)],
         NEW t \in Threads, NEW m \in Mutexes, NEW p \in Positions,
         RemoveAllowed(t, m, p)
  PROVE  /\ allowed' \in [Positions -> Seq(LockGrants)]
         /\ \A q \in Positions : Elements(allowed'[q]) \subseteq Elements(allowed[q])
         /\ \A q \in Positions : \A g \in Elements(allowed[q]) :
              g \notin Elements(allowed'[q]) => q = p /\ g = [thread |-> t, mtx |-> m]
<1> DEFINE g0 == [thread |-> t, mtx |-> m]
           s == allowed[p]
<1>1. s \in Seq(LockGrants)
  OBVIOUS
<1>2. CASE UNCHANGED allowed
  BY <1>2
<1>3. CASE \E i \in DOMAIN s : s[i] = g0 /\ allowed' = [allowed EXCEPT ![p] = Without(s, i)]
  <2>1. PICK i \in DOMAIN s : s[i] = g0 /\ allowed' = [allowed EXCEPT ![p] = Without(s, i)]
    BY <1>3
  <2>2. /\ Without(s, i) \in Seq(LockGrants)
        /\ Elements(Without(s, i)) \subseteq Elements(s)
        /\ \A e \in Elements(s) : e # s[i] => e \in Elements(Without(s, i))
    BY <1>1, WithoutElements
  <2>3. allowed'[p] = Without(s, i) /\ \A q \in Positions \ {p} : allowed'[q] = allowed[q]
    BY <2>1
  <2> HIDE DEF s, g0
  <2>4. allowed' \in [Positions -> Seq(LockGrants)]
    BY <2>1, <2>2
  <2> QED
    BY <2>1, <2>2, <2>3, <2>4 DEF s, g0
<1> QED
  BY <1>2, <1>3 DEF RemoveAllowed

LEMMA TInvInit == Init => TInv
<1>1. <<>> \in Seq(LockGrants) /\ <<>> \in Seq(Events)
  OBVIOUS
<1> QED
  BY <1>1 DEF Init, TInv, TypeOK, ArgOK, PCs, NoArg, Args

(* What matched a template are grants at its positions. *)
LEMMA MatchedGrantsType ==
  ASSUME allowed \in [Positions -> Seq(LockGrants)], NEW k \in DOMAIN History, NEW p \in Positions,
         Matches(History[k], p)
  PROVE  MatchedGrants(History[k], p) \in SUBSET Causes
<1> DEFINE T == History[k]
<1>1. \A j \in DOMAIN T : T[j] \in Positions
  BY HistoryAssumption
<1>2. ASSUME NEW j \in OtherSlots(T, p) PROVE allowed[T[j]][1] \in LockGrants /\ T[j] \in Positions
  <2>1. T[j] \in Positions /\ allowed[T[j]] \in Seq(LockGrants) /\ allowed[T[j]] # <<>>
    BY <1>1 DEF OtherSlots, Matches
  <2> QED
    BY <2>1
<1> QED
  BY <1>2 DEF MatchedGrants, Causes, LockGrants

LEMMA TInvNext == TInv /\ [Next]_vars => TInv'
<1> SUFFICES ASSUME TInv, [Next]_vars PROVE TInv'
  OBVIOUS
<1> USE DEF TInv, TypeOK, ArgOK, PCs, Args, NoArg, Goto, Return, lockVars, realVars, grantVars, monVars
<1>1. ASSUME NEW t \in Threads, NEW m \in Mutexes, NEW p \in Positions, Acquire(t, m, p)
      PROVE  TInv'
  <2>1. eq' \in [Threads -> Seq(Events)]
    BY <1>1, EnqueueType DEF Acquire, EventTypes
  <2>2. CASE owner[m] = t
    BY <1>1, <2>1, <2>2 DEF Acquire
  <2>3. CASE owner[m] # t
    <3>1. /\ pc' = [pc EXCEPT ![t] = "request"] /\ arg' = [arg EXCEPT ![t] = [mtx |-> m, pos |-> p]]
          /\ lockPos' = [lockPos EXCEPT ![t] = p]
          /\ UNCHANGED <<lockVars, realVars, grantVars, yieldCause, bypass, monVars>>
      BY <1>1, <2>3 DEF Acquire
    <3>2. arg' \in [Threads -> Args] /\ lockPos' \in [Threads -> Positions \cup {NULL}]
      BY <3>1
    <3> QED
      BY <2>1, <3>1, <3>2
  <2> QED
    BY <2>2, <2>3
<1>2. ASSUME NEW t \in Threads, TemplateInstance(t) PROVE TInv'
  <2>1. \A k \in MatchingTemplates(arg[t].pos) : MatchedGrants(History[k], arg[t].pos) \in SUBSET Causes
    BY <1>2, MatchedGrantsType DEF MatchingTemplates, TemplateInstance
  <2>2. /\ pc' = [pc EXCEPT ![t] = "decide"] /\ pc[t] = "request"
        /\ UNCHANGED <<arg, lockPos, lockVars, realVars, allowed, yielders, failed, bypass, monVars, eq>>
    BY <1>2 DEF TemplateInstance
  <2>3. avoidLock' \in Threads \cup {NULL} /\ yieldCause' \in [Threads -> SUBSET Causes]
    BY <1>2, <2>1 DEF TemplateInstance
  <2> QED
    BY <2>2, <2>3
<1>3. ASSUME NEW t \in Threads, Grant(t) PROVE TInv'
  <2>1. [thread |-> t, mtx |-> arg[t].mtx] \in LockGrants
    BY <1>3 DEF Grant, LockGrants
  <2>2. Append(allowed[arg[t].pos], [thread |-> t, mtx |-> arg[t].mtx]) \in Seq(LockGrants)
    BY <1>3, <2>1, AppendElements DEF Grant
  <2> QED
    BY <1>3, <2>2 DEF Grant
<1>4. ASSUME NEW t \in Threads, EmitGrant(t) PROVE TInv'
  <2>1. eq' \in [Threads -> Seq(Events)]
    <3>1. arg[t].mtx \in Mutexes /\ arg[t].pos \in Positions /\ Enqueue(t, "GRANT", arg[t].mtx, arg[t].pos, {})
      BY <1>4 DEF EmitGrant
    <3> QED
      BY <3>1, EnqueueType DEF EventTypes
  <2> QED
    BY <1>4, <2>1 DEF EmitGrant
<1>5. ASSUME NEW t \in Threads, Yield(t) PROVE TInv'
  BY <1>5 DEF Yield
<1>6. ASSUME NEW t \in Threads, EmitYield(t) PROVE TInv'
  <2>1. eq' \in [Threads -> Seq(Events)]
    BY <1>6, EnqueueType DEF EmitYield, EventTypes
  <2> QED
    BY <1>6, <2>1 DEF EmitYield
<1>7. ASSUME NEW t \in Threads, Sleep(t) \/ Retry(t) \/ SpuriousWakeup(t) PROVE TInv'
  BY <1>7 DEF Sleep, Retry, SpuriousWakeup
<1>8. ASSUME NEW t \in Threads, RealLock(t) \/ RealLockFails(t) PROVE TInv'
  <2>1. CASE RealLock(t)
    BY <2>1 DEF RealLock
  <2>2. CASE RealLockFails(t)
    <3>1. [pos |-> arg[t].pos, thread |-> t, mtx |-> arg[t].mtx] \in Causes
      BY <2>2 DEF RealLockFails, Causes
    <3> QED
      BY <2>2, <3>1 DEF RealLockFails
  <2> QED
    BY <1>8, <2>1, <2>2
<1>9. ASSUME NEW t \in Threads, Acquired(t) PROVE TInv'
  <2> DEFINE m == arg[t].mtx
  <2>1. m \in Mutexes /\ lockPos[t] \in Positions \cup {NULL} /\ count[m] + 1 \in Int
    BY <1>9 DEF Acquired
  <2>2. eq' \in [Threads -> Seq(Events)]
    <3>1. CASE owner[m] = NULL
      <4>1. Enqueue(t, "ACQUIRED", m, lockPos[t], {})
        BY <1>9, <3>1 DEF Acquired
      <4>2. "ACQUIRED" \in EventTypes /\ {} \in SUBSET Causes
        BY DEF EventTypes
      <4> QED
        BY <2>1, <4>1, <4>2, EnqueueType
    <3>2. CASE owner[m] # NULL
      BY <1>9, <3>2 DEF Acquired
    <3> QED
      BY <3>1, <3>2
  <2>3. owner' \in [Mutexes -> Threads \cup {NULL}] /\ acqPos' \in [Mutexes -> Positions \cup {NULL}]
    BY <1>9, <2>1 DEF Acquired
  <2>4. /\ pc' = [pc EXCEPT ![t] = "idle"] /\ arg' = [arg EXCEPT ![t] = NoArg]
        /\ count' = [count EXCEPT ![m] = @ + 1]
        /\ UNCHANGED <<lockPos, realVars, grantVars, yieldCause, bypass, monVars>>
    BY <1>9 DEF Acquired
  <2> QED
    BY <2>1, <2>2, <2>3, <2>4
<1>10. ASSUME NEW t \in Threads, NEW m \in Mutexes, NEW p \in Positions, TryAcquire(t, m, p)
       PROVE  TInv'
  BY <1>10 DEF TryAcquire
<1>11. ASSUME NEW t \in Threads, RealTryLock(t) PROVE TInv'
  <2>1. arg[t].mtx \in Mutexes /\ depth[arg[t].mtx] + 1 \in Int /\ pc[t] = "trying"
    BY <1>11 DEF RealTryLock
  <2>2. holder' \in [Mutexes -> Threads \cup {NULL}] /\ depth' \in [Mutexes -> Int]
    <3>1. \/ UNCHANGED <<holder, depth>>
          \/ /\ holder' = [holder EXCEPT ![arg[t].mtx] = t]
             /\ depth' = [depth EXCEPT ![arg[t].mtx] = depth[arg[t].mtx] + 1]
      BY <1>11 DEF RealTryLock
    <3>2. CASE UNCHANGED <<holder, depth>>
      BY <3>2
    <3>3. CASE /\ holder' = [holder EXCEPT ![arg[t].mtx] = t]
               /\ depth' = [depth EXCEPT ![arg[t].mtx] = depth[arg[t].mtx] + 1]
      BY <2>1, <3>3
    <3> QED
      BY <3>1, <3>2, <3>3
  <2>3. \/ pc' = [pc EXCEPT ![t] = "acquired"] /\ arg' = arg
        \/ pc' = [pc EXCEPT ![t] = "idle"] /\ arg' = [arg EXCEPT ![t] = NoArg]
    BY <1>11 DEF RealTryLock
  <2>4. UNCHANGED <<lockPos, lockVars, grantVars, yieldCause, bypass, monVars, eq>>
    BY <1>11 DEF RealTryLock
  <2>5. CASE pc' = [pc EXCEPT ![t] = "acquired"] /\ arg' = arg
    BY <2>1, <2>2, <2>4, <2>5
  <2>6. CASE pc' = [pc EXCEPT ![t] = "idle"] /\ arg' = [arg EXCEPT ![t] = NoArg]
    BY <2>1, <2>2, <2>4, <2>6
  <2> QED
    BY <2>3, <2>5, <2>6
<1>12. ASSUME NEW t \in Threads, NEW m \in Mutexes, Release(t, m) PROVE TInv'
  <2>1. eq' \in [Threads -> Seq(Events)]
    BY <1>12, EnqueueType DEF Release, EventTypes
  <2>2. /\ arg' = [arg EXCEPT ![t] = [mtx |-> m, pos |-> acqPos[m]]]
        /\ count' = [count EXCEPT ![m] = @ - 1]
        /\ UNCHANGED <<lockPos, realVars, grantVars, yieldCause, bypass, monVars>>
    BY <1>12 DEF Release
  <2>3. owner' \in [Mutexes -> Threads \cup {NULL}] /\ acqPos' \in [Mutexes -> Positions \cup {NULL}]
    BY <1>12 DEF Release
  <2>4. \/ pc' = [pc EXCEPT ![t] = "unlocking"]
        \/ pc' = [pc EXCEPT ![t] = "releasing"] /\ acqPos[m] \in Positions
    BY <1>12 DEF Release
  <2>5. count' \in [Mutexes -> Int] /\ arg' \in [Threads -> Args]
    BY <2>2
  <2>6. CASE pc' = [pc EXCEPT ![t] = "unlocking"]
    BY <2>1, <2>2, <2>3, <2>5, <2>6
  <2>7. CASE pc' = [pc EXCEPT ![t] = "releasing"] /\ acqPos[m] \in Positions
    BY <2>1, <2>2, <2>3, <2>5, <2>7
  <2> QED
    BY <2>4, <2>6, <2>7
<1>13. ASSUME NEW t \in Threads, ReleaseAllowed(t) PROVE TInv'
  <2>1. allowed' \in [Positions -> Seq(LockGrants)]
    BY <1>13, RemoveAllowedFacts DEF ReleaseAllowed
  <2> QED
    BY <1>13, <2>1 DEF ReleaseAllowed, Cleared, Woken
<1>14. ASSUME NEW t \in Threads, RealUnlock(t) PROVE TInv'
  BY <1>14 DEF RealUnlock
<1>15. ASSUME NEW t \in Threads, Cancel(t) PROVE TInv'
  <2>1. eq' \in [Threads -> Seq(Events)]
    BY <1>15, EnqueueType DEF Cancel, EventTypes
  <2> QED
    BY <1>15, <2>1 DEF Cancel
<1>16. ASSUME NEW t \in Threads, CancelAllowed(t) PROVE TInv'
  <2>1. allowed' \in [Positions -> Seq(LockGrants)]
    BY <1>16, RemoveAllowedFacts DEF CancelAllowed
  <2> QED
    BY <1>16, <2>1 DEF CancelAllowed
<1>17. ASSUME NEW t \in Threads, NEW m \in Mutexes, CondWait(t, m) PROVE TInv'
  BY <1>17 DEF CondWait
<1>18. ASSUME NEW t \in Threads, CondWake(t) PROVE TInv'
  BY <1>18 DEF CondWake
<1>19. ASSUME NEW t \in Threads, BreakYield(t) \/ BreakNotify(t) PROVE TInv'
  <2>1. CASE BreakYield(t)
    BY <2>1 DEF BreakYield
  <2>2. CASE BreakNotify(t)
    <3>1. yieldCause' \in [Threads -> SUBSET Causes] /\ pc' \in [Threads -> PCs]
      BY <2>2 DEF BreakNotify, Cleared, Woken
    <3>2. \A u \in Threads : pc'[u] = pc[u] \/ (pc[u] = "asleep" /\ pc'[u] = "wait")
      BY <2>2 DEF BreakNotify, Woken
    <3>3. /\ breaking' \in SUBSET Threads
          /\ UNCHANGED <<arg, lockPos, lockVars, realVars, grantVars, bypass, yielded, eq>>
      BY <2>2 DEF BreakNotify
    <3> QED
      BY <3>1, <3>2, <3>3
  <2> QED
    BY <1>19, <2>1, <2>2
<1>20. CASE UNCHANGED vars
  BY <1>20 DEF vars
<1> QED
  BY <1>1, <1>2, <1>3, <1>4, <1>5, <1>6, <1>7, <1>8, <1>9, <1>10, <1>11, <1>12, <1>13, <1>14,
     <1>15, <1>16, <1>17, <1>18, <1>19, <1>20 DEF Next, Step, Operation, Monitor

(* Every variable keeps its type, whatever the program does. *)
THEOREM TypeCorrect == Spec => []TypeOK
<1>1. TInv => TypeOK
  BY DEF TInv
<1> QED
  BY <1>1, TInvInit, TInvNext, PTL DEF Spec

-----------------------------------------------------------------------------
(* No grant completes a template *)

(* avoidLock is held exactly between the matching and the decision.        *)
LockInv == \A t \in Threads : avoidLock = t <=> pc[t] = "decide"

LEMMA LockInvInit == Init => LockInv
  BY NullAssumption DEF Init, LockInv

LEMMA LockInvNext == TInv /\ LockInv /\ [Next]_vars => LockInv'
<1> SUFFICES ASSUME TInv, LockInv, [Next]_vars PROVE LockInv'
  OBVIOUS
<1>0. pc \in [Threads -> PCs] /\ NULL \notin Threads
  BY NullAssumption DEF TInv, TypeOK
<1> USE <1>0 DEF LockInv, Goto, Return, lockVars, realVars, grantVars, monVars
<1>1. ASSUME NEW t \in Threads, Operation(t) PROVE LockInv'
  <2>1. pc[t] # "decide" /\ UNCHANGED avoidLock
    BY <1>1 DEF Operation, Acquire, TryAcquire, Release, CondWait, Cancel
  <2>2. \E l \in PCs \ {"decide"} : pc' = [pc EXCEPT ![t] = l]
    BY <1>1 DEF Operation, Acquire, TryAcquire, Release, CondWait, Cancel, PCs
  <2> QED
    BY <2>1, <2>2
<1>2. ASSUME NEW t \in Threads, TemplateInstance(t) PROVE LockInv'
  BY <1>2 DEF TemplateInstance
<1>3. ASSUME NEW t \in Threads, Grant(t) \/ Yield(t) PROVE LockInv'
  BY <1>3 DEF Grant, Yield
<1>4. ASSUME NEW t \in Threads,
             \/ EmitGrant(t) \/ EmitYield(t) \/ Sleep(t) \/ Retry(t) \/ RealLock(t)
             \/ RealLockFails(t) \/ Acquired(t) \/ RealTryLock(t) \/ RealUnlock(t) \/ CancelAllowed(t)
             \/ CondWake(t) \/ SpuriousWakeup(t)
      PROVE  LockInv'
  <2>1. pc[t] # "decide" /\ UNCHANGED avoidLock
    BY <1>4 DEF EmitGrant, EmitYield, Sleep, Retry, RealLock, RealLockFails, Acquired,
                RealTryLock, RealUnlock, CancelAllowed, CondWake, SpuriousWakeup
  <2>2. \E l \in PCs \ {"decide"} : pc' = [pc EXCEPT ![t] = l]
    BY <1>4 DEF EmitGrant, EmitYield, Sleep, Retry, RealLock, RealLockFails, Acquired,
                RealTryLock, RealUnlock, CancelAllowed, CondWake, SpuriousWakeup, PCs
  <2> QED
    BY <2>1, <2>2
<1>5. ASSUME NEW t \in Threads, ReleaseAllowed(t) PROVE LockInv'
  BY <1>5 DEF ReleaseAllowed, Woken
<1>6. ASSUME NEW t \in Threads, BreakYield(t) \/ BreakNotify(t) PROVE LockInv'
  BY <1>6 DEF BreakYield, BreakNotify, Woken
<1>7. CASE UNCHANGED vars
  BY <1>7 DEF vars
<1> QED
  BY <1>1, <1>2, <1>3, <1>4, <1>5, <1>6, <1>7 DEF Next, Step, Monitor

(* Without a monitor that breaks yields, what the matching found is what   *)
(* the decision goes by.                                                   *)
MatchInv ==
  /\ breaking = {} /\ yielded = {}
  /\ \A t \in Threads : bypass[t] = FALSE
  /\ \A t \in Threads, p \in Positions :
       pc[t] = "decide" /\ arg[t].pos = p /\ yieldCause[t] = {} => MatchingTemplates(p) = {}

LEMMA MatchInvInit == Init => MatchInv
  BY DEF Init, MatchInv

(* What matches depends on the lists of grants only. *)
LEMMA MatchingStable ==
  ASSUME UNCHANGED allowed, NEW p
  PROVE  MatchingTemplates(p)' = MatchingTemplates(p)
  BY DEF MatchingTemplates, Matches

(* A template that asks at p has another slot, and so a cause if it matches. *)
LEMMA MatchedNotEmpty ==
  ASSUME NEW k \in DOMAIN History, NEW p
  PROVE  MatchedGrants(History[k], p) # {}
<1> DEFINE T == History[k]
<1>1. T \in Seq(Positions) /\ Len(T) >= 2
  BY HistoryAssumption
<1>2. 1 \in DOMAIN T /\ 2 \in DOMAIN T /\ 1 < 2
  BY <1>1
<1>3. 1 \in OtherSlots(T, p) \/ 2 \in OtherSlots(T, p)
  BY <1>2 DEF OtherSlots
<1> QED
  BY <1>3 DEF MatchedGrants

LEMMA MatchInvNext ==
  "break" \notin Features /\ TInv /\ LockInv /\ MatchInv /\ [Next]_vars => MatchInv'
<1> SUFFICES ASSUME "break" \notin Features, TInv, LockInv, MatchInv, [Next]_vars PROVE MatchInv'
  OBVIOUS
<1>0. /\ pc \in [Threads -> PCs] /\ yieldCause \in [Threads -> SUBSET Causes]
      /\ bypass \in [Threads -> BOOLEAN] /\ NULL \notin Threads
      /\ arg \in [Threads -> Args]
  BY NullAssumption DEF TInv, TypeOK
<1> USE <1>0 DEF LockInv, Goto, Return, lockVars, realVars, grantVars, monVars
<1>1. ASSUME NEW t \in Threads,
             \/ Operation(t) \/ EmitGrant(t) \/ Sleep(t) \/ Retry(t) \/ RealLock(t)
             \/ RealLockFails(t) \/ Acquired(t) \/ RealTryLock(t) \/ RealUnlock(t)
             \/ CondWake(t) \/ SpuriousWakeup(t)
      PROVE  MatchInv'
  <2>1. \E l \in PCs \ {"decide"} : pc' = [pc EXCEPT ![t] = l]
    BY <1>1 DEF Operation, Acquire, TryAcquire, Release, CondWait, Cancel, EmitGrant, Sleep, Retry,
                RealLock, RealLockFails, Acquired, RealTryLock, RealUnlock, CondWake, SpuriousWakeup, PCs
  <2>2. UNCHANGED <<allowed, yieldCause, bypass, yielded, breaking>>
    BY <1>1 DEF Operation, Acquire, TryAcquire, Release, CondWait, Cancel, EmitGrant, Sleep, Retry,
                RealLock, RealLockFails, Acquired, RealTryLock, RealUnlock, CondWake, SpuriousWakeup
  <2>3. \A u \in Threads \ {t} : arg'[u] = arg[u]
    BY <1>1 DEF Operation, Acquire, TryAcquire, Release, CondWait, Cancel, EmitGrant, Sleep, Retry,
                RealLock, RealLockFails, Acquired, RealTryLock, RealUnlock, CondWake, SpuriousWakeup
  <2>4. \A p \in Positions : MatchingTemplates(p)' = MatchingTemplates(p)
    BY <2>2, MatchingStable
  <2> QED
    BY <2>1, <2>2, <2>3, <2>4 DEF MatchInv
<1>2. ASSUME NEW t \in Threads, TemplateInstance(t) PROVE MatchInv'
  <2> DEFINE ks == MatchingTemplates(arg[t].pos)
  <2>1. /\ UNCHANGED <<arg, allowed, bypass, yielded, breaking>>
        /\ pc' = [pc EXCEPT ![t] = "decide"]
        /\ \A u \in Threads \ {t} : pc[u] # "decide"
    BY <1>2 DEF TemplateInstance
  <2>2. yieldCause'[t] = {} => ks = {}
    <3>1. CASE ks = {}
      BY <3>1
    <3>2. CASE ks # {}
      <4>1. PICK k \in ks : yieldCause' = [yieldCause EXCEPT ![t] = MatchedGrants(History[k], arg[t].pos)]
        BY <1>2, <3>2 DEF TemplateInstance
      <4>2. yieldCause'[t] = MatchedGrants(History[k], arg[t].pos) /\ k \in DOMAIN History
        BY <4>1 DEF MatchingTemplates
      <4> QED
        BY <4>2, MatchedNotEmpty
    <3> QED
      BY <3>1, <3>2
  <2> HIDE DEF ks
  <2>3. \A p \in Positions : MatchingTemplates(p)' = MatchingTemplates(p)
    BY <2>1, MatchingStable
  <2> QED
    BY <2>1, <2>2, <2>3 DEF MatchInv, ks
<1>3. ASSUME NEW t \in Threads, Grant(t) \/ Yield(t) PROVE MatchInv'
  <2>1. \A u \in Threads : pc'[u] # "decide"
    BY <1>3 DEF Grant, Yield
  <2>2. UNCHANGED <<yielded, breaking>> /\ \A u \in Threads : bypass'[u] = FALSE
    BY <1>3 DEF Grant, Yield, MatchInv
  <2> QED
    BY <2>1, <2>2 DEF MatchInv
<1>4. ASSUME NEW t \in Threads, EmitYield(t) PROVE MatchInv'
  <2>1. /\ pc' = [pc EXCEPT ![t] = "wait"]
        /\ UNCHANGED <<arg, allowed, yieldCause, bypass, yielded, breaking>>
    BY <1>4 DEF EmitYield
  <2> QED
    BY <2>1, MatchingStable DEF MatchInv
<1>5. ASSUME NEW t \in Threads, ReleaseAllowed(t) \/ CancelAllowed(t) PROVE MatchInv'
  <2>1. \A u \in Threads : pc'[u] # "decide"
    BY <1>5 DEF ReleaseAllowed, CancelAllowed, Woken
  <2>2. UNCHANGED <<bypass, yielded, breaking>>
    BY <1>5 DEF ReleaseAllowed, CancelAllowed
  <2> QED
    BY <2>1, <2>2 DEF MatchInv
<1>6. ASSUME NEW t \in Threads, BreakYield(t) \/ BreakNotify(t) PROVE MatchInv'
  BY <1>6 DEF BreakYield, BreakNotify, MatchInv
<1>7. CASE UNCHANGED vars
  BY <1>7, MatchingStable DEF vars, MatchInv
<1> QED
  BY <1>1, <1>2, <1>3, <1>4, <1>5, <1>6, <1>7 DEF Next, Step, Monitor

(* The heart of the algorithm: where no template matches, a grant more     *)
(* occupies no template.                                                   *)
LEMMA GrantSafe ==
  ASSUME TypeOK, NEW t \in Threads, NEW m \in Mutexes, NEW p \in Positions,
         MatchingTemplates(p) = {}, NEW k \in DOMAIN History,
         I!Occupies(GrantsInForce \cup {[pos |-> p, thread |-> t, mtx |-> m]}, History[k])
  PROVE  I!Occupies(GrantsInForce, History[k])
<1> DEFINE T == History[k]
           g == [pos |-> p, thread |-> t, mtx |-> m]
           G == GrantsInForce
<1>1. PICK f \in [DOMAIN T -> G \cup {g}] :
        /\ \A i \in DOMAIN T : f[i].pos = T[i]
        /\ \A i, j \in DOMAIN T : f[i] = f[j] => i = j
  BY DEF I!Occupies
<1>2. CASE \A i \in DOMAIN T : f[i] # g
  <2>1. f \in [DOMAIN T -> G]
    BY <1>2
  <2> QED
    BY <1>1, <2>1 DEF I!Occupies
<1>3. CASE \E i \in DOMAIN T : f[i] = g
  <2>1. PICK i \in DOMAIN T : f[i] = g
    BY <1>3
  <2>2. T[i] = p
    BY <1>1, <2>1
  <2>3. ~Matches(T, p)
    BY <2>2 DEF MatchingTemplates, Elements
  <2>4. PICK j \in OtherSlots(T, p) : allowed[T[j]] = <<>>
    BY <2>3 DEF Matches
  <2>5. j \in DOMAIN T
    BY <2>4 DEF OtherSlots
  <2>6. ASSUME NEW n \in DOMAIN T, n # i PROVE allowed[T[n]] # <<>>
    <3>1. f[n] \in G /\ f[n].pos = T[n]
      BY <1>1, <2>1, <2>6
    <3>2. Elements(allowed[T[n]]) # {}
      BY <3>1 DEF GrantsInForce
    <3> QED
      BY <3>2 DEF Elements
  <2>7. j = i
    BY <2>4, <2>5, <2>6
  <2>8. PICK n \in DOMAIN T : n < j /\ T[n] = p
    BY <2>2, <2>4, <2>7 DEF OtherSlots
  <2>9. n # i
    <3>1. T \in Seq(Positions)
      BY HistoryAssumption
    <3> QED
      BY <2>5, <2>7, <2>8, <3>1
  <2> QED
    BY <2>2, <2>4, <2>6, <2>7, <2>8, <2>9
<1> QED
  BY <1>2, <1>3

(* Fewer grants occupy no more. *)
LEMMA OccupiesMonotone ==
  ASSUME NEW G, NEW H, G \subseteq H, NEW T, I!Occupies(G, T)
  PROVE  I!Occupies(H, T)
<1>1. PICK f \in [DOMAIN T -> G] :
        /\ \A i \in DOMAIN T : f[i].pos = T[i]
        /\ \A i, j \in DOMAIN T : f[i] = f[j] => i = j
  BY DEF I!Occupies
<1>2. f \in [DOMAIN T -> H]
  BY <1>1
<1> QED
  BY <1>1, <1>2 DEF I!Occupies

LEMMA GrantsAfterAppend ==
  ASSUME TypeOK, NEW t \in Threads, NEW m \in Mutexes, NEW p \in Positions,
         allowed' = [allowed EXCEPT ![p] = Append(@, [thread |-> t, mtx |-> m])]
  PROVE  GrantsInForce' = GrantsInForce \cup {[pos |-> p, thread |-> t, mtx |-> m]}
<1> DEFINE g == [thread |-> t, mtx |-> m]
           c0 == [pos |-> p, thread |-> t, mtx |-> m]
<1>1. g \in LockGrants /\ allowed[p] \in Seq(LockGrants) /\ c0 \in Causes
  BY DEF TypeOK, LockGrants, Causes
<1>2. allowed'[p] = Append(allowed[p], g) /\ \A q \in Positions \ {p} : allowed'[q] = allowed[q]
  BY DEF TypeOK
<1>3. Elements(allowed'[p]) = Elements(allowed[p]) \cup {g}
  BY <1>1, <1>2, AppendElements
<1>4. ASSUME NEW c \in Causes
      PROVE  [thread |-> c.thread, mtx |-> c.mtx] \in Elements(allowed'[c.pos])
               <=> [thread |-> c.thread, mtx |-> c.mtx] \in Elements(allowed[c.pos]) \/ c = c0
  <2>1. CASE c.pos = p
    BY <1>3, <2>1 DEF Causes
  <2>2. CASE c.pos # p
    BY <1>2, <2>2 DEF Causes
  <2> QED
    BY <2>1, <2>2
<1> QED
  BY <1>1, <1>4 DEF GrantsInForce

LEMMA GrantsAfterRemove ==
  ASSUME TypeOK, NEW t \in Threads, NEW m \in Mutexes, NEW p \in Positions, RemoveAllowed(t, m, p)
  PROVE  /\ GrantsInForce' \subseteq GrantsInForce
         /\ GrantsInForce \ GrantsInForce' \subseteq {[pos |-> p, thread |-> t, mtx |-> m]}
<1>1. /\ \A q \in Positions : Elements(allowed'[q]) \subseteq Elements(allowed[q])
      /\ \A q \in Positions : \A g \in Elements(allowed[q]) :
           g \notin Elements(allowed'[q]) => q = p /\ g = [thread |-> t, mtx |-> m]
  BY RemoveAllowedFacts DEF TypeOK
<1>2. \A c \in Causes : c.pos \in Positions /\ c = [pos |-> c.pos, thread |-> c.thread, mtx |-> c.mtx]
  BY DEF Causes
<1> QED
  BY <1>1, <1>2 DEF GrantsInForce

(* Every step gives one grant to a thread no template matched for, takes   *)
(* one back, or leaves the grants alone.                                   *)
GrantStep ==
  \/ \E t \in Threads, m \in Mutexes, p \in Positions :
       /\ MatchingTemplates(p) = {}
       /\ GrantsInForce' = GrantsInForce \cup {[pos |-> p, thread |-> t, mtx |-> m]}
  \/ \E c \in Causes : GrantsInForce' = GrantsInForce \ {c}
  \/ GrantsInForce' = GrantsInForce

LEMMA EveryGrantStep ==
  "break" \notin Features /\ TInv /\ LockInv /\ MatchInv /\ [Next]_vars => GrantStep
<1> SUFFICES ASSUME "break" \notin Features, TInv, LockInv, MatchInv, [Next]_vars PROVE GrantStep
  OBVIOUS
<1> USE DEF lockVars, realVars, grantVars, monVars
<1>1. CASE UNCHANGED allowed
  BY <1>1 DEF GrantStep, GrantsInForce
<1>2. ASSUME NEW t \in Threads, Grant(t) PROVE GrantStep
  <2>1. arg[t].mtx \in Mutexes /\ arg[t].pos \in Positions /\ pc[t] = "decide"
    BY <1>2 DEF Grant, TInv, ArgOK
  <2>2. MatchingTemplates(arg[t].pos) = {}
    BY <1>2, <2>1 DEF Grant, MatchInv
  <2>3. GrantsInForce' = GrantsInForce \cup {[pos |-> arg[t].pos, thread |-> t, mtx |-> arg[t].mtx]}
    BY <1>2, <2>1, GrantsAfterAppend DEF Grant, TInv
  <2> QED
    BY <2>1, <2>2, <2>3 DEF GrantStep
<1>3. ASSUME NEW t \in Threads, NEW p \in Positions, NEW m \in Mutexes, RemoveAllowed(t, m, p)
      PROVE  GrantStep
  <2> DEFINE c == [pos |-> p, thread |-> t, mtx |-> m]
  <2>1. c \in Causes
    BY DEF Causes
  <2>2. GrantsInForce' = GrantsInForce \/ GrantsInForce' = GrantsInForce \ {c}
    BY <1>3, GrantsAfterRemove DEF TInv
  <2> QED
    BY <2>1, <2>2 DEF GrantStep
<1>4. ASSUME NEW t \in Threads, ReleaseAllowed(t) PROVE GrantStep
  BY <1>3, <1>4 DEF ReleaseAllowed, TInv, ArgOK
<1>5. ASSUME NEW t \in Threads, CancelAllowed(t) PROVE GrantStep
  BY <1>3, <1>5 DEF CancelAllowed, TInv, ArgOK
<1>6. ASSUME NEW t \in Threads,
             \/ TemplateInstance(t) \/ EmitGrant(t) \/ Yield(t) \/ EmitYield(t) \/ Sleep(t)
             \/ Retry(t) \/ RealLock(t) \/ RealLockFails(t) \/ Acquired(t) \/ RealTryLock(t)
             \/ RealUnlock(t) \/ CondWake(t) \/ SpuriousWakeup(t) \/ Operation(t) \/ BreakYield(t) \/ BreakNotify(t)
      PROVE  UNCHANGED allowed
  BY <1>6 DEF TemplateInstance, EmitGrant, Yield, EmitYield, Sleep, Retry, RealLock, RealLockFails,
              Acquired, RealTryLock, RealUnlock, CondWake, SpuriousWakeup, Operation, Acquire, TryAcquire,
              Release, CondWait, Cancel, BreakYield, BreakNotify
<1>7. CASE UNCHANGED vars
  BY <1>1, <1>7 DEF vars
<1> QED
  BY <1>1, <1>2, <1>4, <1>5, <1>6, <1>7 DEF Next, Step, Monitor

LEMMA NoOccupationInit == Init => NoOccupation
<1> SUFFICES ASSUME Init PROVE NoOccupation
  OBVIOUS
<1>1. GrantsInForce = {}
  BY DEF Init, GrantsInForce, Causes, Elements
<1>2. \A k \in DOMAIN History : 1 \in DOMAIN History[k]
  BY HistoryAssumption
<1> QED
  BY <1>1, <1>2 DEF NoOccupation, I!Occupies

LEMMA NoOccupationNext == TInv /\ NoOccupation /\ GrantStep => NoOccupation'
<1> SUFFICES ASSUME TInv, NoOccupation, GrantStep, NEW k \in DOMAIN History,
                    I!Occupies(GrantsInForce', History[k])
             PROVE  FALSE
  BY DEF NoOccupation
<1>1. ~I!Occupies(GrantsInForce, History[k])
  BY DEF NoOccupation
<1>2. CASE GrantsInForce' \subseteq GrantsInForce
  BY <1>1, <1>2, OccupiesMonotone
<1>3. ASSUME NEW t \in Threads, NEW m \in Mutexes, NEW p \in Positions, MatchingTemplates(p) = {},
             GrantsInForce' = GrantsInForce \cup {[pos |-> p, thread |-> t, mtx |-> m]}
      PROVE  FALSE
  BY <1>1, <1>3, GrantSafe DEF TInv
<1> QED
  BY <1>2, <1>3 DEF GrantStep

(* As long as the monitor lets nobody through, no set of grants in force   *)
(* occupies a remembered deadlock, whatever else the program does          *)
(* (template_instance and match_template, with trylock and condition waits).*)
THEOREM NeverOccupied ==
  ASSUME "break" \notin Features
  PROVE  Spec => []NoOccupation
<1> DEFINE Inv == TInv /\ LockInv /\ MatchInv /\ NoOccupation
<1>1. Init => Inv
  BY TInvInit, LockInvInit, MatchInvInit, NoOccupationInit
<1>2. Inv /\ [Next]_vars => Inv'
  BY TInvNext, LockInvNext, MatchInvNext, EveryGrantStep, NoOccupationNext
<1>3. Inv => NoOccupation
  OBVIOUS
<1> HIDE DEF Inv
<1> QED
  BY <1>1, <1>2, <1>3, PTL DEF Spec

(* As long as the monitor lets nobody through, avoidance implements the    *)
(* abstract grant policy.                                                  *)
THEOREM Implementation ==
  ASSUME "break" \notin Features
  PROVE  Spec => ImplementsImmunity
<1> DEFINE Inv == TInv /\ LockInv /\ MatchInv
<1>1. Init => Inv /\ I!Init
  <2>1. ASSUME Init PROVE I!Init
    <3>1. GrantsInForce = {}
      BY <2>1 DEF Init, GrantsInForce, Causes, Elements
    <3>2. Tokens = {}
      BY <2>1 DEF Init, Tokens
    <3> QED
      BY <3>1, <3>2 DEF I!Init
  <2> QED
    BY <2>1, TInvInit, LockInvInit, MatchInvInit
<1>2. Inv /\ [Next]_vars => Inv' /\ [I!Next]_(I!vars)
  <2> SUFFICES ASSUME Inv, [Next]_vars PROVE Inv' /\ [I!Next]_(I!vars)
    OBVIOUS
  <2>1. Inv' /\ GrantStep
    BY TInvNext, LockInvNext, MatchInvNext, EveryGrantStep
  <2>2. Tokens = {} /\ Tokens' = {}
    BY <2>1 DEF Tokens, MatchInv
  <2>3. ASSUME NEW t \in Threads, NEW m \in Mutexes, NEW p \in Positions, MatchingTemplates(p) = {},
               GrantsInForce' = GrantsInForce \cup {[pos |-> p, thread |-> t, mtx |-> m]}
        PROVE  I!Next
    <3> DEFINE g == [pos |-> p, thread |-> t, mtx |-> m]
    <3>1. g \in I!Grants
      BY DEF I!Grants
    <3>2. ~I!Completes(GrantsInForce, g)
      BY <2>3, GrantSafe DEF I!Completes, TInv
    <3>3. I!Grant(g)
      BY <2>2, <2>3, <3>2 DEF I!Grant
    <3> QED
      BY <3>1, <3>3 DEF I!Next
  <2>4. ASSUME NEW c \in Causes, GrantsInForce' = GrantsInForce \ {c} PROVE I!Next
    <3>1. c \in I!Grants
      BY DEF I!Grants, Causes
    <3>2. I!Revoke(c)
      BY <2>2, <2>4 DEF I!Revoke
    <3> QED
      BY <3>1, <3>2 DEF I!Next
  <2>5. CASE GrantsInForce' = GrantsInForce
    BY <2>1, <2>2, <2>5 DEF I!vars
  <2> QED
    BY <2>1, <2>3, <2>4, <2>5 DEF GrantStep
<1> HIDE DEF Inv
<1> QED
  BY <1>1, <1>2, PTL DEF Spec, ImplementsImmunity, I!Spec

-----------------------------------------------------------------------------
(* Wake-ups: a thread that yields does so on grants that are still in      *)
(* force, and whoever takes one of them back knows of it.                  *)

(* Neither the monitor nor dlock_cancel takes part: the one clears causes  *)
(* at any time, the other takes a grant back and notifies nobody.          *)
WakeOK(t) ==
  /\ pc[t] # "cancelling"
  /\ pc[t] \notin {"decide", "yielding", "wait", "asleep"} => yieldCause[t] = {}
  /\ \A c \in yieldCause[t] : c \in GrantsInForce /\ (pc[t] # "decide" => t \in yielders[c])

WakeInv == \A t \in Threads : WakeOK(t)

LEMMA WakeInvInit == Init => WakeInv
BY DEF Init, WakeInv, WakeOK

(* What matched a template is in force. *)
LEMMA MatchedInForce ==
  ASSUME TypeOK, NEW k \in DOMAIN History, NEW p \in Positions, Matches(History[k], p)
  PROVE  MatchedGrants(History[k], p) \subseteq GrantsInForce
<1> DEFINE T == History[k]
<1> SUFFICES ASSUME NEW j \in OtherSlots(T, p)
             PROVE  [pos |-> T[j], thread |-> allowed[T[j]][1].thread, mtx |-> allowed[T[j]][1].mtx]
                      \in GrantsInForce
  BY DEF MatchedGrants
<1>1. T[j] \in Positions
  BY HistoryAssumption DEF OtherSlots
<1>2. allowed[T[j]] \in Seq(LockGrants) /\ allowed[T[j]] # <<>>
  BY <1>1 DEF Matches, TypeOK
<1>3. 1 \in DOMAIN allowed[T[j]] /\ allowed[T[j]][1] \in LockGrants
  BY <1>2
<1>4. allowed[T[j]][1] \in Elements(allowed[T[j]])
  BY <1>3 DEF Elements
<1>5. [thread |-> allowed[T[j]][1].thread, mtx |-> allowed[T[j]][1].mtx] = allowed[T[j]][1]
  BY <1>3 DEF LockGrants
<1> QED
  BY <1>1, <1>3, <1>4, <1>5 DEF GrantsInForce, Causes, LockGrants

(* A step that leaves the grants and what is waited on alone, and moves    *)
(* one thread t between two points that do not differ in that.             *)
LEMMA WakeKept ==
  ASSUME TInv, WakeInv, UNCHANGED <<allowed, yielders, yieldCause>>, NEW t \in Threads,
         \A u \in Threads \ {t} : pc'[u] = pc[u],
         pc[t] # "decide" \/ yieldCause[t] = {}, pc'[t] \notin {"decide", "cancelling"},
         \/ pc'[t] \in {"yielding", "wait", "asleep"}
         \/ yieldCause[t] = {}
  PROVE  WakeInv'
<1>1. GrantsInForce' = GrantsInForce
  BY DEF GrantsInForce
<1>2. ASSUME NEW u \in Threads PROVE WakeOK(u)'
  <2>1. WakeOK(u)
    BY DEF WakeInv
  <2>2. CASE u = t
    BY <1>1, <2>1, <2>2 DEF WakeOK
  <2>3. CASE u # t
    BY <1>1, <2>1, <2>3 DEF WakeOK
  <2> QED
    BY <2>2, <2>3
<1> QED
  BY <1>2 DEF WakeInv

LEMMA WakeInvNext ==
  "break" \notin Features /\ "cancel" \notin Features
    /\ TInv /\ LockInv /\ MatchInv /\ WakeInv /\ [Next]_vars => WakeInv'
<1> SUFFICES ASSUME "break" \notin Features, "cancel" \notin Features,
                    TInv, LockInv, MatchInv, WakeInv, [Next]_vars
             PROVE  WakeInv'
  OBVIOUS
<1> USE DEF Goto, Return, lockVars, realVars, grantVars, monVars
<1>1. ASSUME NEW t \in Threads, TemplateInstance(t) PROVE WakeInv'
  <2>1. PICK p \in Positions : p = arg[t].pos
    BY <1>1 DEF TemplateInstance, TInv, ArgOK
  <2>2. /\ pc[t] = "request" /\ pc' = [pc EXCEPT ![t] = "decide"] /\ UNCHANGED <<allowed, yielders>>
        /\ \/ yieldCause' = yieldCause
           \/ \E k \in MatchingTemplates(p) :
                yieldCause' = [yieldCause EXCEPT ![t] = MatchedGrants(History[k], p)]
    BY <1>1, <2>1 DEF TemplateInstance
  <2>3. GrantsInForce' = GrantsInForce
    BY <2>2 DEF GrantsInForce
  <2>4. WakeOK(t) /\ pc'[t] = "decide"
    BY <2>2 DEF WakeInv, TInv, TypeOK
  <2>5. yieldCause'[t] \subseteq GrantsInForce
    <3>1. CASE yieldCause' = yieldCause
      BY <2>2, <2>4, <3>1 DEF WakeOK
    <3>2. ASSUME NEW k \in MatchingTemplates(p),
                 yieldCause' = [yieldCause EXCEPT ![t] = MatchedGrants(History[k], p)]
          PROVE  yieldCause'[t] \subseteq GrantsInForce
      <4>1. yieldCause'[t] = MatchedGrants(History[k], p)
        BY <3>2 DEF TInv, TypeOK
      <4>2. k \in DOMAIN History /\ Matches(History[k], p)
        BY DEF MatchingTemplates
      <4> QED
        BY <4>1, <4>2, MatchedInForce DEF TInv
    <3> QED
      BY <2>2, <3>1, <3>2
  <2>6. \A u \in Threads \ {t} : pc'[u] = pc[u] /\ yieldCause'[u] = yieldCause[u]
    BY <2>2 DEF TInv, TypeOK
  <2> QED
    BY <2>2, <2>3, <2>4, <2>5, <2>6 DEF WakeInv, WakeOK
<1>2. ASSUME NEW t \in Threads, Grant(t) PROVE WakeInv'
  <2>1. PICK m \in Mutexes, p \in Positions : m = arg[t].mtx /\ p = arg[t].pos
    BY <1>2 DEF Grant, TInv, ArgOK
  <2>2. /\ pc' = [pc EXCEPT ![t] = "granted"] /\ UNCHANGED <<yielders, yieldCause>>
        /\ allowed' = [allowed EXCEPT ![p] = Append(@, [thread |-> t, mtx |-> m])]
        /\ yieldCause[t] = {}
    BY <1>2, <2>1 DEF Grant, MatchInv
  <2>3. GrantsInForce \subseteq GrantsInForce'
    BY <2>2, GrantsAfterAppend DEF TInv
  <2>4. pc'[t] = "granted" /\ \A u \in Threads \ {t} : pc'[u] = pc[u]
    BY <2>2 DEF TInv, TypeOK
  <2> QED
    BY <2>2, <2>3, <2>4 DEF WakeInv, WakeOK
<1>3. ASSUME NEW t \in Threads, Yield(t) PROVE WakeInv'
  <2>1. /\ pc' = [pc EXCEPT ![t] = "yielding"] /\ UNCHANGED <<allowed, yieldCause>>
        /\ yielders' = [c \in Causes |-> IF c \in yieldCause[t] THEN yielders[c] \cup {t} ELSE yielders[c]]
    BY <1>3 DEF Yield
  <2>2. GrantsInForce' = GrantsInForce
    BY <2>1 DEF GrantsInForce
  <2>3. \A u \in Threads : \A c \in yieldCause[u] : c \in Causes
    BY DEF TInv, TypeOK
  <2>4. pc'[t] = "yielding" /\ \A u \in Threads \ {t} : pc'[u] = pc[u]
    BY <2>1 DEF TInv, TypeOK
  <2>5. ASSUME NEW u \in Threads PROVE WakeOK(u)'
    <3>1. WakeOK(u)
      BY DEF WakeInv
    <3>2. \A c \in yieldCause[u] : yielders[c] \subseteq yielders'[c] /\ (u = t => t \in yielders'[c])
      BY <2>1, <2>3
    <3> QED
      BY <2>1, <2>2, <2>4, <3>1, <3>2 DEF WakeOK
  <2> QED
    BY <2>5 DEF WakeInv
<1>4. ASSUME NEW t \in Threads, EmitYield(t) \/ Sleep(t) \/ SpuriousWakeup(t) PROVE WakeInv'
  <2>1. /\ UNCHANGED <<allowed, yielders, yieldCause>>
        /\ pc[t] \in {"yielding", "wait", "asleep"}
        /\ pc' \in {[pc EXCEPT ![t] = "wait"], [pc EXCEPT ![t] = "asleep"]}
    BY <1>4 DEF EmitYield, Sleep, SpuriousWakeup
  <2>2. pc'[t] \in {"wait", "asleep"} /\ \A u \in Threads \ {t} : pc'[u] = pc[u]
    BY <2>1 DEF TInv, TypeOK
  <2> QED
    BY <2>1, <2>2, WakeKept
<1>5. ASSUME NEW t \in Threads, Retry(t) PROVE WakeInv'
  <2>1. /\ UNCHANGED <<allowed, yielders, yieldCause>>
        /\ pc' = [pc EXCEPT ![t] = "request"] /\ yieldCause[t] = {}
    BY <1>5 DEF Retry, MatchInv
  <2>2. pc'[t] = "request" /\ \A u \in Threads \ {t} : pc'[u] = pc[u]
    BY <2>1 DEF TInv, TypeOK
  <2> QED
    BY <2>1, <2>2, WakeKept
<1>6. ASSUME NEW t \in Threads,
             \/ EmitGrant(t) \/ RealLock(t) \/ RealLockFails(t) \/ Acquired(t) \/ RealTryLock(t)
             \/ RealUnlock(t) \/ CondWake(t) \/ Operation(t)
      PROVE  WakeInv'
  <2>1. /\ UNCHANGED <<allowed, yielders, yieldCause>>
        /\ pc[t] \in {"granted", "locking", "acquired", "trying", "unlocking", "condwait", "idle"}
        /\ \E l \in {"locking", "acquired", "idle", "request", "trying", "unlocking", "releasing", "condwait"} :
             pc' = [pc EXCEPT ![t] = l]
    BY <1>6 DEF EmitGrant, RealLock, RealLockFails, Acquired, RealTryLock, RealUnlock, CondWake,
                Operation, Acquire, TryAcquire, Release, CondWait, Cancel
  <2>2. WakeOK(t)
    BY DEF WakeInv
  <2>3. yieldCause[t] = {}
    BY <2>1, <2>2 DEF WakeOK
  <2>4. pc'[t] \notin {"decide", "cancelling"} /\ \A u \in Threads \ {t} : pc'[u] = pc[u]
    BY <2>1 DEF TInv, TypeOK
  <2> QED
    BY <2>1, <2>3, <2>4, WakeKept
<1>7. ASSUME NEW t \in Threads, ReleaseAllowed(t) PROVE WakeInv'
  <2>1. PICK m \in Mutexes, p \in Positions : m = arg[t].mtx /\ p = arg[t].pos
    BY <1>7 DEF ReleaseAllowed, TInv, ArgOK
  <2>2. PICK c \in Causes : c = [pos |-> p, thread |-> t, mtx |-> m]
    BY DEF Causes
  <2>3. /\ pc[t] = "releasing" /\ avoidLock = NULL /\ RemoveAllowed(t, m, p)
        /\ yieldCause' = Cleared(yielders[c])
        /\ pc' = [Woken(yielders[c]) EXCEPT ![t] = "unlocking"]
        /\ yielders' = [yielders EXCEPT ![c] = {}]
    BY <1>7, <2>1, <2>2 DEF ReleaseAllowed
  <2>4. GrantsInForce \ GrantsInForce' \subseteq {c}
    BY <2>2, <2>3, GrantsAfterRemove DEF TInv
  <2>5. ASSUME NEW u \in Threads PROVE WakeOK(u)'
    <3>1. WakeOK(u)
      BY DEF WakeInv
    <3>2. pc[u] # "decide"
      BY <2>3, NullAssumption DEF LockInv
    <3>3. yieldCause'[u] = IF u \in yielders[c] THEN {} ELSE yieldCause[u]
      BY <2>3 DEF Cleared
    <3>4. pc'[u] = pc[u] \/ (pc[u] = "asleep" /\ pc'[u] = "wait") \/ (u = t /\ pc'[u] = "unlocking")
      BY <2>3 DEF Woken
    <3>5. u = t => yieldCause[u] = {}
      BY <2>3, <3>1 DEF WakeOK
    <3>6. ASSUME NEW d \in yieldCause'[u] PROVE d \in GrantsInForce' /\ u \in yielders'[d]
      <4>1. d \in yieldCause[u] /\ u \notin yielders[c]
        BY <3>3, <3>6
      <4>2. d \in GrantsInForce /\ u \in yielders[d] /\ d # c
        BY <3>1, <3>2, <4>1 DEF WakeOK
      <4>3. d \in Causes
        BY <4>2 DEF GrantsInForce
      <4> QED
        BY <2>3, <2>4, <4>2, <4>3 DEF TInv, TypeOK
    <3> QED
      BY <3>1, <3>2, <3>3, <3>4, <3>5, <3>6 DEF WakeOK
  <2> QED
    BY <2>5 DEF WakeInv
<1>8. ASSUME NEW t \in Threads, CancelAllowed(t) PROVE WakeInv'
  BY <1>8 DEF CancelAllowed, WakeInv, WakeOK
<1>9. ASSUME NEW t \in Threads, BreakYield(t) \/ BreakNotify(t) PROVE WakeInv'
  BY <1>9 DEF BreakYield, BreakNotify, MatchInv
<1>10. CASE UNCHANGED vars
  <2>1. UNCHANGED <<pc, allowed, yielders, yieldCause>>
    BY <1>10 DEF vars
  <2> QED
    BY <2>1 DEF WakeInv, WakeOK, GrantsInForce
<1> QED
  BY <1>1, <1>2, <1>3, <1>4, <1>5, <1>6, <1>7, <1>8, <1>9, <1>10 DEF Next, Step, Monitor

(* A thread that waits, or is about to, is registered with every grant it  *)
(* waits on, and each of them is in force, whatever the                    *)
(* order of yield_request, yield_wait, release and yield_notify.           *)
THEOREM NoWakeupIsLost ==
  ASSUME "break" \notin Features, "cancel" \notin Features
  PROVE  Spec => []NoLostWakeup
<1> DEFINE Inv == TInv /\ LockInv /\ MatchInv /\ WakeInv
<1>1. Init => Inv
  BY TInvInit, LockInvInit, MatchInvInit, WakeInvInit
<1>2. Inv /\ [Next]_vars => Inv'
  BY TInvNext, LockInvNext, MatchInvNext, WakeInvNext
<1>3. Inv => NoLostWakeup
  BY DEF WakeInv, WakeOK, NoLostWakeup
<1> HIDE DEF Inv
<1> QED
  BY <1>1, <1>2, <1>3, PTL DEF Spec

(***************************************************************************)
(* From the grants to the locks: the bookkeeping of a mutex agrees with    *)
(* the real one, whoever owns a mutex does so under a grant, and therefore *)
(* a deadlock in the history does not happen again; and no grant is left   *)
(* behind when its lock is gone.                                           *)
(***************************************************************************)

(* Owners.  "condwait" is excluded throughout: pthread_cond_wait breaks    *)
(* these invariants, since it gives the mutex up behind the bookkeeping.   *)

(* The real mutex is one level ahead of the count while its thread is      *)
(* between the two.                                                        *)
InBetween(t, m) ==
  IF arg[t].mtx = m /\ pc[t] \in {"acquired", "releasing", "unlocking"} THEN 1 ELSE 0

MutexOK(m) ==
  /\ owner[m] # NULL => owner[m] = holder[m] /\ acqPos[m] # NULL
  /\ owner[m] = NULL => acqPos[m] = NULL
  /\ count[m] >= 0 /\ (count[m] > 0 <=> owner[m] # NULL)
  /\ holder[m] = NULL => count[m] = 0 /\ depth[m] = 0
  /\ \A t \in Threads : holder[m] = t => depth[m] >= 1 /\ depth[m] = count[m] + InBetween(t, m)

Asking == {"request", "decide", "yielding", "wait", "asleep", "granted"}

OpOK(t) ==
  /\ pc[t] # "condwait"
  /\ pc[t] \in {"acquired", "releasing", "unlocking"} => holder[arg[t].mtx] = t
  /\ pc[t] = "releasing" => owner[arg[t].mtx] = NULL
  /\ pc[t] \in Asking \cup {"cancelling"} => owner[arg[t].mtx] # t /\ lockPos[t] = arg[t].pos
  /\ pc[t] \in {"locking", "acquired", "trying"} =>
       owner[arg[t].mtx] = t \/ lockPos[t] = arg[t].pos

OwnInv == (\A m \in Mutexes : MutexOK(m)) /\ (\A t \in Threads : OpOK(t))

LEMMA OwnInvInit == Init => OwnInv
BY NullAssumption DEF Init, OwnInv, MutexOK, OpOK, Asking

(* A step that only moves threads along while they ask for a lock.         *)
LEMMA AskingStep ==
  ASSUME TInv, OwnInv, UNCHANGED <<arg, lockPos, lockVars, realVars>>,
         pc' \in [Threads -> PCs],
         \A u \in Threads :
           \/ pc'[u] = pc[u]
           \/ pc[u] \in Asking /\ pc'[u] \in Asking \cup {"locking"}
           \/ pc[u] = "locking" /\ pc'[u] = "cancelling" /\ owner[arg[u].mtx] # u
  PROVE  OwnInv'
<1>1. ASSUME NEW n \in Mutexes PROVE MutexOK(n)'
  <2>1. \A u \in Threads : InBetween(u, n)' = InBetween(u, n)
    BY DEF InBetween, Asking
  <2> QED
    BY <2>1 DEF MutexOK, OwnInv, lockVars, realVars
<1>2. ASSUME NEW u \in Threads PROVE OpOK(u)'
  <2>1. OpOK(u)
    BY DEF OwnInv
  <2> QED
    BY <2>1 DEF OpOK, Asking, lockVars, realVars
<1> QED
  BY <1>1, <1>2 DEF OwnInv

(* Of the operations, the step is one of thread t, and of the mutexes, it   *)
(* concerns only m, which nobody else has.                                 *)
Only(t, m) ==
  /\ \A u \in Threads \ {t} :
       /\ pc'[u] = pc[u] \/ (pc[u] = "asleep" /\ pc'[u] = "wait")
       /\ arg'[u] = arg[u] /\ lockPos'[u] = lockPos[u]
  /\ \A n \in Mutexes \ {m} : owner'[n] = owner[n] /\ holder'[n] = holder[n]
  /\ holder[m] \in {t, NULL} /\ holder'[m] \in {t, NULL}
  /\ owner[m] \in {t, NULL} /\ owner'[m] \in {t, NULL}

LEMMA OthersOK ==
  ASSUME TInv, OwnInv, NEW t \in Threads, NEW m \in Mutexes, Only(t, m)
  PROVE  \A u \in Threads \ {t} : OpOK(u)'
<1> SUFFICES ASSUME NEW u \in Threads \ {t} PROVE OpOK(u)'
  OBVIOUS
<1>1. OpOK(u)
  BY DEF OwnInv
<1>2. pc'[u] = "idle" \/ arg[u].mtx \in Mutexes
  BY DEF TInv, ArgOK, Only
<1>3. CASE arg[u].mtx = m
  BY <1>1, <1>2, <1>3, NullAssumption DEF OpOK, Asking, Only
<1>4. CASE arg[u].mtx # m
  BY <1>1, <1>2, <1>4 DEF OpOK, Asking, Only
<1> QED
  BY <1>3, <1>4

(* One for each step that changes a mutex, or the arguments of a thread.   *)
LEMMA AcquireOwn ==
  ASSUME TInv, OwnInv, NEW t \in Threads, NEW m \in Mutexes, NEW p \in Positions,
         Acquire(t, m, p) \/ TryAcquire(t, m, p)
  PROVE  OwnInv'
<1> USE DEF Goto, lockVars, realVars
<1>1. /\ pc[t] = "idle"
      /\ UNCHANGED <<owner, acqPos, count, holder, depth>>
      /\ arg' = [arg EXCEPT ![t] = [mtx |-> m, pos |-> p]]
      /\ \/ owner[m] = t /\ lockPos' = lockPos /\ pc' \in {[pc EXCEPT ![t] = "locking"], [pc EXCEPT ![t] = "trying"]}
         \/ owner[m] # t /\ lockPos' = [lockPos EXCEPT ![t] = p]
              /\ pc' \in {[pc EXCEPT ![t] = "request"], [pc EXCEPT ![t] = "trying"]}
  BY DEF Acquire, TryAcquire
<1>2. ASSUME NEW n \in Mutexes PROVE MutexOK(n)'
  <2>1. \A u \in Threads : InBetween(u, n)' = InBetween(u, n)
    BY <1>1 DEF InBetween, TInv, TypeOK
  <2> QED
    BY <1>1, <2>1 DEF MutexOK, OwnInv
<1>3. ASSUME NEW u \in Threads PROVE OpOK(u)'
  <2>1. OpOK(u)
    BY DEF OwnInv
  <2>2. CASE u = t
    BY <1>1, <2>2 DEF OpOK, Asking, TInv, TypeOK
  <2>3. CASE u # t
    BY <1>1, <2>1, <2>3 DEF OpOK, Asking, TInv, TypeOK
  <2> QED
    BY <2>2, <2>3
<1> QED
  BY <1>2, <1>3 DEF OwnInv

LEMMA RealLockOwn ==
  ASSUME TInv, OwnInv, NEW t \in Threads, pc[t] \in {"locking", "trying"},
         NEW m \in Mutexes, m = arg[t].mtx, RealFree(t, m),
         holder' = [holder EXCEPT ![m] = t], depth' = [depth EXCEPT ![m] = @ + 1],
         Goto(t, "acquired"), UNCHANGED <<arg, lockPos, lockVars>>
  PROVE  OwnInv'
<1> USE DEF Goto, lockVars
<1>1. pc'[t] = "acquired" /\ holder'[m] = t /\ depth'[m] = depth[m] + 1
  BY DEF TInv, TypeOK
<1>2. holder[m] \in {t, NULL} /\ owner[m] \in {t, NULL}
  BY DEF RealFree, OwnInv, MutexOK
<1>3. ASSUME NEW n \in Mutexes PROVE MutexOK(n)'
  <2>1. MutexOK(n) /\ count[n] \in Int /\ depth[n] \in Int
    BY DEF OwnInv, TInv, TypeOK
  <2>2. CASE n = m
    <3>1. InBetween(t, m) = 0 /\ InBetween(t, m)' = 1
      BY <1>1 DEF InBetween
    <3>2. depth[m] = count[m]
      BY <1>2, <2>1, <2>2, <3>1 DEF MutexOK
    <3>3. \A u \in Threads : holder'[m] = u => u = t
      BY <1>1
    <3>4. count[m] >= 0 /\ count'[m] = count[m] /\ (owner[m] # NULL => owner[m] = t)
      BY <1>2, <2>1, <2>2 DEF MutexOK
    <3> QED
      BY <1>1, <2>1, <2>2, <3>1, <3>2, <3>3, <3>4, NullAssumption DEF MutexOK
  <2>3. CASE n # m
    <3>1. \A u \in Threads : InBetween(u, n)' = InBetween(u, n)
      BY <2>3 DEF InBetween, TInv, TypeOK
    <3>2. holder'[n] = holder[n] /\ depth'[n] = depth[n]
      BY <2>3 DEF TInv, TypeOK
    <3> QED
      BY <2>1, <3>1, <3>2 DEF MutexOK
  <2> QED
    BY <2>2, <2>3
<1>4. OpOK(t)'
  <2>1. OpOK(t)
    BY DEF OwnInv
  <2> QED
    BY <1>1, <2>1 DEF OpOK, Asking
<1>5. \A u \in Threads \ {t} : OpOK(u)'
  <2>2. \A v \in Threads \ {t} : pc'[v] = pc[v] /\ arg'[v] = arg[v] /\ lockPos'[v] = lockPos[v]
    BY DEF TInv, TypeOK
  <2>3. owner' = owner /\ \A n \in Mutexes \ {m} : owner'[n] = owner[n] /\ holder'[n] = holder[n]
    BY DEF TInv, TypeOK
  <2>4. owner'[m] \in {t, NULL} /\ holder'[m] \in {t, NULL}
    BY <1>1, <1>2, <2>3
  <2>5. Only(t, m)
    BY <1>2, <2>2, <2>3, <2>4 DEF Only
  <2> QED
    BY <2>5, OthersOK
<1> QED
  BY <1>3, <1>4, <1>5 DEF OwnInv

LEMMA AcquiredOwn ==
  ASSUME TInv, OwnInv, NEW t \in Threads, Acquired(t)
  PROVE  OwnInv'
<1> USE DEF Goto, Return, lockVars, realVars
<1>0. PICK m \in Mutexes : m = arg[t].mtx
  BY DEF Acquired, TInv, ArgOK
<1>1. pc[t] = "acquired" /\ m \in Mutexes /\ arg[t].pos \in Positions
  BY <1>0 DEF Acquired, TInv, ArgOK
<1>2. holder[m] = t /\ MutexOK(m) /\ OpOK(t) /\ InBetween(t, m) = 1
  BY <1>0, <1>1 DEF OwnInv, OpOK, InBetween
<1>3. owner[m] \in {t, NULL} /\ depth[m] = count[m] + 1
  BY <1>1, <1>2 DEF MutexOK
<1>4. /\ pc' = [pc EXCEPT ![t] = "idle"]
      /\ arg' = [arg EXCEPT ![t] = NoArg]
      /\ count' = [count EXCEPT ![m] = @ + 1]
      /\ UNCHANGED <<lockPos, holder, depth>>
      /\ \/ (owner[m] = NULL /\ acqPos' = [acqPos EXCEPT ![m] = lockPos[t]]
               /\ owner' = [owner EXCEPT ![m] = t])
         \/ (owner[m] # NULL /\ acqPos' = acqPos /\ owner' = owner)
  BY <1>0 DEF Acquired
<1>5. owner'[m] = t /\ acqPos'[m] # NULL
  <2>1. CASE owner[m] = NULL
    BY <1>0, <1>1, <1>2, <1>4, <2>1, NullAssumption DEF OpOK, TInv, TypeOK
  <2>2. CASE owner[m] # NULL
    BY <1>2, <1>3, <1>4, <2>2 DEF MutexOK
  <2> QED
    BY <2>1, <2>2
<1>6. ASSUME NEW n \in Mutexes PROVE MutexOK(n)'
  <2>1. MutexOK(n) /\ count[n] \in Int /\ depth[n] \in Int
    BY DEF OwnInv, TInv, TypeOK
  <2>2. CASE n = m
    <3>1. InBetween(t, m)' = 0 /\ count'[m] = count[m] + 1 /\ depth'[m] = depth[m] /\ holder'[m] = t
      BY <1>1, <1>2, <1>4 DEF InBetween, TInv, TypeOK
    <3>2. count[m] >= 0
      BY <1>2 DEF MutexOK
    <3> QED
      BY <1>3, <1>5, <2>1, <2>2, <3>1, <3>2, NullAssumption DEF MutexOK
  <2>3. CASE n # m
    <3>1. \A u \in Threads : InBetween(u, n)' = InBetween(u, n)
      BY <1>0, <1>4, <2>3, NullAssumption DEF InBetween, TInv, TypeOK, NoArg
    <3>2. owner'[n] = owner[n] /\ acqPos'[n] = acqPos[n] /\ count'[n] = count[n]
      BY <1>4, <2>3 DEF TInv, TypeOK
    <3> QED
      BY <1>4, <2>1, <3>1, <3>2 DEF MutexOK
  <2> QED
    BY <2>2, <2>3
<1>7. pc'[t] = "idle"
  BY <1>4 DEF TInv, TypeOK
<1>8. Only(t, m)
  BY <1>2, <1>3, <1>4, <1>5 DEF Only, TInv, TypeOK
<1>9. \A u \in Threads \ {t} : OpOK(u)'
  BY <1>8, OthersOK
<1> QED
  BY <1>6, <1>7, <1>9 DEF OwnInv, OpOK, Asking

LEMMA ReleaseOwn ==
  ASSUME TInv, OwnInv, NEW t \in Threads, NEW m \in Mutexes, Release(t, m)
  PROVE  OwnInv'
<1> USE DEF Goto, lockVars, realVars
<1>1. pc[t] = "idle" /\ holder[m] = t /\ MutexOK(m) /\ InBetween(t, m) = 0
  BY DEF Release, OwnInv, InBetween
<1>2. count[m] \in Int /\ depth[m] = count[m] /\ count[m] >= 1
  BY <1>1 DEF MutexOK, TInv, TypeOK
<1>3. owner[m] = t /\ acqPos[m] # NULL
  BY <1>1, <1>2 DEF MutexOK
<1>4. /\ count' = [count EXCEPT ![m] = @ - 1]
      /\ arg' = [arg EXCEPT ![t] = [mtx |-> m, pos |-> acqPos[m]]]
      /\ UNCHANGED <<lockPos, holder, depth>>
      /\ \/ (count'[m] > 0 /\ pc' = [pc EXCEPT ![t] = "unlocking"] /\ UNCHANGED <<owner, acqPos>>)
         \/ (count'[m] <= 0 /\ pc' = [pc EXCEPT ![t] = "releasing"]
               /\ owner' = [owner EXCEPT ![m] = NULL] /\ acqPos' = [acqPos EXCEPT ![m] = NULL])
  BY <1>3 DEF Release
<1>5. count'[m] = count[m] - 1 /\ pc'[t] \in {"unlocking", "releasing"} /\ arg'[t].mtx = m
  BY <1>4 DEF TInv, TypeOK
<1>6. \/ (count'[m] > 0 /\ owner'[m] = t /\ acqPos'[m] = acqPos[m] /\ pc'[t] = "unlocking")
      \/ (count'[m] = 0 /\ owner'[m] = NULL /\ acqPos'[m] = NULL)
  BY <1>2, <1>3, <1>4, <1>5 DEF TInv, TypeOK
<1>7. ASSUME NEW n \in Mutexes PROVE MutexOK(n)'
  <2>1. MutexOK(n)
    BY DEF OwnInv
  <2>2. CASE n = m
    <3>1. InBetween(t, m)' = 1
      BY <1>5 DEF InBetween
    <3> QED
      BY <1>1, <1>2, <1>3, <1>4, <1>5, <1>6, <2>2, <3>1, NullAssumption DEF MutexOK
  <2>3. CASE n # m
    <3>1. \A u \in Threads : InBetween(u, n)' = InBetween(u, n)
      BY <1>1, <1>4, <2>3 DEF InBetween, TInv, TypeOK
    <3>2. owner'[n] = owner[n] /\ acqPos'[n] = acqPos[n] /\ count'[n] = count[n]
      BY <1>4, <2>3 DEF TInv, TypeOK
    <3> QED
      BY <1>4, <2>1, <3>1, <3>2 DEF MutexOK
  <2> QED
    BY <2>2, <2>3
<1>8. OpOK(t)'
  BY <1>1, <1>4, <1>5, <1>6 DEF OpOK, Asking
<1>9. Only(t, m)
  BY <1>1, <1>3, <1>4, <1>6 DEF Only, TInv, TypeOK
<1>10. \A u \in Threads \ {t} : OpOK(u)'
  BY <1>9, OthersOK
<1> QED
  BY <1>7, <1>8, <1>10 DEF OwnInv

LEMMA ReleaseAllowedOwn ==
  ASSUME TInv, OwnInv, NEW t \in Threads, ReleaseAllowed(t)
  PROVE  OwnInv'
<1> USE DEF lockVars, realVars
<1> DEFINE c == [pos |-> arg[t].pos, thread |-> t, mtx |-> arg[t].mtx]
<1>1. /\ pc[t] = "releasing"
      /\ pc' = [Woken(yielders[c]) EXCEPT ![t] = "unlocking"]
      /\ lockPos' = [lockPos EXCEPT ![t] = NULL]
      /\ UNCHANGED <<arg, owner, acqPos, count, holder, depth>>
  BY DEF ReleaseAllowed
<1>2. pc'[t] = "unlocking"
      /\ \A u \in Threads \ {t} : pc'[u] = pc[u] \/ (pc[u] = "asleep" /\ pc'[u] = "wait")
  BY <1>1 DEF Woken
<1> HIDE DEF c
<1>3. ASSUME NEW n \in Mutexes PROVE MutexOK(n)'
  <2>1. \A u \in Threads : InBetween(u, n)' = InBetween(u, n)
    BY <1>1, <1>2 DEF InBetween
  <2> QED
    BY <1>1, <2>1 DEF MutexOK, OwnInv
<1>4. ASSUME NEW u \in Threads PROVE OpOK(u)'
  <2>1. OpOK(u)
    BY DEF OwnInv
  <2>2. CASE u = t
    BY <1>1, <1>2, <2>1, <2>2 DEF OpOK, Asking
  <2>3. CASE u # t
    <3>1. lockPos'[u] = lockPos[u]
      BY <1>1, <2>3 DEF TInv, TypeOK
    <3> QED
      BY <1>1, <1>2, <2>1, <2>3, <3>1 DEF OpOK, Asking
  <2> QED
    BY <2>2, <2>3
<1> QED
  BY <1>3, <1>4 DEF OwnInv

LEMMA RealUnlockOwn ==
  ASSUME TInv, OwnInv, NEW t \in Threads, RealUnlock(t)
  PROVE  OwnInv'
<1> USE DEF Goto, Return, lockVars
<1>0. PICK m \in Mutexes : m = arg[t].mtx
  BY DEF RealUnlock, TInv, ArgOK
<1>1. pc[t] = "unlocking" /\ m \in Mutexes
  BY <1>0 DEF RealUnlock, TInv, ArgOK
<1>2. holder[m] = t /\ MutexOK(m) /\ InBetween(t, m) = 1
  BY <1>0, <1>1 DEF OwnInv, OpOK, InBetween
<1>3. count[m] \in Int /\ depth[m] = count[m] + 1 /\ count[m] >= 0 /\ owner[m] \in {t, NULL}
  BY <1>1, <1>2 DEF MutexOK, TInv, TypeOK
<1>4. /\ pc' = [pc EXCEPT ![t] = "idle"]
      /\ arg' = [arg EXCEPT ![t] = NoArg]
      /\ depth' = [depth EXCEPT ![m] = @ - 1]
      /\ holder' = IF depth'[m] = 0 THEN [holder EXCEPT ![m] = NULL] ELSE holder
      /\ UNCHANGED <<lockPos, owner, acqPos, count>>
  BY <1>0 DEF RealUnlock
<1>5. depth'[m] = count[m] /\ pc'[t] = "idle"
  BY <1>1, <1>3, <1>4 DEF TInv, TypeOK
<1>6. holder'[m] = IF count[m] = 0 THEN NULL ELSE t
  BY <1>1, <1>2, <1>4, <1>5 DEF TInv, TypeOK
<1>7. ASSUME NEW n \in Mutexes PROVE MutexOK(n)'
  <2>1. MutexOK(n)
    BY DEF OwnInv
  <2>2. CASE n = m
    <3>1. InBetween(t, m)' = 0
      BY <1>5 DEF InBetween
    <3>2. CASE count[m] = 0
      BY <1>2, <1>3, <1>4, <1>5, <1>6, <2>1, <2>2, <3>2, NullAssumption DEF MutexOK
    <3>3. CASE count[m] > 0
      BY <1>2, <1>3, <1>4, <1>5, <1>6, <2>1, <2>2, <3>1, <3>3, NullAssumption DEF MutexOK
    <3> QED
      BY <1>3, <3>2, <3>3
  <2>3. CASE n # m
    <3>1. \A u \in Threads : InBetween(u, n)' = InBetween(u, n)
      BY <1>0, <1>4, <2>3, NullAssumption DEF InBetween, TInv, TypeOK, NoArg
    <3>2. holder'[n] = holder[n] /\ depth'[n] = depth[n]
      BY <1>4, <2>3 DEF TInv, TypeOK
    <3> QED
      BY <1>4, <2>1, <3>1, <3>2 DEF MutexOK
  <2> QED
    BY <2>2, <2>3
<1>8. Only(t, m)
  BY <1>2, <1>3, <1>4, <1>6 DEF Only, TInv, TypeOK
<1>9. \A u \in Threads \ {t} : OpOK(u)'
  BY <1>8, OthersOK
<1> QED
  BY <1>5, <1>7, <1>9 DEF OwnInv, OpOK, Asking

(* A step that only ends an operation: nothing was to be done any more.    *)
LEMMA ReturnOwn ==
  ASSUME TInv, OwnInv, NEW t \in Threads, pc[t] \notin {"acquired", "releasing", "unlocking"},
         Return(t), lockPos' = lockPos \/ lockPos' = [lockPos EXCEPT ![t] = NULL],
         UNCHANGED <<lockVars, realVars>>
  PROVE  OwnInv'
<1> USE DEF Goto, Return, lockVars, realVars
<1>1. ASSUME NEW n \in Mutexes PROVE MutexOK(n)'
  <2>1. \A u \in Threads : InBetween(u, n)' = InBetween(u, n)
    BY DEF InBetween, TInv, TypeOK
  <2> QED
    BY <2>1 DEF MutexOK, OwnInv
<1>2. ASSUME NEW u \in Threads PROVE OpOK(u)'
  <2>1. OpOK(u)
    BY DEF OwnInv
  <2>2. CASE u = t
    BY <2>2 DEF OpOK, Asking, TInv, TypeOK
  <2>3. CASE u # t
    BY <2>1, <2>3 DEF OpOK, Asking, TInv, TypeOK
  <2> QED
    BY <2>2, <2>3
<1> QED
  BY <1>1, <1>2 DEF OwnInv

LEMMA OwnInvNext ==
  "condwait" \notin Features /\ TInv /\ OwnInv /\ [Next]_vars => OwnInv'
<1> SUFFICES ASSUME "condwait" \notin Features, TInv, OwnInv, [Next]_vars PROVE OwnInv'
  OBVIOUS
<1>1. pc \in [Threads -> PCs] /\ \A t \in Threads : OpOK(t)
  BY DEF TInv, TypeOK, OwnInv
<1>2. TInv'
  BY TInvNext
<1>3. pc' \in [Threads -> PCs]
  BY <1>2 DEF TInv, TypeOK
<1>4. ASSUME NEW t \in Threads,
             \/ TemplateInstance(t) \/ Grant(t) \/ EmitGrant(t) \/ Yield(t) \/ EmitYield(t)
             \/ Sleep(t) \/ Retry(t) \/ SpuriousWakeup(t)
      PROVE  OwnInv'
  <2>1. /\ UNCHANGED <<arg, lockPos, lockVars, realVars>>
        /\ \E a \in Asking, b \in Asking \cup {"locking"} : pc[t] = a /\ pc' = [pc EXCEPT ![t] = b]
    BY <1>4 DEF TemplateInstance, Grant, EmitGrant, Yield, EmitYield, Sleep, Retry, SpuriousWakeup,
                Goto, Asking
  <2>2. \A u \in Threads : pc'[u] = pc[u] \/ (pc[u] \in Asking /\ pc'[u] \in Asking \cup {"locking"})
    BY <1>1, <2>1
  <2> QED
    BY <1>3, <2>1, <2>2, AskingStep
<1>5. ASSUME NEW t \in Threads, Cancel(t) PROVE OwnInv'
  <2>1. /\ UNCHANGED <<arg, lockPos, lockVars, realVars>>
        /\ pc[t] = "locking" /\ pc' = [pc EXCEPT ![t] = "cancelling"] /\ owner[arg[t].mtx] # t
    BY <1>5 DEF Cancel, Goto
  <2>2. \A u \in Threads :
          pc'[u] = pc[u] \/ (pc[u] = "locking" /\ pc'[u] = "cancelling" /\ owner[arg[u].mtx] # u)
    BY <1>1, <2>1
  <2> QED
    BY <1>3, <2>1, <2>2, AskingStep
<1>6. ASSUME NEW t \in Threads, BreakYield(t) \/ BreakNotify(t) PROVE OwnInv'
  <2>1. /\ UNCHANGED <<arg, lockPos, lockVars, realVars>>
        /\ \A u \in Threads : pc'[u] = pc[u] \/ (pc[u] \in Asking /\ pc'[u] \in Asking \cup {"locking"})
    BY <1>6 DEF BreakYield, BreakNotify, Woken, Asking
  <2> QED
    BY <1>3, <2>1, AskingStep
<1>7. ASSUME NEW t \in Threads, RealLock(t) PROVE OwnInv'
  BY <1>7, RealLockOwn DEF RealLock, TInv, ArgOK
<1>8. ASSUME NEW t \in Threads, RealTryLock(t) PROVE OwnInv'
  <2>1. pc[t] = "trying" /\ arg[t].mtx \in Mutexes
    BY <1>8 DEF RealTryLock, TInv, ArgOK
  <2>2. CASE RealFree(t, arg[t].mtx)
    BY <1>8, <2>1, <2>2, RealLockOwn DEF RealTryLock
  <2>3. CASE ~RealFree(t, arg[t].mtx)
    BY <1>8, <2>1, <2>3, ReturnOwn DEF RealTryLock
  <2> QED
    BY <2>2, <2>3
<1>9. ASSUME NEW t \in Threads, CancelAllowed(t) \/ RealLockFails(t) PROVE OwnInv'
  BY <1>9, ReturnOwn DEF CancelAllowed, RealLockFails
<1>10. ASSUME NEW t \in Threads, CondWake(t) \/ \E m \in Mutexes : CondWait(t, m) PROVE OwnInv'
  BY <1>1, <1>10 DEF CondWake, CondWait, OpOK
<1>11. ASSUME NEW t \in Threads, NEW m \in Mutexes, NEW p \in Positions,
              Acquire(t, m, p) \/ TryAcquire(t, m, p)
       PROVE  OwnInv'
  BY <1>11, AcquireOwn
<1>12. ASSUME NEW t \in Threads, NEW m \in Mutexes, Release(t, m) PROVE OwnInv'
  BY <1>12, ReleaseOwn
<1>13. ASSUME NEW t \in Threads, Acquired(t) \/ ReleaseAllowed(t) \/ RealUnlock(t) PROVE OwnInv'
  BY <1>13, AcquiredOwn, ReleaseAllowedOwn, RealUnlockOwn
<1>14. CASE UNCHANGED vars
  BY <1>3, <1>14, AskingStep DEF vars
<1> QED
  BY <1>4, <1>5, <1>6, <1>7, <1>8, <1>9, <1>10, <1>11, <1>12, <1>13, <1>14
     DEF Next, Step, Operation, Monitor

LEMMA OwnInvAlways ==
  ASSUME "condwait" \notin Features
  PROVE  Spec => [](TInv /\ OwnInv)
<1>1. Init => TInv /\ OwnInv
  BY TInvInit, OwnInvInit
<1>2. TInv /\ OwnInv /\ [Next]_vars => TInv' /\ OwnInv'
  BY TInvNext, OwnInvNext
<1> QED
  BY <1>1, <1>2, PTL DEF Spec

(* Mutex::owner never names a thread that does not have the mutex, in a    *)
(* program without condition waits (mutex.h).                              *)
THEOREM Owners ==
  ASSUME "condwait" \notin Features
  PROVE  Spec => []OwnerIsHolder
<1>1. OwnInv => OwnerIsHolder
  BY DEF OwnInv, MutexOK, OwnerIsHolder
<1> QED
  BY <1>1, OwnInvAlways, PTL

(* In a program without condition waits, a release always finds the        *)
(* position the mutex was acquired at: the branch of release that calls    *)
(* this "bad" (avoidance.cc) is never taken.                               *)
THEOREM ReleasesFindPosition ==
  ASSUME "condwait" \notin Features
  PROVE  Spec => []PositionKnown
<1>1. ASSUME TInv, OwnInv PROVE PositionKnown
  <2> SUFFICES ASSUME NEW m \in Mutexes, NEW t \in Threads, holder[m] = t, pc[t] = "idle"
               PROVE  acqPos[m] # NULL
    BY DEF PositionKnown
  <2>1. MutexOK(m) /\ count[m] \in Int /\ InBetween(t, m) = 0
    BY <1>1 DEF OwnInv, TInv, TypeOK, InBetween
  <2> QED
    BY <2>1 DEF MutexOK
<1> QED
  BY <1>1, OwnInvAlways, PTL

-----------------------------------------------------------------------------
(* Every lock has its grant.  "trylock" is excluded from here on: a lock   *)
(* taken that way has none.                                                *)

(* A lock that was asked for and granted keeps its grant until it is given *)
(* back, or is a further level of one that has it.                         *)
GrantOK(t) ==
  /\ pc[t] # "trying"
  /\ pc[t] \in {"granted", "locking", "acquired"} =>
       \/ owner[arg[t].mtx] = t
       \/ [thread |-> t, mtx |-> arg[t].mtx] \in Elements(allowed[arg[t].pos])

GrantedInv == (\A t \in Threads : GrantOK(t)) /\ HoldersGranted

LEMMA GrantedInvInit == Init => GrantedInv
BY DEF Init, GrantedInv, GrantOK, HoldersGranted

(* Steps that take no grant back, move no other thread on and leave the    *)
(* owners alone.                                                           *)
LEMMA GrantsKept ==
  ASSUME TInv, GrantedInv, NEW t \in Threads,
         \A q \in Positions : Elements(allowed[q]) \subseteq Elements(allowed'[q]),
         UNCHANGED <<owner, acqPos>>,
         \A u \in Threads \ {t} :
           (pc'[u] = pc[u] \/ pc'[u] = "wait") /\ arg'[u] = arg[u],
         GrantOK(t)'
  PROVE  GrantedInv'
<1>1. ASSUME NEW u \in Threads \ {t} PROVE GrantOK(u)'
  <2>1. GrantOK(u)
    BY DEF GrantedInv
  <2>2. pc[u] \in {"granted", "locking", "acquired"} => arg[u].pos \in Positions
    BY DEF TInv, ArgOK
  <2> QED
    BY <1>1, <2>1, <2>2 DEF GrantOK
<1>2. HoldersGranted'
  BY DEF GrantedInv, HoldersGranted, TInv, TypeOK
<1> QED
  BY <1>1, <1>2 DEF GrantedInv

(* Taking the grant back of a thread that does not own the mutex.          *)
LEMMA GrantRemoved ==
  ASSUME TInv, GrantedInv, NEW t \in Threads, NEW m \in Mutexes, NEW p \in Positions,
         RemoveAllowed(t, m, p), owner[m] # t,
         UNCHANGED <<owner, acqPos>>,
         \A u \in Threads \ {t} :
           (pc'[u] = pc[u] \/ pc'[u] = "wait") /\ arg'[u] = arg[u],
         pc'[t] \in {"idle", "unlocking"}
  PROVE  GrantedInv'
<1>1. \A q \in Positions : \A g \in Elements(allowed[q]) :
        g \notin Elements(allowed'[q]) => g = [thread |-> t, mtx |-> m]
  BY RemoveAllowedFacts DEF TInv, TypeOK
<1>2. ASSUME NEW u \in Threads \ {t} PROVE GrantOK(u)'
  <2>1. GrantOK(u)
    BY DEF GrantedInv
  <2>2. pc[u] \in {"granted", "locking", "acquired"} => arg[u].pos \in Positions
    BY DEF TInv, ArgOK
  <2> QED
    BY <1>1, <1>2, <2>1, <2>2 DEF GrantOK
<1>3. GrantOK(t)'
  BY DEF GrantOK
<1>4. ASSUME NEW n \in Mutexes, owner'[n] # NULL
      PROVE  acqPos'[n] # NULL /\ [thread |-> owner'[n], mtx |-> n] \in Elements(allowed'[acqPos'[n]])
  <2>1. acqPos[n] # NULL /\ [thread |-> owner[n], mtx |-> n] \in Elements(allowed[acqPos[n]])
    BY <1>4 DEF GrantedInv, HoldersGranted
  <2>2. acqPos[n] \in Positions
    BY <2>1 DEF TInv, TypeOK
  <2>3. [thread |-> owner[n], mtx |-> n] # [thread |-> t, mtx |-> m]
    OBVIOUS
  <2> QED
    BY <1>1, <2>1, <2>2, <2>3
<1> QED
  BY <1>2, <1>3, <1>4 DEF GrantedInv, HoldersGranted

LEMMA GrantedInvNext ==
  "condwait" \notin Features /\ "trylock" \notin Features
    /\ TInv /\ OwnInv /\ GrantedInv /\ [Next]_vars => GrantedInv'
<1> SUFFICES ASSUME "condwait" \notin Features, "trylock" \notin Features,
                    TInv, OwnInv, GrantedInv, [Next]_vars
             PROVE  GrantedInv'
  OBVIOUS
<1> USE DEF Goto, Return, lockVars, realVars, grantVars
<1>1. ASSUME NEW t \in Threads, NEW m \in Mutexes, NEW p \in Positions, Acquire(t, m, p)
      PROVE  GrantedInv'
  <2>1. /\ UNCHANGED <<owner, acqPos, allowed>>
        /\ arg' = [arg EXCEPT ![t] = [mtx |-> m, pos |-> p]]
        /\ (owner[m] = t /\ pc' = [pc EXCEPT ![t] = "locking"]) \/ pc' = [pc EXCEPT ![t] = "request"]
    BY <1>1 DEF Acquire
  <2>2. GrantOK(t)'
    BY <2>1 DEF GrantOK, TInv, TypeOK
  <2>3. \A u \in Threads \ {t} : pc'[u] = pc[u] /\ arg'[u] = arg[u]
    BY <2>1 DEF TInv, TypeOK
  <2> QED
    BY <2>1, <2>2, <2>3, GrantsKept
<1>2. ASSUME NEW t \in Threads, Grant(t) PROVE GrantedInv'
  <2>1. PICK m \in Mutexes, p \in Positions : m = arg[t].mtx /\ p = arg[t].pos
    BY <1>2 DEF Grant, TInv, ArgOK
  <2> DEFINE g == [thread |-> t, mtx |-> m]
  <2>2. /\ UNCHANGED <<owner, acqPos, arg>>
        /\ pc' = [pc EXCEPT ![t] = "granted"]
        /\ allowed' = [allowed EXCEPT ![p] = Append(@, g)]
    BY <1>2, <2>1 DEF Grant
  <2>3. g \in LockGrants /\ allowed[p] \in Seq(LockGrants)
    BY DEF LockGrants, TInv, TypeOK
  <2>4. Elements(Append(allowed[p], g)) = Elements(allowed[p]) \cup {g}
    BY <2>3, AppendElements
  <2>5. allowed'[p] = Append(allowed[p], g) /\ \A q \in Positions \ {p} : allowed'[q] = allowed[q]
    BY <2>2 DEF TInv, TypeOK
  <2>6. \A q \in Positions : Elements(allowed[q]) \subseteq Elements(allowed'[q])
    BY <2>4, <2>5
  <2>7. pc'[t] = "granted" /\ arg'[t] = arg[t] /\ \A u \in Threads \ {t} : pc'[u] = pc[u] /\ arg'[u] = arg[u]
    BY <2>2 DEF TInv, TypeOK
  <2>8. GrantOK(t)'
    BY <2>1, <2>4, <2>5, <2>7 DEF GrantOK
  <2> QED
    BY <2>2, <2>6, <2>7, <2>8, GrantsKept
<1>3. ASSUME NEW t \in Threads,
             \/ TemplateInstance(t) \/ EmitGrant(t) \/ Yield(t) \/ EmitYield(t) \/ Sleep(t)
             \/ Retry(t) \/ SpuriousWakeup(t) \/ RealLock(t) \/ Cancel(t)
      PROVE  GrantedInv'
  <2>1. /\ UNCHANGED <<owner, acqPos, allowed, arg>>
        /\ \/ (pc[t] = "granted" /\ pc' = [pc EXCEPT ![t] = "locking"])
           \/ (pc[t] = "locking" /\ pc' = [pc EXCEPT ![t] = "acquired"])
           \/ \E l \in {"decide", "yielding", "wait", "asleep", "request", "cancelling"} :
                pc' = [pc EXCEPT ![t] = l]
    BY <1>3 DEF TemplateInstance, EmitGrant, Yield, EmitYield, Sleep, Retry, SpuriousWakeup, RealLock, Cancel
  <2>2. GrantOK(t)
    BY DEF GrantedInv
  <2>3. GrantOK(t)'
    BY <2>1, <2>2 DEF GrantOK, TInv, TypeOK
  <2>4. \A u \in Threads \ {t} : pc'[u] = pc[u] /\ arg'[u] = arg[u]
    BY <2>1 DEF TInv, TypeOK
  <2> QED
    BY <2>1, <2>3, <2>4, GrantsKept
<1>4. ASSUME NEW t \in Threads, RealUnlock(t) \/ RealLockFails(t) PROVE GrantedInv'
  <2>1. /\ UNCHANGED <<owner, acqPos, allowed>>
        /\ pc' = [pc EXCEPT ![t] = "idle"] /\ arg' = [arg EXCEPT ![t] = NoArg]
    BY <1>4 DEF RealUnlock, RealLockFails
  <2>2. GrantOK(t)' /\ \A u \in Threads \ {t} : pc'[u] = pc[u] /\ arg'[u] = arg[u]
    BY <2>1 DEF GrantOK, TInv, TypeOK
  <2> QED
    BY <2>1, <2>2, GrantsKept
<1>5. ASSUME NEW t \in Threads, BreakYield(t) \/ BreakNotify(t) PROVE GrantedInv'
  <2>1. /\ UNCHANGED <<owner, acqPos, allowed, arg>>
        /\ \A u \in Threads : pc'[u] = pc[u] \/ pc'[u] = "wait"
    BY <1>5 DEF BreakYield, BreakNotify, Woken
  <2>2. GrantOK(t)'
    BY <2>1 DEF GrantOK, GrantedInv
  <2> QED
    BY <2>1, <2>2, GrantsKept
<1>6. ASSUME NEW t \in Threads, ReleaseAllowed(t) \/ CancelAllowed(t) PROVE GrantedInv'
  <2>1. PICK m \in Mutexes, p \in Positions : m = arg[t].mtx /\ p = arg[t].pos
    BY <1>6 DEF ReleaseAllowed, CancelAllowed, TInv, ArgOK
  <2>2. OpOK(t)
    BY DEF OwnInv
  <2>3. owner[m] # t /\ (pc[t] = "cancelling" => lockPos[t] = p)
    BY <1>6, <2>1, <2>2, NullAssumption DEF ReleaseAllowed, CancelAllowed, OpOK
  <2>4. RemoveAllowed(t, m, p) /\ UNCHANGED <<owner, acqPos>>
    BY <1>6, <2>1, <2>3 DEF ReleaseAllowed, CancelAllowed
  <2>5. /\ \A u \in Threads \ {t} : (pc'[u] = pc[u] \/ pc'[u] = "wait") /\ arg'[u] = arg[u]
        /\ pc'[t] \in {"idle", "unlocking"}
    <3>1. CASE ReleaseAllowed(t)
      BY <3>1 DEF ReleaseAllowed, Woken, TInv, TypeOK
    <3>2. CASE CancelAllowed(t)
      BY <3>2 DEF CancelAllowed, TInv, TypeOK
    <3> QED
      BY <1>6, <3>1, <3>2
  <2> QED
    BY <2>3, <2>4, <2>5, GrantRemoved
<1>7. ASSUME NEW t \in Threads, Acquired(t) PROVE GrantedInv'
  <2>1. PICK m \in Mutexes : m = arg[t].mtx
    BY <1>7 DEF Acquired, TInv, ArgOK
  <2>2. /\ pc[t] = "acquired" /\ UNCHANGED allowed
        /\ pc' = [pc EXCEPT ![t] = "idle"] /\ arg' = [arg EXCEPT ![t] = NoArg]
        /\ \/ (owner[m] = NULL /\ acqPos' = [acqPos EXCEPT ![m] = lockPos[t]]
                 /\ owner' = [owner EXCEPT ![m] = t])
           \/ (owner[m] # NULL /\ acqPos' = acqPos /\ owner' = owner)
    BY <1>7, <2>1 DEF Acquired
  <2>3. /\ pc'[t] = "idle"
        /\ \A u \in Threads \ {t} : pc'[u] = pc[u] /\ arg'[u] = arg[u]
    BY <2>2 DEF TInv, TypeOK
  <2>4. GrantOK(t)'
    BY <2>3 DEF GrantOK
  <2>5. CASE owner[m] # NULL
    BY <2>2, <2>3, <2>4, <2>5, GrantsKept
  <2>6. CASE owner[m] = NULL
    <3>1. ASSUME NEW u \in Threads \ {t} PROVE GrantOK(u)'
      <4>1. GrantOK(u)
        BY DEF GrantedInv
      <4>2. arg[u].mtx = m => owner[arg[u].mtx] # u
        BY <2>6, NullAssumption
      <4>3. arg[u].mtx \in Mutexes \ {m} => owner'[arg[u].mtx] = owner[arg[u].mtx]
        BY <2>2, <2>6 DEF TInv, TypeOK
      <4>4. pc[u] # "idle" => arg[u].mtx \in Mutexes
        BY DEF TInv, ArgOK
      <4> QED
        BY <2>2, <2>3, <4>1, <4>2, <4>3, <4>4 DEF GrantOK
    <3>2. OpOK(t) /\ GrantOK(t) /\ arg[t].pos \in Positions
      BY <2>2 DEF OwnInv, GrantedInv, TInv, ArgOK
    <3>3. owner[m] # t
      BY <2>6, NullAssumption
    <3>4. lockPos[t] = arg[t].pos /\ [thread |-> t, mtx |-> m] \in Elements(allowed[arg[t].pos])
      BY <2>1, <2>2, <3>2, <3>3 DEF OpOK, GrantOK
    <3>5. owner'[m] = t /\ acqPos'[m] = arg[t].pos
      BY <2>2, <2>6, <3>4 DEF TInv, TypeOK
    <3>6. \A n \in Mutexes \ {m} : owner'[n] = owner[n] /\ acqPos'[n] = acqPos[n]
      BY <2>2, <2>6 DEF TInv, TypeOK
    <3>7. HoldersGranted'
      BY <2>2, <3>2, <3>4, <3>5, <3>6, NullAssumption DEF GrantedInv, HoldersGranted
    <3> QED
      BY <2>4, <3>1, <3>7 DEF GrantedInv
  <2> QED
    BY <2>5, <2>6
<1>8. ASSUME NEW t \in Threads, NEW m \in Mutexes, Release(t, m) PROVE GrantedInv'
  <2>1. /\ UNCHANGED allowed /\ arg' = [arg EXCEPT ![t] = [mtx |-> m, pos |-> acqPos[m]]]
        /\ pc' \in {[pc EXCEPT ![t] = "unlocking"], [pc EXCEPT ![t] = "releasing"]}
        /\ owner' = owner \/ owner' = [owner EXCEPT ![m] = NULL]
        /\ acqPos' = acqPos \/ (acqPos' = [acqPos EXCEPT ![m] = NULL]
                                  /\ owner' = [owner EXCEPT ![m] = NULL])
        /\ holder[m] = t /\ MutexOK(m)
    BY <1>8 DEF Release, OwnInv
  <2>2. \A u \in Threads \ {t} : pc'[u] = pc[u] /\ arg'[u] = arg[u]
    BY <2>1 DEF TInv, TypeOK
  <2>3. pc'[t] \in {"unlocking", "releasing"}
    BY <2>1 DEF TInv, TypeOK
  <2>4. ASSUME NEW u \in Threads \ {t} PROVE GrantOK(u)'
    <3>1. GrantOK(u)
      BY DEF GrantedInv
    <3>2. arg[u].mtx = m => owner[arg[u].mtx] # u
      BY <2>1, NullAssumption DEF MutexOK
    <3>3. arg[u].mtx \in Mutexes \ {m} => owner'[arg[u].mtx] = owner[arg[u].mtx]
      BY <2>1 DEF TInv, TypeOK
    <3>4. pc[u] # "idle" => arg[u].mtx \in Mutexes
      BY DEF TInv, ArgOK
    <3> QED
      BY <2>1, <2>2, <3>1, <3>2, <3>3, <3>4 DEF GrantOK
  <2>5. HoldersGranted'
    <3>1. \A n \in Mutexes \ {m} : owner'[n] = owner[n] /\ acqPos'[n] = acqPos[n]
      BY <2>1 DEF TInv, TypeOK
    <3>2. owner'[m] = NULL \/ (owner'[m] = owner[m] /\ acqPos'[m] = acqPos[m])
      BY <2>1 DEF TInv, TypeOK
    <3> QED
      BY <2>1, <3>1, <3>2 DEF GrantedInv, HoldersGranted
  <2>6. GrantOK(t)'
    BY <2>3 DEF GrantOK
  <2> QED
    BY <2>4, <2>5, <2>6 DEF GrantedInv
<1>9. ASSUME NEW t \in Threads,
             CondWake(t) \/ RealTryLock(t) \/ \E m \in Mutexes : CondWait(t, m)
      PROVE  GrantedInv'
  <2>1. GrantOK(t) /\ OpOK(t)
    BY DEF GrantedInv, OwnInv
  <2> QED
    BY <1>9, <2>1 DEF CondWake, CondWait, RealTryLock, GrantOK, OpOK
<1>10. ASSUME NEW t \in Threads, NEW m \in Mutexes, NEW p \in Positions, TryAcquire(t, m, p)
       PROVE  GrantedInv'
  BY <1>10 DEF TryAcquire
<1>11. CASE UNCHANGED vars
  <2>1. UNCHANGED <<pc, arg, owner, acqPos, allowed>>
    BY <1>11 DEF vars
  <2> QED
    BY <2>1 DEF GrantedInv, GrantOK, HoldersGranted
<1> QED
  BY <1>1, <1>2, <1>3, <1>4, <1>5, <1>6, <1>7, <1>8, <1>9, <1>10, <1>11
     DEF Next, Step, Operation, Monitor

(* In a program that takes its locks with pthread_mutex_lock and waits on  *)
(* no condition, whoever owns a mutex does so under a grant, whatever the  *)
(* monitor lets through: the matching sees every lock (insert_allowed and  *)
(* remove_allowed, avoidance.cc).                                          *)
THEOREM EveryLockGranted ==
  ASSUME "trylock" \notin Features, "condwait" \notin Features
  PROVE  Spec => []HoldersGranted
<1> DEFINE Inv == TInv /\ OwnInv /\ GrantedInv
<1>1. Init => Inv
  BY TInvInit, OwnInvInit, GrantedInvInit
<1>2. Inv /\ [Next]_vars => Inv'
  BY TInvNext, OwnInvNext, GrantedInvNext
<1>3. Inv => HoldersGranted
  BY DEF GrantedInv
<1> HIDE DEF Inv
<1> QED
  BY <1>1, <1>2, <1>3, PTL DEF Spec

-----------------------------------------------------------------------------
(* Immunity *)

LEMMA ImmuneFromGrants == TInv /\ OwnInv /\ GrantedInv /\ NoOccupation => Immune
<1> SUFFICES ASSUME TInv, OwnInv, GrantedInv, NoOccupation, NEW k \in DOMAIN History,
                    NEW f \in [DOMAIN History[k] -> Threads],
                    NEW h \in [DOMAIN History[k] -> Mutexes],
                    DeadlockAt(History[k], f, h)
             PROVE  FALSE
  BY DEF Immune
<1> DEFINE T == History[k]
           F == [i \in DOMAIN T |-> [pos |-> T[i], thread |-> f[i], mtx |-> h[i]]]
<1>1. \A i \in DOMAIN T : T[i] \in Positions
  BY HistoryAssumption
<1>2. ASSUME NEW i \in DOMAIN T PROVE F[i] \in GrantsInForce
  <2>1. holder[h[i]] = f[i] /\ acqPos[h[i]] = T[i] /\ MutexOK(h[i])
    BY DEF DeadlockAt, OwnInv
  <2>2. owner[h[i]] = f[i]
    BY <1>1, <2>1, NullAssumption DEF MutexOK
  <2>3. [thread |-> f[i], mtx |-> h[i]] \in Elements(allowed[T[i]])
    BY <2>1, <2>2, NullAssumption DEF GrantedInv, HoldersGranted
  <2> QED
    BY <1>1, <2>3 DEF GrantsInForce, Causes
<1>3. F \in [DOMAIN T -> GrantsInForce]
  BY <1>2
<1>4. \A i, j \in DOMAIN T : F[i] = F[j] => i = j
  <2> SUFFICES ASSUME NEW i \in DOMAIN T, NEW j \in DOMAIN T, F[i] = F[j] PROVE i = j
    OBVIOUS
  <2>1. F[i].thread = f[i] /\ F[j].thread = f[j]
    OBVIOUS
  <2> QED
    BY <2>1 DEF DeadlockAt
<1>5. \A i \in DOMAIN T : F[i].pos = T[i]
  OBVIOUS
<1>6. I!Occupies(GrantsInForce, T)
  <2> HIDE DEF F, T
  <2> QED
    BY <1>3, <1>4, <1>5 DEF I!Occupies
<1> QED
  BY <1>6 DEF NoOccupation

(* What Dimmunix is for: in a program that takes its locks with            *)
(* pthread_mutex_lock and waits on no condition, a deadlock in the history *)
(* does not happen again, unless the monitor lets a thread through.        *)
THEOREM DeadlocksDoNotRecur ==
  ASSUME "break" \notin Features, "trylock" \notin Features, "condwait" \notin Features
  PROVE  Spec => []Immune
<1> DEFINE Inv == TInv /\ LockInv /\ MatchInv /\ NoOccupation /\ OwnInv /\ GrantedInv
<1>1. Init => Inv
  BY TInvInit, LockInvInit, MatchInvInit, NoOccupationInit, OwnInvInit, GrantedInvInit
<1>2. Inv /\ [Next]_vars => Inv'
  BY TInvNext, LockInvNext, MatchInvNext, EveryGrantStep, NoOccupationNext, OwnInvNext, GrantedInvNext
<1>3. Inv => Immune
  BY ImmuneFromGrants
<1> HIDE DEF Inv
<1> QED
  BY <1>1, <1>2, <1>3, PTL DEF Spec

-----------------------------------------------------------------------------
(* No grant is left behind but by a real lock that failed: every other one *)
(* belongs to a lock that its thread has, is about to take, or is giving   *)
(* back, and is there once.                                                *)

(* Backed, but with the two ways exclusive: a thread that asks for a       *)
(* further level of a mutex it owns has its grant from the first.          *)
Backing(t, m, p) ==
  \/ owner[m] = t /\ acqPos[m] = p
  \/ /\ owner[m] # t /\ arg[t].mtx = m
     /\ \/ (pc[t] \in {"granted", "locking", "acquired", "releasing"} /\ arg[t].pos = p)
        \/ (pc[t] = "cancelling" /\ lockPos[t] = p)

(* The grants at p that a failing lock has left. *)
LeftAt(p) == {g \in LockGrants : [pos |-> p, thread |-> g.thread, mtx |-> g.mtx] \in failed}

(* No element of s but those in X is there twice. *)
DistinctBut(s, X) == \A i, j \in DOMAIN s : s[i] = s[j] /\ s[i] \notin X => i = j

LeakInv ==
  \A p \in Positions :
    /\ DistinctBut(allowed[p], LeftAt(p))
    /\ \A g \in Elements(allowed[p]) : g \in LeftAt(p) \/ Backing(g.thread, g.mtx, p)

LEMMA LeakInvInit == Init => LeakInv
BY DEF Init, LeakInv, DistinctBut, Elements

-----------------------------------------------------------------------------
(* Lists without duplicates *)

LEMMA AppendDistinct ==
  ASSUME NEW S, NEW s \in Seq(S), NEW e \in S, NEW X, DistinctBut(s, X),
         e \in X \/ e \notin Elements(s)
  PROVE  DistinctBut(Append(s, e), X)
<1>1. /\ Len(s) \in Nat /\ DOMAIN s = 1..Len(s)
      /\ DOMAIN Append(s, e) = 1..(Len(s) + 1)
      /\ \A i \in 1..Len(s) : Append(s, e)[i] = s[i] /\ (e \notin X => s[i] # e)
      /\ Append(s, e)[Len(s) + 1] = e
  BY DEF Elements
<1> QED
  BY <1>1 DEF DistinctBut

(* One that is taken out is not in the rest. *)
LEMMA WithoutDistinct ==
  ASSUME NEW S, NEW s \in Seq(S), NEW i \in DOMAIN s, NEW X, DistinctBut(s, X)
  PROVE  /\ DistinctBut(Without(s, i), X)
         /\ s[i] \in X \/ s[i] \notin Elements(Without(s, i))
<1>1. /\ Len(s) \in Nat /\ DOMAIN s = 1..Len(s) /\ i \in 1..Len(s)
      /\ DOMAIN Without(s, i) = 1..(Len(s) - 1)
      /\ \A j \in 1..(Len(s) - 1) : Without(s, i)[j] = IF j < i THEN s[j] ELSE s[j + 1]
  BY DEF Without
<1>2. \A j, k \in 1..Len(s) : s[j] = s[k] /\ s[j] \notin X => j = k
  BY <1>1 DEF DistinctBut
<1>3. DistinctBut(Without(s, i), X)
  <2> SUFFICES ASSUME NEW j \in 1..(Len(s) - 1), NEW k \in 1..(Len(s) - 1),
                      Without(s, i)[j] = Without(s, i)[k], Without(s, i)[j] \notin X
               PROVE  j = k
    BY <1>1 DEF DistinctBut
  <2> QED
    BY <1>1, <1>2
<1>4. ASSUME s[i] \notin X, NEW j \in 1..(Len(s) - 1) PROVE Without(s, i)[j] # s[i]
  BY <1>1, <1>2, <1>4
<1> QED
  BY <1>1, <1>3, <1>4 DEF Elements

(* remove_allowed leaves no second copy of what it takes out. *)
LEMMA RemovedIsGone ==
  ASSUME TInv, LeakInv, NEW t \in Threads, NEW m \in Mutexes, NEW p \in Positions,
         RemoveAllowed(t, m, p)
  PROVE  /\ \A q \in Positions : DistinctBut(allowed'[q], LeftAt(q))
         /\ [thread |-> t, mtx |-> m] \in LeftAt(p)
              \/ [thread |-> t, mtx |-> m] \notin Elements(allowed'[p])
<1> DEFINE g == [thread |-> t, mtx |-> m]
           s == allowed[p]
<1>1. s \in Seq(LockGrants) /\ \A q \in Positions : DistinctBut(allowed[q], LeftAt(q))
  BY DEF TInv, TypeOK, LeakInv
<1>2. CASE g \notin Elements(s) /\ UNCHANGED allowed
  BY <1>1, <1>2
<1>3. CASE \E i \in DOMAIN s : s[i] = g /\ allowed' = [allowed EXCEPT ![p] = Without(s, i)]
  <2>1. PICK i \in DOMAIN s : s[i] = g /\ allowed' = [allowed EXCEPT ![p] = Without(s, i)]
    BY <1>3
  <2>2. /\ DistinctBut(Without(s, i), LeftAt(p))
        /\ s[i] \in LeftAt(p) \/ s[i] \notin Elements(Without(s, i))
    BY <1>1, WithoutDistinct
  <2>3. allowed'[p] = Without(s, i) /\ \A q \in Positions \ {p} : allowed'[q] = allowed[q]
    BY <2>1 DEF TInv, TypeOK
  <2> QED
    BY <1>1, <2>1, <2>2, <2>3
<1> QED
  BY <1>2, <1>3 DEF RemoveAllowed

-----------------------------------------------------------------------------
(* A step of thread t on mutex m, as the other threads see it. *)
OnlyOn(t, m) ==
  /\ \A u \in Threads \ {t} :
       /\ pc'[u] = pc[u] \/ (pc[u] = "asleep" /\ pc'[u] = "wait")
       /\ arg'[u] = arg[u] /\ lockPos'[u] = lockPos[u]
  /\ \A n \in Mutexes \ {m} : owner'[n] = owner[n] /\ acqPos'[n] = acqPos[n]
  /\ UNCHANGED <<owner, acqPos>> \/ (owner[m] \in {t, NULL} /\ owner'[m] \in {t, NULL})

LEMMA ListedGrant ==
  ASSUME TInv, NEW q \in Positions, NEW g \in Elements(allowed[q])
  PROVE  g \in LockGrants /\ g.thread \in Threads /\ g.mtx \in Mutexes
<1>1. allowed[q] \in Seq(LockGrants)
  BY DEF TInv, TypeOK
<1>2. g \in LockGrants
  BY <1>1 DEF Elements
<1> QED
  BY <1>2 DEF LockGrants

(* What a lock has left stays so. *)
LEMMA LeftGrows ==
  ASSUME failed \subseteq failed', NEW q \in Positions
  PROVE  LeftAt(q) \subseteq LeftAt(q)'
BY DEF LeftAt

(* It is enough to look at the grants of t. *)
LEMMA LeakStep ==
  ASSUME TInv, LeakInv, NEW t \in Threads, NEW m \in Mutexes, OnlyOn(t, m),
         allowed' \in [Positions -> Seq(LockGrants)], failed \subseteq failed',
         \A q \in Positions : DistinctBut(allowed'[q], LeftAt(q)),
         \A q \in Positions : \A g \in Elements(allowed'[q]) :
           IF g.thread = t THEN g \in LeftAt(q)' \/ Backing(t, g.mtx, q)'
                           ELSE g \in Elements(allowed[q])
  PROVE  LeakInv'
<1>0. \A q \in Positions : DistinctBut(allowed[q]', LeftAt(q)')
  BY LeftGrows DEF DistinctBut
<1> SUFFICES ASSUME NEW q \in Positions, NEW g \in Elements(allowed'[q]), g.thread # t,
                    g \notin LeftAt(q)'
             PROVE  Backing(g.thread, g.mtx, q)'
  BY <1>0 DEF LeakInv, DistinctBut, Elements
<1>1. g \in Elements(allowed[q]) /\ Backing(g.thread, g.mtx, q)
  BY LeftGrows DEF LeakInv
<1>2. g \in LockGrants
  BY <1>1 DEF TInv, TypeOK, Elements
<1>3. g.thread \in Threads \ {t} /\ g.mtx \in Mutexes
  BY <1>2 DEF LockGrants
<1> QED
  BY <1>1, <1>3, NullAssumption DEF Backing, OnlyOn

(* The steps at which t is granted nothing, takes nothing back, and keeps  *)
(* what backs its grants, or fails to lock.                                *)
LEMMA LeakKept ==
  ASSUME TInv, LeakInv, NEW t \in Threads, NEW m \in Mutexes, OnlyOn(t, m), UNCHANGED allowed,
         failed \subseteq failed',
         \A n \in Mutexes, q \in Positions :
           Backing(t, n, q) => Backing(t, n, q)' \/ [pos |-> q, thread |-> t, mtx |-> n] \in failed'
  PROVE  LeakInv'
<1>1. /\ allowed' \in [Positions -> Seq(LockGrants)]
      /\ \A q \in Positions : DistinctBut(allowed'[q], LeftAt(q))
  BY DEF TInv, TypeOK, LeakInv
<1>2. ASSUME NEW q \in Positions, NEW g \in Elements(allowed'[q]), g.thread = t
      PROVE  g \in LeftAt(q)' \/ Backing(t, g.mtx, q)'
  <2>1. (g \in LeftAt(q) \/ Backing(g.thread, g.mtx, q)) /\ g.mtx \in Mutexes /\ g \in LockGrants
    BY ListedGrant DEF LeakInv
  <2>2. LeftAt(q) \subseteq LeftAt(q)'
    BY LeftGrows
  <2> QED
    BY <1>2, <2>1, <2>2 DEF LeftAt
<1> QED
  BY <1>1, <1>2, LeakStep

LEMMA LeakInvNext ==
  "condwait" \notin Features /\ TInv /\ OwnInv /\ LeakInv /\ [Next]_vars => LeakInv'
<1> SUFFICES ASSUME "condwait" \notin Features, TInv, OwnInv, LeakInv, [Next]_vars PROVE LeakInv'
  OBVIOUS
<1> USE DEF Goto, Return, lockVars, realVars, grantVars
<1>0. /\ pc \in [Threads -> PCs] /\ arg \in [Threads -> Args]
      /\ lockPos \in [Threads -> Positions \cup {NULL}]
      /\ owner \in [Mutexes -> Threads \cup {NULL}] /\ acqPos \in [Mutexes -> Positions \cup {NULL}]
      /\ allowed \in [Positions -> Seq(LockGrants)]
      /\ \A t \in Threads : OpOK(t)
  BY DEF TInv, TypeOK, OwnInv
<1>1. ASSUME NEW t \in Threads,
             \/ TemplateInstance(t) \/ Yield(t) \/ EmitYield(t) \/ Sleep(t) \/ Retry(t)
             \/ SpuriousWakeup(t) \/ EmitGrant(t) \/ RealLock(t) \/ Cancel(t)
      PROVE  LeakInv'
  <2>1. PICK m \in Mutexes : m = arg[t].mtx
    BY <1>1 DEF TInv, ArgOK, TemplateInstance, Yield, EmitYield, Sleep, Retry, SpuriousWakeup,
                EmitGrant, RealLock, Cancel
  <2>2. /\ UNCHANGED <<owner, acqPos, allowed, failed, arg, lockPos>>
        /\ \/ /\ pc[t] \in {"request", "decide", "yielding", "wait", "asleep"}
              /\ \E l \in {"request", "decide", "yielding", "wait", "asleep"} : pc' = [pc EXCEPT ![t] = l]
           \/ (pc[t] = "granted" /\ pc' = [pc EXCEPT ![t] = "locking"])
           \/ (pc[t] = "locking" /\ pc' = [pc EXCEPT ![t] = "acquired"])
           \/ (pc[t] = "locking" /\ pc' = [pc EXCEPT ![t] = "cancelling"] /\ owner[m] # t)
    BY <1>1, <2>1 DEF TemplateInstance, Yield, EmitYield, Sleep, Retry, SpuriousWakeup,
                      EmitGrant, RealLock, Cancel
  <2>3. OnlyOn(t, m)
    BY <1>0, <2>2 DEF OnlyOn
  <2>4. \A n \in Mutexes, q \in Positions : Backing(t, n, q) => Backing(t, n, q)'
    <3>1. pc[t] = "locking" /\ owner[m] # t => lockPos[t] = arg[t].pos
      BY <1>0, <2>1 DEF OpOK
    <3> QED
      BY <1>0, <2>1, <2>2, <3>1 DEF Backing
  <2> QED
    BY <2>2, <2>3, <2>4, LeakKept
<1>2. ASSUME NEW t \in Threads, Grant(t) PROVE LeakInv'
  <2>1. PICK m \in Mutexes, p \in Positions : m = arg[t].mtx /\ p = arg[t].pos
    BY <1>2 DEF Grant, TInv, ArgOK
  <2> DEFINE g == [thread |-> t, mtx |-> m]
  <2>2. /\ UNCHANGED <<owner, acqPos, failed, arg, lockPos>>
        /\ pc[t] = "decide" /\ pc' = [pc EXCEPT ![t] = "granted"]
        /\ allowed' = [allowed EXCEPT ![p] = Append(@, g)]
        /\ owner[m] # t
    BY <1>0, <1>2, <2>1 DEF Grant, OpOK, Asking
  <2>3. allowed'[p] = Append(allowed[p], g) /\ \A q \in Positions \ {p} : allowed'[q] = allowed[q]
    BY <1>0, <2>2
  <2>4. g \in LockGrants /\ allowed[p] \in Seq(LockGrants)
    BY <1>0 DEF LockGrants
  <2>5. \A n \in Mutexes, q \in Positions : Backing(t, n, q) => owner[n] = t
    BY <2>2 DEF Backing
  <2>6. g \in LeftAt(p) \/ g \notin Elements(allowed[p])
    BY <2>2, <2>5 DEF LeakInv
  <2>7. Elements(Append(allowed[p], g)) = Elements(allowed[p]) \cup {g}
        /\ Append(allowed[p], g) \in Seq(LockGrants)
    BY <2>4, AppendElements
  <2>8. \A q \in Positions : DistinctBut(allowed'[q], LeftAt(q)) /\ LeftAt(q)' = LeftAt(q)
    <3>1. \A q \in Positions : LeftAt(q)' = LeftAt(q)
      BY <2>2 DEF LeftAt
    <3>2. DistinctBut(Append(allowed[p], g), LeftAt(p))
      BY <2>4, <2>6, AppendDistinct DEF LeakInv
    <3>3. \A q \in Positions : DistinctBut(allowed[q], LeftAt(q))
      BY DEF LeakInv
    <3> QED
      BY ONLY <2>3, <3>1, <3>2, <3>3
  <2>9. allowed' \in [Positions -> Seq(LockGrants)]
    BY <1>0, <2>2, <2>7
  <2>10. OnlyOn(t, m)
    BY <1>0, <2>2 DEF OnlyOn
  <2>11. \A n \in Mutexes, q \in Positions : Backing(t, n, q) => Backing(t, n, q)'
    BY <2>2, <2>5 DEF Backing
  <2>12. Backing(t, m, p)'
    BY <1>0, <2>1, <2>2 DEF Backing
  <2>13. ASSUME NEW q \in Positions, NEW h \in Elements(allowed'[q])
         PROVE  IF h.thread = t THEN h \in LeftAt(q)' \/ Backing(t, h.mtx, q)'
                                ELSE h \in Elements(allowed[q])
    <3>1. CASE h \in Elements(allowed[q])
      <4>1. h \in LockGrants /\ (h \in LeftAt(q) \/ Backing(h.thread, h.mtx, q))
        BY <3>1, ListedGrant DEF LeakInv
      <4> QED
        BY <2>8, <2>11, <3>1, <4>1 DEF LockGrants
    <3>2. CASE q = p /\ h = g
      BY <2>12, <3>2
    <3> QED
      BY <2>3, <2>7, <3>1, <3>2
  <2> HIDE DEF g
  <2> QED
    BY <2>2, <2>8, <2>9, <2>10, <2>13, LeakStep
<1>3. ASSUME NEW t \in Threads, NEW m \in Mutexes, NEW p \in Positions,
             Acquire(t, m, p) \/ TryAcquire(t, m, p)
      PROVE  LeakInv'
  <2>1. /\ UNCHANGED <<owner, acqPos, allowed, failed>>
        /\ pc[t] = "idle" /\ \E l \in {"locking", "request", "trying"} : pc' = [pc EXCEPT ![t] = l]
        /\ arg' = [arg EXCEPT ![t] = [mtx |-> m, pos |-> p]]
        /\ lockPos' = lockPos \/ lockPos' = [lockPos EXCEPT ![t] = p]
    BY <1>3 DEF Acquire, TryAcquire
  <2>2. OnlyOn(t, m)
    BY <1>0, <2>1 DEF OnlyOn
  <2>3. \A n \in Mutexes, q \in Positions : Backing(t, n, q) => Backing(t, n, q)'
    BY <2>1 DEF Backing
  <2> QED
    BY <2>1, <2>2, <2>3, LeakKept
<1>4. ASSUME NEW t \in Threads, RealTryLock(t) \/ RealUnlock(t) PROVE LeakInv'
  <2>1. PICK m \in Mutexes : m = arg[t].mtx
    BY <1>4 DEF RealTryLock, RealUnlock, TInv, ArgOK
  <2>2. /\ UNCHANGED <<owner, acqPos, allowed, failed, lockPos>>
        /\ \E l \in {"idle", "acquired"} : pc' = [pc EXCEPT ![t] = l]
        /\ pc[t] \in {"trying", "unlocking"}
        /\ arg' = arg \/ arg' = [arg EXCEPT ![t] = NoArg]
    BY <1>4 DEF RealTryLock, RealUnlock
  <2>3. OnlyOn(t, m)
    BY <1>0, <2>2 DEF OnlyOn
  <2>4. \A n \in Mutexes, q \in Positions : Backing(t, n, q) => Backing(t, n, q)'
    BY <2>2 DEF Backing
  <2> QED
    BY <2>2, <2>3, <2>4, LeakKept
<1>5. ASSUME NEW t \in Threads, Acquired(t) PROVE LeakInv'
  <2>1. PICK m \in Mutexes : m = arg[t].mtx
    BY <1>5 DEF Acquired, TInv, ArgOK
  <2>2. /\ pc[t] = "acquired" /\ UNCHANGED <<allowed, failed, lockPos>>
        /\ pc' = [pc EXCEPT ![t] = "idle"] /\ arg' = [arg EXCEPT ![t] = NoArg]
        /\ \/ (owner[m] = NULL /\ acqPos' = [acqPos EXCEPT ![m] = lockPos[t]]
                 /\ owner' = [owner EXCEPT ![m] = t])
           \/ (owner[m] # NULL /\ acqPos' = acqPos /\ owner' = owner)
    BY <1>5, <2>1 DEF Acquired
  <2>3. holder[m] = t /\ (owner[m] = t \/ lockPos[t] = arg[t].pos) /\ MutexOK(m)
    BY <1>0, <2>1, <2>2 DEF OpOK, OwnInv
  <2>4. owner[m] = NULL => owner[m] # t
    BY NullAssumption
  <2>5. owner[m] # NULL => owner[m] = t
    BY <2>3 DEF MutexOK
  <2>6. OnlyOn(t, m)
    BY <1>0, <2>2 DEF OnlyOn
  <2>7. \A n \in Mutexes, q \in Positions : Backing(t, n, q) => Backing(t, n, q)'
    BY <1>0, <2>1, <2>2, <2>3, <2>4, <2>5 DEF Backing
  <2> QED
    BY <2>2, <2>6, <2>7, LeakKept
<1>6. ASSUME NEW t \in Threads, NEW m \in Mutexes, Release(t, m) PROVE LeakInv'
  <2>1. /\ pc[t] = "idle" /\ holder[m] = t /\ UNCHANGED <<allowed, failed, lockPos>>
        /\ arg' = [arg EXCEPT ![t] = [mtx |-> m, pos |-> acqPos[m]]]
        /\ \/ /\ pc' = [pc EXCEPT ![t] = "unlocking"] /\ UNCHANGED <<owner, acqPos>>
           \/ /\ pc' = [pc EXCEPT ![t] = "unlocking"] /\ acqPos[m] = NULL
              /\ owner' = [owner EXCEPT ![m] = NULL] /\ UNCHANGED acqPos
           \/ /\ pc' = [pc EXCEPT ![t] = "releasing"]
              /\ owner' = [owner EXCEPT ![m] = NULL] /\ acqPos' = [acqPos EXCEPT ![m] = NULL]
    BY <1>6 DEF Release
  <2>2. owner[m] = t /\ acqPos[m] # NULL
    <3>1. MutexOK(m) /\ InBetween(t, m) = 0
      BY <2>1 DEF OwnInv, InBetween
    <3> QED
      BY <1>0, <2>1, <3>1, NullAssumption DEF MutexOK, TInv, TypeOK
  <2>3. OnlyOn(t, m)
    BY <1>0, <2>1, <2>2 DEF OnlyOn
  <2>4. \A n \in Mutexes, q \in Positions : Backing(t, n, q) => Backing(t, n, q)'
    BY <1>0, <2>1, <2>2, NullAssumption DEF Backing
  <2> QED
    BY <2>1, <2>3, <2>4, LeakKept
<1>7. ASSUME NEW t \in Threads, ReleaseAllowed(t) \/ CancelAllowed(t) PROVE LeakInv'
  <2>1. PICK m \in Mutexes, p \in Positions : m = arg[t].mtx /\ p = arg[t].pos
    BY <1>7 DEF ReleaseAllowed, CancelAllowed, TInv, ArgOK
  <2> DEFINE g == [thread |-> t, mtx |-> m]
  <2>2. owner[m] # t /\ (pc[t] = "cancelling" => lockPos[t] = p)
    BY <1>0, <1>7, <2>1, NullAssumption DEF ReleaseAllowed, CancelAllowed, OpOK
  <2>3. /\ RemoveAllowed(t, m, p) /\ UNCHANGED <<owner, acqPos, failed>>
        /\ pc[t] \in {"releasing", "cancelling"}
    BY <1>7, <2>1, <2>2 DEF ReleaseAllowed, CancelAllowed
  <2>4. OnlyOn(t, m)
    <3>1. CASE ReleaseAllowed(t)
      BY <1>0, <3>1 DEF ReleaseAllowed, Woken, OnlyOn
    <3>2. CASE CancelAllowed(t)
      BY <1>0, <3>2 DEF CancelAllowed, OnlyOn
    <3> QED
      BY <1>7, <3>1, <3>2
  <2>5. /\ allowed' \in [Positions -> Seq(LockGrants)]
        /\ \A q \in Positions : Elements(allowed'[q]) \subseteq Elements(allowed[q])
    BY <1>0, <2>3, RemoveAllowedFacts
  <2>6. /\ \A q \in Positions : DistinctBut(allowed'[q], LeftAt(q)) /\ LeftAt(q)' = LeftAt(q)
        /\ g \in LeftAt(p) \/ g \notin Elements(allowed'[p])
    BY <2>3, RemovedIsGone DEF LeftAt
  <2>7. ASSUME NEW q \in Positions, NEW h \in Elements(allowed'[q]), h.thread = t
        PROVE  h \in LeftAt(q)' \/ Backing(t, h.mtx, q)'
    <3>0. h \in Elements(allowed[q])
      BY <2>5
    <3> SUFFICES ASSUME h \notin LeftAt(q) PROVE Backing(t, h.mtx, q)'
      BY <2>6
    <3>1. h \in LockGrants /\ Backing(t, h.mtx, q)
      BY <2>7, <3>0, ListedGrant DEF LeakInv
    <3>2. h.mtx = m /\ q = p => h = g
      BY <2>7, <3>1 DEF LockGrants
    <3>3. owner[h.mtx] = t /\ acqPos[h.mtx] = q
      BY <2>1, <2>2, <2>3, <2>6, <2>7, <3>1, <3>2 DEF Backing
    <3> QED
      BY <2>3, <3>3 DEF Backing
  <2> HIDE DEF g
  <2> QED
    BY <2>3, <2>4, <2>5, <2>6, <2>7, LeakStep
<1>8. ASSUME NEW t \in Threads, BreakYield(t) \/ BreakNotify(t) PROVE LeakInv'
  <2>1. /\ UNCHANGED <<owner, acqPos, allowed, failed, arg, lockPos>>
        /\ \A u \in Threads : pc'[u] = pc[u] \/ (pc[u] = "asleep" /\ pc'[u] = "wait")
    BY <1>8 DEF BreakYield, BreakNotify, Woken
  <2>2. \A u \in Threads, n \in Mutexes, q \in Positions : Backing(u, n, q) => Backing(u, n, q)'
    BY <2>1 DEF Backing
  <2>3. \A q \in Positions : \A g \in Elements(allowed[q]) : g.thread \in Threads /\ g.mtx \in Mutexes
    BY ListedGrant
  <2> QED
    BY <2>1, <2>2, <2>3 DEF LeakInv, LeftAt
<1>9. ASSUME NEW t \in Threads, CondWake(t) \/ \E m \in Mutexes : CondWait(t, m) PROVE LeakInv'
  BY <1>0, <1>9 DEF CondWake, CondWait, OpOK
<1>10. CASE UNCHANGED vars
  <2>1. \A q \in Positions : LeftAt(q)' = LeftAt(q)
    BY <1>10 DEF vars, LeftAt
  <2>2. \A u \in Threads, n \in Mutexes, q \in Positions : Backing(u, n, q) => Backing(u, n, q)'
    BY <1>10 DEF vars, Backing
  <2>3. UNCHANGED allowed
    BY <1>10 DEF vars
  <2> QED
    BY <2>1, <2>2, <2>3, ListedGrant DEF LeakInv
<1>11. ASSUME NEW t \in Threads, RealLockFails(t) PROVE LeakInv'
  <2>1. PICK m \in Mutexes, p \in Positions : m = arg[t].mtx /\ p = arg[t].pos
    BY <1>11 DEF RealLockFails, TInv, ArgOK
  <2>2. /\ UNCHANGED <<owner, acqPos, allowed, lockPos>>
        /\ pc[t] = "locking" /\ pc' = [pc EXCEPT ![t] = "idle"]
        /\ arg' = [arg EXCEPT ![t] = NoArg]
        /\ failed' = IF owner[m] = t THEN failed
                     ELSE failed \cup {[pos |-> p, thread |-> t, mtx |-> m]}
    BY <1>11, <2>1 DEF RealLockFails
  <2>3. OnlyOn(t, m) /\ failed \subseteq failed'
    BY <1>0, <2>2 DEF OnlyOn
  <2>4. ASSUME NEW n \in Mutexes, NEW q \in Positions, Backing(t, n, q)
        PROVE  Backing(t, n, q)' \/ [pos |-> q, thread |-> t, mtx |-> n] \in failed'
    <3>1. CASE owner[n] = t /\ acqPos[n] = q
      BY <2>2, <3>1 DEF Backing
    <3>2. CASE ~(owner[n] = t /\ acqPos[n] = q)
      <4>1. owner[n] # t /\ n = m /\ q = p
        BY <2>1, <2>2, <2>4, <3>2 DEF Backing
      <4> QED
        BY <2>2, <4>1
    <3> QED
      BY <3>1, <3>2
  <2> QED
    BY <2>2, <2>3, <2>4, LeakKept
<1> QED
  BY <1>1, <1>2, <1>3, <1>4, <1>5, <1>6, <1>7, <1>8, <1>9, <1>10, <1>11
     DEF Next, Step, Operation, Monitor

(* In a program without condition waits only a real lock that fails lets a *)
(* grant outlive its lock (preload.c calls neither dlock_acquired nor      *)
(* dlock_cancel then): every other grant in allowed is that of a lock its  *)
(* thread has, is about to take or is giving back, and is there once, so   *)
(* that nobody yields to a thread that has long gone on.                   *)
THEOREM NoGrantIsLeft ==
  ASSUME "condwait" \notin Features
  PROVE  Spec => []NoLeakedGrant
<1> DEFINE Inv == TInv /\ OwnInv /\ LeakInv
<1>1. Init => Inv
  BY TInvInit, OwnInvInit, LeakInvInit
<1>2. Inv /\ [Next]_vars => Inv'
  BY TInvNext, OwnInvNext, LeakInvNext
<1>3. Inv => NoLeakedGrant
  <2> SUFFICES ASSUME Inv, NEW c \in Causes \ failed,
                      NEW i \in DOMAIN allowed[c.pos], NEW j \in DOMAIN allowed[c.pos],
                      allowed[c.pos][i] = [thread |-> c.thread, mtx |-> c.mtx]
               PROVE  /\ Backed(c.thread, c.mtx, c.pos)
                      /\ allowed[c.pos][i] = allowed[c.pos][j] => i = j
    BY DEF NoLeakedGrant
  <2> DEFINE g == [thread |-> c.thread, mtx |-> c.mtx]
  <2>1. /\ c.pos \in Positions /\ g \in LockGrants
        /\ c = [pos |-> c.pos, thread |-> g.thread, mtx |-> g.mtx]
    BY DEF Causes, LockGrants
  <2>2. g \notin LeftAt(c.pos)
    BY <2>1 DEF LeftAt
  <2>3. g \in Elements(allowed[c.pos])
    BY DEF Elements
  <2>4. Backing(c.thread, c.mtx, c.pos)
    BY <2>1, <2>2, <2>3 DEF LeakInv
  <2> QED
    BY <2>1, <2>2, <2>4 DEF LeakInv, DistinctBut, Backing, Backed
<1> HIDE DEF Inv
<1> QED
  BY <1>1, <1>2, <1>3, PTL DEF Spec
=============================================================================
