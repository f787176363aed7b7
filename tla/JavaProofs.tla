----------------------------- MODULE JavaProofs -----------------------------
(***************************************************************************)
(* The theorems of the Java port, for any number of threads, objects,      *)
(* positions, signatures and recycled grants: publishing first and scanning *)
(* afterwards is enough, so that no signature is occupied; no wakeup is    *)
(* lost; every LockGrant is where it belongs exactly once; and every       *)
(* variable keeps its type.                                                *)
(***************************************************************************)
EXTENDS JavaAvoidance, SequenceTheorems, FiniteSetTheorems, WellFoundedInduction, TLAPS

(***************************************************************************)
(* No interleaving of the scans lets the threads occupy a signature.       *)
(*                                                                         *)
(* Number the grants in the order they were published.  Of the grants that *)
(* make an instance, the last one belongs to a thread whose scan reads the *)
(* positions of the others after they were listed; so as long as all are   *)
(* there, this scan is not over or finds them, unless it passes over one   *)
(* whose lock is to be skipped.                                            *)
(***************************************************************************)

Asking   == {"grant", "scan", "retract"}
Owning   == {"acquired", "ungrant", "leaving"}
Granted  == Asking \cup {"entering", "acquired"}
WithArg  == Granted \cup {"readlock", "waiting", "ungrant", "leaving"}
InHistory == Asking \cup {"readlock", "waiting"}

(* What a scan has seen: grants, and gaps for those it passed over *)
Entries == LockGrants \cup {NULL}

Scans == [left : SUBSET (Nat \X Nat), seen : Seq(Seq(Entries)), cut : BOOLEAN]

(* Domains, records and sequences *)
Shape ==
  /\ pc = [t \in Threads |-> pc[t]]
  /\ arg = [t \in Threads |-> arg[t]]
  /\ holder = [l \in Locks |-> holder[l]]
  /\ owner = [l \in Locks |-> owner[l]]
  /\ acqGrants \in [Locks -> Seq(LockGrants)]
  /\ lockGrants \in [Positions -> Seq(LockGrants)]
  /\ grant = [g \in LockGrants |-> grant[g]]
  /\ \A g \in LockGrants : grant[g] = [lock |-> grant[g].lock, pos |-> grant[g].pos,
                                       n |-> grant[g].n]
  /\ removed \in [Threads -> Seq(LockGrants)]
  /\ curGrants \in [Threads -> Seq(LockGrants)]
  /\ scan \in [Threads -> Scans]

(* The arguments of operations *)
Args ==
  /\ \A t \in Threads : pc[t] \in WithArg => arg[t][1] \in Locks
  /\ \A t \in Threads : pc[t] \in InHistory =>
       arg[t][2] \in Positions /\ MatchingPositions(arg[t][2]) # {}

(* A monitor has one thread in it, and LockNode::owner is that thread or   *)
(* nobody.                                                                 *)
Mutex ==
  /\ \A l \in Locks : owner[l] # NULL => holder[l] = owner[l]
  /\ \A t \in Threads : pc[t] \in Owning => holder[Lock(t)] = t /\ owner[Lock(t)] = NULL

Distinct(s) == \A i, j \in DOMAIN s : s[i] = s[j] => i = j

(* The grants of a request *)
Request(t) ==
  /\ \A g \in Elements(curGrants[t]) :
       /\ Thread(g) = t
       /\ grant[g].lock = Lock(t) /\ grant[g].pos = arg[t][2]
       /\ grant[g].n = 1 \/ (pc[t] = "retract" /\ g = Head(curGrants[t]))
  /\ curGrants[t] # << >> => pc[t] \in Granted
  /\ pc[t] \in {"scan", "retract"} => curGrants[t] # << >>
  /\ Distinct(curGrants[t])
Requests == \A t \in Threads : Request(t)

(* The grants of a lock *)
Holding(l) ==
  /\ \A g \in Elements(acqGrants[l]) :
       /\ holder[l] = Thread(g)
       /\ grant[g].n = 1 \/ (pc[Thread(g)] = "ungrant" /\ Lock(Thread(g)) = l
                             /\ g = Head(acqGrants[l]))
       /\ g \notin Elements(curGrants[Thread(g)])
       /\ \A k \in Locks \ {l} : g \notin Elements(acqGrants[k])
  /\ Distinct(acqGrants[l])
Holdings ==
  /\ \A l \in Locks : Holding(l)
  /\ \A t \in Threads : pc[t] = "leaving" => acqGrants[Lock(t)] = << >>

(* The grants to be recycled, and the grants that are listed *)
Pools ==
  /\ \A t \in Threads : \A g \in Elements(removed[t]) : Thread(g) = t /\ grant[g].n = 0
  /\ \A t \in Threads : Distinct(removed[t])
  /\ \A g \in LockGrants : grant[g].n = 1 =>
       grant[g].pos \in Positions /\ g \in Elements(lockGrants[grant[g].pos])

(* The scan of a thread *)
Scan(t) ==
  pc[t] = "scan" =>
    /\ scan[t].left # {} /\ scan[t].left \subseteq MatchingPositions(arg[t][2])
    /\ Len(scan[t].seen) >= Index(t) => scan[t].seen[Index(t)] = <<curGrants[t][1]>>
Scanning == \A t \in Threads : Scan(t)

StateInv == Shape /\ Args /\ Mutex /\ Requests /\ Holdings /\ Pools /\ Scanning

Live == {g \in LockGrants : grant[g].n = 1}

(* f is an instance of signature s. *)
IsInstance(s, f) ==
  /\ s \in DOMAIN History
  /\ f \in [DOMAIN History[s] -> Live \ through]
  /\ \A i \in DOMAIN f : grant[f[i]].pos = History[s][i]
  /\ \A i, j \in DOMAIN f : i = j \/ Disjoint(f[i], f[j])

(* The scan of the thread of f[j] is still to find out about f. *)
Pending(s, f, j) ==
  LET t == Thread(f[j]) IN
  /\ f[j] \in Elements(curGrants[t])
  /\ \/ pc[t] \in {"grant", "retract"}
     \/ /\ pc[t] = "scan"
        /\ \/ scan[t].cut
           \/ /\ <<s, j>> \in scan[t].left
              /\ At(t) = <<s, j>> =>
                   \A k \in DOMAIN scan[t].seen : k # j => f[k] \in Elements(scan[t].seen[k])

(* The grants are numbered so that the last one of an instance is pending. *)
Numbered(N, stamp) ==
  \A s \in DOMAIN History : \A f : \A j \in DOMAIN History[s] :
    IsInstance(s, f) /\ (\A i \in DOMAIN f : stamp[f[i]] <= stamp[f[j]]) => Pending(s, f, j)

LastIsPending == \E N \in Nat : \E stamp \in [LockGrants -> 0..N] : Numbered(N, stamp)

(* Least and greatest elements *)

LEMMA MinNat ==
  ASSUME NEW S \in SUBSET Nat, S # {}
  PROVE  \E m \in S : \A k \in S : m <= k
<1>1. PICK R : R = OpToRel(<, Nat)
  OBVIOUS
<1>2. PICK m \in S : \A k \in S : ~ (<<k, m>> \in R)
  BY <1>1, NatLessThanWellFounded, WFMin
<1>3. R = {x \in Nat \X Nat : x[1] < x[2]}
  BY <1>1, Zenon DEF OpToRel
<1>4. \A k \in S : ~ (k < m)
  BY <1>2, <1>3
<1> QED BY <1>4

LEMMA MaxIndex ==
  ASSUME NEW N \in Nat, NEW D, D # {}, NEW m \in [D -> 0..N]
  PROVE  \E j \in D : \A i \in D : m[i] <= m[j]
<1>1. PICK b \in {N - m[i] : i \in D} : \A k \in {N - m[i] : i \in D} : b <= k
  <2>1. {N - m[i] : i \in D} \in SUBSET Nat /\ {N - m[i] : i \in D} # {}
    OBVIOUS
  <2> QED BY <2>1, MinNat
<1>2. PICK j \in D : b = N - m[j]
  BY <1>1
<1>3. ASSUME NEW i \in D PROVE m[i] <= m[j]
  <2>1. N - m[j] <= N - m[i]
    BY <1>1, <1>2
  <2>2. m[i] \in 0..N /\ m[j] \in 0..N
    OBVIOUS
  <2> QED BY <2>1, <2>2
<1> QED BY <1>3

(* The scan goes to a place that is left, the least one. *)
Least(S) ==
  CHOOSE x \in S : \A y \in S \ {x} : x[1] < y[1] \/ (x[1] = y[1] /\ x[2] < y[2])

LEMMA AtIsLeast == \A t : At(t) = Least(scan[t].left)
  BY DEF At, Least

LEMMA LeastIsIn ==
  ASSUME NEW S \in SUBSET (Nat \X Nat), S # {}
  PROVE  Least(S) \in S
<1> DEFINE A == {x[1] : x \in S}
<1>1. A \in SUBSET Nat /\ A # {}
  OBVIOUS
<1>2. PICK a \in A : \A k \in A : a <= k
  BY <1>1, MinNat
<1> DEFINE B == {x[2] : x \in {x \in S : x[1] = a}}
<1>3. B \in SUBSET Nat /\ B # {}
  BY <1>2
<1>4. PICK b \in B : \A k \in B : b <= k
  BY <1>3, MinNat
<1>5. PICK x \in S : x[1] = a /\ x[2] = b
  BY <1>4
<1>6. \A y \in S \ {x} : x[1] < y[1] \/ (x[1] = y[1] /\ x[2] < y[2])
  <2> TAKE y \in S \ {x}
  <2>1. y \in Nat \X Nat /\ x \in Nat \X Nat /\ y # x
    OBVIOUS
  <2>2. a <= y[1]
    BY <1>2
  <2>3. CASE y[1] = a
    <3>1. b <= y[2]
      BY <1>4, <2>3
    <3>2. y[2] # b
      BY <2>1, <2>3, <1>5
    <3> QED BY <3>1, <3>2, <2>1, <2>3, <1>5
  <2> QED BY <2>1, <2>2, <2>3, <1>1, <1>2, <1>5
<1> QED BY <1>5, <1>6 DEF Least

(* Lists *)

LEMMA ElementsType ==
  ASSUME NEW S, NEW s \in Seq(S)
  PROVE  Elements(s) \in SUBSET S
<1>1. DOMAIN s = 1..Len(s) /\ \A i \in 1..Len(s) : s[i] \in S
  OBVIOUS
<1> QED BY <1>1 DEF Elements

LEMMA AppendElements ==
  ASSUME NEW S, NEW s \in Seq(S), NEW e \in S
  PROVE  Elements(Append(s, e)) = Elements(s) \cup {e}
<1>1. Append(s, e) \in Seq(S) /\ Len(Append(s, e)) = Len(s) + 1
  BY AppendProperties
<1>2. \A i \in 1..Len(s) : Append(s, e)[i] = s[i]
  BY AppendProperties
<1>3. Append(s, e)[Len(s) + 1] = e
  BY AppendProperties
<1>4. DOMAIN Append(s, e) = 1..(Len(s) + 1) /\ DOMAIN s = 1..Len(s) /\ Len(s) \in Nat
  BY <1>1
<1> QED BY <1>2, <1>3, <1>4 DEF Elements

LEMMA AppendDistinct ==
  ASSUME NEW S, NEW s \in Seq(S), NEW e \in S, Distinct(s), e \notin Elements(s)
  PROVE  Distinct(Append(s, e))
<1>1. Append(s, e) \in Seq(S) /\ Len(Append(s, e)) = Len(s) + 1
  BY AppendProperties
<1>2. \A i \in 1..Len(s) : Append(s, e)[i] = s[i]
  BY AppendProperties
<1>3. Append(s, e)[Len(s) + 1] = e
  BY AppendProperties
<1>4. DOMAIN Append(s, e) = 1..(Len(s) + 1) /\ DOMAIN s = 1..Len(s) /\ Len(s) \in Nat
  BY <1>1
<1> QED BY <1>2, <1>3, <1>4 DEF Elements, Distinct

LEMMA HeadTailElements ==
  ASSUME NEW S, NEW s \in Seq(S), s # << >>
  PROVE  /\ Head(s) \in Elements(s) /\ Tail(s) \in Seq(S)
         /\ Elements(Tail(s)) \subseteq Elements(s)
         /\ \A e \in Elements(s) : e # Head(s) => e \in Elements(Tail(s))
         /\ Distinct(s) => Distinct(Tail(s)) /\ Head(s) \notin Elements(Tail(s))
<1>1. /\ Tail(s) \in Seq(S) /\ Len(Tail(s)) = Len(s) - 1
      /\ \A i \in 1..Len(Tail(s)) : Tail(s)[i] = s[i + 1]
  BY HeadTailProperties
<1>2. Head(s) = s[1] /\ Len(s) \in Nat \ {0} /\ DOMAIN s = 1..Len(s)
  OBVIOUS
<1>3. DOMAIN Tail(s) = 1..(Len(s) - 1)
  BY <1>1
<1>4. Head(s) \in Elements(s) /\ Elements(Tail(s)) \subseteq Elements(s)
  BY <1>1, <1>2, <1>3 DEF Elements
<1>5. ASSUME NEW e \in Elements(s), e # Head(s) PROVE e \in Elements(Tail(s))
  <2>1. PICK i \in 1..Len(s) : s[i] = e
    BY <1>2 DEF Elements
  <2>2. i - 1 \in 1..(Len(s) - 1) /\ Tail(s)[i - 1] = e
    BY <1>1, <1>2, <1>5, <2>1
  <2> QED BY <2>2, <1>3 DEF Elements
<1>6. ASSUME Distinct(s) PROVE Distinct(Tail(s)) /\ Head(s) \notin Elements(Tail(s))
  BY <1>1, <1>2, <1>3, <1>6 DEF Distinct, Elements
<1> QED BY <1>1, <1>4, <1>5, <1>6

LEMMA PushElements ==
  ASSUME NEW S, NEW s \in Seq(S), NEW e \in S
  PROVE  /\ <<e>> \o s \in Seq(S)
         /\ Elements(<<e>> \o s) = Elements(s) \cup {e}
         /\ Distinct(s) /\ e \notin Elements(s) => Distinct(<<e>> \o s)
<1>1. <<e>> \in Seq(S) /\ Len(<<e>>) = 1 /\ <<e>>[1] = e
  OBVIOUS
<1>2. /\ <<e>> \o s \in Seq(S) /\ Len(<<e>> \o s) = Len(s) + 1
      /\ \A i \in 1..(Len(s) + 1) : (<<e>> \o s)[i] = IF i <= 1 THEN <<e>>[i] ELSE s[i - 1]
  BY <1>1, ConcatProperties
<1>3. DOMAIN (<<e>> \o s) = 1..(Len(s) + 1) /\ DOMAIN s = 1..Len(s) /\ Len(s) \in Nat
  BY <1>2
<1>4. (<<e>> \o s)[1] = e /\ \A i \in 1..Len(s) : (<<e>> \o s)[i + 1] = s[i]
  BY <1>1, <1>2, <1>3
<1>5. ASSUME NEW x \in Elements(<<e>> \o s) PROVE x \in Elements(s) \cup {e}
  BY <1>1, <1>2, <1>3 DEF Elements
<1>6. ASSUME NEW x \in Elements(s) PROVE x \in Elements(<<e>> \o s)
  <2>1. PICK i \in 1..Len(s) : s[i] = x
    BY <1>3 DEF Elements
  <2>2. i + 1 \in 1..(Len(s) + 1) /\ (<<e>> \o s)[i + 1] = x
    BY <2>1, <1>3, <1>4
  <2> QED BY <2>2, <1>3 DEF Elements
<1>7. e \in Elements(<<e>> \o s)
  BY <1>3, <1>4 DEF Elements
<1>8. ASSUME Distinct(s), e \notin Elements(s) PROVE Distinct(<<e>> \o s)
  BY <1>1, <1>2, <1>3, <1>8 DEF Distinct, Elements
<1> QED BY <1>2, <1>5, <1>6, <1>7, <1>8

LEMMA WithoutElements ==
  ASSUME NEW S, NEW s \in Seq(S), NEW e \in Elements(s)
  PROVE  /\ Without(s, e) \in Seq(S)
         /\ \A x \in Elements(s) : x # e => x \in Elements(Without(s, e))
<1>1. Len(s) \in Nat /\ DOMAIN s = 1..Len(s)
  OBVIOUS
<1> DEFINE i == CHOOSE i \in DOMAIN s : s[i] = e
           w == [j \in 1..(Len(s) - 1) |-> IF j < i THEN s[j] ELSE s[j + 1]]
<1>2. i \in 1..Len(s) /\ s[i] = e
  BY <1>1 DEF Elements
<1>3. Without(s, e) = w
  BY DEF Without
<1> HIDE DEF i
<1>4. w \in [1..(Len(s) - 1) -> S] /\ Len(s) - 1 \in Nat
  BY <1>1, <1>2
<1>5. w \in Seq(S) /\ DOMAIN w = 1..(Len(s) - 1)
  BY <1>4
<1>6. ASSUME NEW x \in Elements(s), x # e PROVE x \in Elements(w)
  <2>1. PICK j \in 1..Len(s) : s[j] = x
    BY <1>1 DEF Elements
  <2>2. CASE j < i
    <3>1. j \in 1..(Len(s) - 1) /\ w[j] = x
      BY <2>1, <2>2, <1>1, <1>2
    <3> QED BY <3>1, <1>5 DEF Elements
  <2>3. CASE j > i
    <3>1. j - 1 \in 1..(Len(s) - 1) /\ w[j - 1] = x
      BY <2>1, <2>3, <1>1, <1>2
    <3> QED BY <3>1, <1>5 DEF Elements
  <2> QED BY <2>1, <2>2, <2>3, <1>2, <1>6
<1> QED BY <1>3, <1>5, <1>6

(* The positions of signatures *)

LEMMA MatchingIs ==
  ASSUME NEW p, NEW x
  PROVE  x \in MatchingPositions(p) <=>
           \E s \in DOMAIN History : \E i \in DOMAIN History[s] : x = <<s, i>> /\ History[s][i] = p
  BY DEF MatchingPositions

LEMMA HistoryShape ==
  /\ DOMAIN History \in SUBSET Nat
  /\ \A s \in DOMAIN History : /\ History[s] \in Seq(Positions) /\ Len(History[s]) \in Nat
                               /\ DOMAIN History[s] = 1..Len(History[s])
                               /\ Len(History[s]) >= 2
  BY HistoryAssumption

LEMMA MatchingType == \A p : MatchingPositions(p) \in SUBSET (Nat \X Nat)
<1> SUFFICES ASSUME NEW p, NEW x \in MatchingPositions(p) PROVE x \in Nat \X Nat
  OBVIOUS
<1>1. PICK s \in DOMAIN History : \E i \in DOMAIN History[s] : x = <<s, i>>
  BY MatchingIs
<1>2. PICK i \in DOMAIN History[s] : x = <<s, i>>
  BY <1>1
<1>3. s \in Nat /\ i \in Nat
  BY HistoryShape
<1> QED BY <1>2, <1>3

LEMMA ScanFacts ==
  ASSUME StateInv, NEW t \in Threads, pc[t] = "scan"
  PROVE  /\ scan[t] = [left |-> scan[t].left, seen |-> scan[t].seen, cut |-> scan[t].cut]
         /\ scan[t].left \in SUBSET (Nat \X Nat) /\ scan[t].seen \in Seq(Seq(Entries))
         /\ At(t) \in scan[t].left /\ At(t) = <<At(t)[1], Index(t)>>
         /\ At(t)[1] \in DOMAIN History /\ Signature(t) = History[At(t)[1]]
         /\ Index(t) \in DOMAIN Signature(t) /\ Signature(t)[Index(t)] = arg[t][2]
         /\ Signature(t) \in Seq(Positions) /\ Len(Signature(t)) \in Nat
         /\ DOMAIN Signature(t) = 1..Len(Signature(t)) /\ Len(Signature(t)) >= 2
         /\ curGrants[t] \in Seq(LockGrants) /\ curGrants[t] # << >>
         /\ curGrants[t][1] \in LockGrants /\ curGrants[t][1] \in Elements(curGrants[t])
<1>1. scan[t] \in Scans
  BY DEF StateInv, Shape
<1>2. At(t) \in scan[t].left
  BY <1>1, AtIsLeast, LeastIsIn DEF Scans, StateInv, Scanning, Scan
<1>3. At(t) \in MatchingPositions(arg[t][2])
  BY <1>2 DEF StateInv, Scanning, Scan
<1>s. PICK s \in DOMAIN History :
        \E i \in DOMAIN History[s] : At(t) = <<s, i>> /\ History[s][i] = arg[t][2]
  BY <1>3, MatchingIs
<1>4. PICK i \in DOMAIN History[s] : At(t) = <<s, i>> /\ History[s][i] = arg[t][2]
  BY <1>s
<1>5. At(t)[1] = s /\ Index(t) = i /\ Signature(t) = History[s]
  BY <1>4 DEF Index, Signature
<1>6. curGrants[t] \in Seq(LockGrants) /\ curGrants[t] # << >>
  BY DEF StateInv, Shape, Requests, Request
<1>7. curGrants[t][1] \in LockGrants /\ 1 \in DOMAIN curGrants[t]
  BY <1>6
<1>8. curGrants[t][1] \in Elements(curGrants[t])
  BY <1>7 DEF Elements
<1>9. /\ scan[t] = [left |-> scan[t].left, seen |-> scan[t].seen, cut |-> scan[t].cut]
      /\ scan[t].left \in SUBSET (Nat \X Nat) /\ scan[t].seen \in Seq(Seq(Entries))
  BY <1>1 DEF Scans
<1> QED BY <1>2, <1>4, <1>5, <1>6, <1>7, <1>8, <1>9, HistoryShape

(* What the actions do with grants and scans *)

GrantStep(t, g, p) ==
  /\ pc[t] = "grant" /\ p = arg[t][2] /\ p \in Positions /\ MatchingPositions(p) # {}
  /\ g \in LockGrants /\ Thread(g) = t /\ grant[g].n = 0 /\ Lock(t) \in Locks
  /\ grant' = [grant EXCEPT ![g] = [lock |-> Lock(t), pos |-> p, n |-> 1]]
  /\ removed' = [removed EXCEPT ![t] = removed'[t]] /\ removed'[t] \in Seq(LockGrants)
  /\ Elements(removed'[t]) \subseteq Elements(removed[t]) /\ g \notin Elements(removed'[t])
  /\ Distinct(removed'[t])
  /\ lockGrants' = [lockGrants EXCEPT ![p] = lockGrants'[p]]
  /\ lockGrants'[p] \in Seq(LockGrants)
  /\ Elements(lockGrants'[p]) = Elements(lockGrants[p]) \cup {g}
  /\ curGrants' = [curGrants EXCEPT ![t] = curGrants'[t]]
  /\ curGrants'[t] \in Seq(LockGrants) /\ curGrants'[t] # << >>
  /\ Elements(curGrants'[t]) = Elements(curGrants[t]) \cup {g}
  /\ g \notin Elements(curGrants[t]) /\ Distinct(curGrants'[t])
  /\ \/ pc' = pc /\ scan' = scan
     \/ /\ pc' = [pc EXCEPT ![t] = "scan"]
        /\ scan' = [scan EXCEPT ![t] = ScanOf(MatchingPositions(p))]
  /\ UNCHANGED <<arg, holder, owner, acqGrants, through>>

LEMMA GrantEffect ==
  ASSUME StateInv, NEW t \in Threads, Grant(t), NEW g, g = Head(removed[t]), NEW p, p = arg[t][2]
  PROVE  GrantStep(t, g, p)
<1>1. pc[t] = "grant" /\ removed[t] # << >> /\ removed[t] \in Seq(LockGrants)
  BY DEF StateInv, Shape, Grant
<1>2. p \in Positions /\ MatchingPositions(p) # {} /\ Lock(t) \in Locks
  BY <1>1 DEF StateInv, Args, InHistory, WithArg, Granted, Asking, Lock
<1>3. /\ g \in Elements(removed[t]) /\ Tail(removed[t]) \in Seq(LockGrants)
      /\ Elements(Tail(removed[t])) \subseteq Elements(removed[t])
      /\ Distinct(Tail(removed[t])) /\ g \notin Elements(Tail(removed[t]))
  BY <1>1, HeadTailElements DEF StateInv, Pools
<1>4. g \in LockGrants
  BY <1>1
<1>5. Thread(g) = t /\ grant[g].n = 0
  BY <1>3 DEF StateInv, Pools
<1>6. removed' = [removed EXCEPT ![t] = Tail(removed[t])] /\ removed'[t] = Tail(removed[t])
  BY DEF Grant, StateInv, Shape
<1>7. lockGrants' = [lockGrants EXCEPT ![p] = Append(lockGrants[p], g)]
      /\ lockGrants'[p] = Append(lockGrants[p], g) /\ lockGrants[p] \in Seq(LockGrants)
  BY <1>2 DEF Grant, StateInv, Shape
<1>8. lockGrants'[p] \in Seq(LockGrants) /\ Elements(lockGrants'[p]) = Elements(lockGrants[p]) \cup {g}
  BY <1>4, <1>7, AppendElements, AppendProperties
<1>9. curGrants' = [curGrants EXCEPT ![t] = Append(curGrants[t], g)]
      /\ curGrants'[t] = Append(curGrants[t], g) /\ curGrants[t] \in Seq(LockGrants)
  BY DEF Grant, StateInv, Shape
<1>10. g \notin Elements(curGrants[t])
  BY <1>1, <1>5 DEF StateInv, Requests, Request, Holdings, Holding
<1>11. curGrants'[t] \in Seq(LockGrants) /\ Elements(curGrants'[t]) = Elements(curGrants[t]) \cup {g}
       /\ Distinct(curGrants'[t]) /\ curGrants'[t] # << >>
  <2>1. curGrants'[t] \in Seq(LockGrants) /\ curGrants'[t] # << >>
    BY <1>4, <1>9, AppendProperties
  <2>2. Elements(curGrants'[t]) = Elements(curGrants[t]) \cup {g}
    BY <1>4, <1>9, AppendElements
  <2>3. Distinct(curGrants[t])
    BY DEF StateInv, Requests, Request, Holdings, Holding
  <2>4. Distinct(curGrants'[t])
    BY <1>4, <1>9, <1>10, <2>3, AppendDistinct
  <2> QED BY <2>1, <2>2, <2>4
<1>12. /\ \/ pc' = pc /\ scan' = scan
          \/ /\ pc' = [pc EXCEPT ![t] = "scan"]
             /\ scan' = [scan EXCEPT ![t] = ScanOf(MatchingPositions(p))]
       /\ UNCHANGED <<arg, holder, owner, acqGrants, through>>
       /\ grant' = [grant EXCEPT ![g] = [lock |-> Lock(t), pos |-> p, n |-> 1]]
  BY DEF Grant, Goto, lockVars
<1> QED BY <1>1, <1>2, <1>3, <1>4, <1>5, <1>6, <1>7, <1>8, <1>9, <1>10, <1>11, <1>12 DEF GrantStep

LookStep(t, k) ==
  /\ pc[t] = "scan" /\ k \in 1..Len(Signature(t))
  /\ scan' = [scan EXCEPT ![t] = scan'[t]] /\ scan'[t] \in Scans
  /\ scan'[t].left = scan[t].left
  /\ scan[t].cut => scan'[t].cut
  /\ Len(scan'[t].seen) = k /\ DOMAIN scan'[t].seen = 1..k
  /\ \A i \in 1..(k - 1) : i \in DOMAIN scan[t].seen /\ scan'[t].seen[i] = scan[t].seen[i]
  /\ k = Index(t) => scan'[t].seen[k] = <<curGrants[t][1]>>
  /\ k # Index(t) => scan'[t].cut \/ scan'[t].seen[k] = lockGrants[Signature(t)[k]]
  /\ UNCHANGED <<pc, arg, holder, owner, grantVars, curGrants, acqGrants, through>>

LEMMA LookEffect ==
  ASSUME StateInv, NEW t \in Threads, Look(t), NEW k, k = Len(scan[t].seen) + 1
  PROVE  LookStep(t, k)
<1> DEFINE list == lockGrants[Signature(t)[k]]
           gaps == [j \in DOMAIN list |-> IF skip[grant[list[j]].lock] THEN NULL ELSE list[j]]
           e == IF k = Index(t) THEN <<curGrants[t][1]>> ELSE gaps
           cut == scan[t].cut \/ (k # Index(t) /\ \E j \in DOMAIN list : skip[grant[list[j]].lock])
<1>1. pc[t] = "scan"
  BY DEF Look
<1>2. k \in 1..Len(Signature(t)) /\ Signature(t)[k] \in Positions
  <2>1. k <= Len(Signature(t))
    BY DEF Look
  <2>2. /\ scan[t].seen \in Seq(Seq(Entries))
        /\ Len(Signature(t)) \in Nat /\ Signature(t) \in Seq(Positions)
    BY <1>1, ScanFacts
  <2>3. Len(scan[t].seen) \in Nat
    BY <2>2
  <2>4. k \in 1..Len(Signature(t))
    BY <2>1, <2>2, <2>3
  <2> QED BY <2>2, <2>4
<1>3. list \in Seq(LockGrants)
  BY <1>2 DEF StateInv, Shape
<1>4. gaps \in Seq(Entries)
  <2>1. PICK q \in Seq(LockGrants) : q = list
    BY <1>3
  <2>2. PICK n \in Nat : DOMAIN q = 1..n /\ \A j \in 1..n : q[j] \in LockGrants
    BY <2>1
  <2>3. gaps = [j \in 1..n |-> IF skip[grant[q[j]].lock] THEN NULL ELSE q[j]]
    BY <2>1, <2>2
  <2>4. \A j \in 1..n : (IF skip[grant[q[j]].lock] THEN NULL ELSE q[j]) \in Entries
    BY <2>2 DEF Entries
  <2>5. gaps \in [1..n -> Entries]
    BY <2>3, <2>4
  <2> HIDE DEF gaps
  <2> QED BY <2>2, <2>5
<1>5. e \in Seq(Entries)
  <2>1. curGrants[t][1] \in Entries
    BY <1>1, ScanFacts DEF Entries
  <2>2. <<curGrants[t][1]>> \in Seq(Entries)
    BY <2>1
  <2> HIDE DEF gaps
  <2> QED BY <1>4, <2>2
<1>6. cut \/ k = Index(t) \/ gaps = list
  <2>1. SUFFICES ASSUME \A j \in DOMAIN list : ~ skip[grant[list[j]].lock] PROVE gaps = list
    OBVIOUS
  <2>2. gaps = [j \in DOMAIN list |-> list[j]]
    BY <2>1
  <2>3. list = [j \in DOMAIN list |-> list[j]]
    BY <1>3
  <2> QED BY <2>2, <2>3
<1>7. cut \in BOOLEAN
  BY DEF StateInv, Shape, Scans
<1>8. /\ scan[t] \in Scans
      /\ scan' = [scan EXCEPT ![t] = [left |-> scan[t].left, seen |-> Append(scan[t].seen, e),
                                      cut |-> cut]]
      /\ UNCHANGED <<pc, arg, holder, owner, grantVars, curGrants, acqGrants, through>>
  <2>1. scan \in [Threads -> Scans] /\ scan[t] \in Scans
    BY DEF StateInv, Shape
  <2>2. scan' = [scan EXCEPT ![t] = [left |-> scan[t].left, seen |-> Append(scan[t].seen, e),
                                    cut |-> cut]]
    BY DEF Look
  <2>3. UNCHANGED <<pc, arg, holder, owner, grantVars, curGrants, acqGrants, through>>
    BY DEF Look, lockVars
  <2> QED BY <2>1, <2>2, <2>3
<1>9. scan[t].cut => cut
  OBVIOUS
<1>10. k = Index(t) => e = <<curGrants[t][1]>>
  OBVIOUS
<1>11. k # Index(t) => e = gaps
  OBVIOUS
<1> HIDE DEF e, cut, gaps
<1>12. scan[t].seen \in Seq(Seq(Entries))
  BY <1>8 DEF Scans
<1>13. /\ Append(scan[t].seen, e) \in Seq(Seq(Entries))
       /\ Len(Append(scan[t].seen, e)) = k
       /\ \A i \in 1..Len(scan[t].seen) : Append(scan[t].seen, e)[i] = scan[t].seen[i]
       /\ Append(scan[t].seen, e)[k] = e
  BY <1>5, <1>12, AppendProperties
<1>14. scan'[t] = [left |-> scan[t].left, seen |-> Append(scan[t].seen, e), cut |-> cut]
       /\ scan' = [scan EXCEPT ![t] = scan'[t]]
  BY <1>8 DEF StateInv, Shape
<1>15. /\ scan'[t].seen = Append(scan[t].seen, e) /\ scan'[t].left = scan[t].left
       /\ scan'[t].cut = cut /\ scan'[t] \in Scans
  <2>1. scan[t].left \in SUBSET (Nat \X Nat)
    BY <1>8 DEF Scans
  <2> QED BY <1>7, <1>13, <1>14, <2>1 DEF Scans
<1>16. /\ DOMAIN scan'[t].seen = 1..k
       /\ \A i \in 1..(k - 1) : i \in DOMAIN scan[t].seen /\ scan'[t].seen[i] = scan[t].seen[i]
  <2>1. Len(scan[t].seen) = k - 1 /\ DOMAIN scan[t].seen = 1..(k - 1) /\ k \in Nat
    BY <1>12
  <2> QED BY <2>1, <1>13, <1>15
<1>17. scan[t].cut => scan'[t].cut
  BY <1>9, <1>15
<1>18. k = Index(t) => scan'[t].seen[k] = <<curGrants[t][1]>>
  BY <1>10, <1>13, <1>15
<1>19. k # Index(t) => scan'[t].cut \/ scan'[t].seen[k] = list
  BY <1>6, <1>11, <1>13, <1>15
<1> QED BY <1>1, <1>2, <1>8, <1>13, <1>14, <1>15, <1>16, <1>17, <1>18, <1>19 DEF LookStep

DecideStep(t) ==
  /\ pc[t] = "scan" /\ Len(scan[t].seen) = Len(Signature(t))
  /\ scan' = [scan EXCEPT ![t] = scan'[t]] /\ scan'[t] \in Scans
  /\ UNCHANGED <<arg, holder, owner, grantVars, curGrants, acqGrants>>
  /\ \/ /\ Instances(scan[t].seen) # {}
        /\ pc' = [pc EXCEPT ![t] = "retract"] /\ through' = through
     \/ /\ Instances(scan[t].seen) = {} \/ scan'[t].cut
        /\ scan[t].cut => scan'[t].cut
        /\ scan'[t].left = scan[t].left \ {At(t)} /\ scan'[t].left # {}
        /\ scan'[t].seen = << >> /\ pc' = pc /\ through' = through
     \/ /\ scan[t].left \ {At(t)} = {}
        /\ \/ Instances(scan[t].seen) = {} /\ ~ scan[t].cut /\ through' = through
           \/ through' = through \cup Elements(curGrants[t])
        /\ pc' = [pc EXCEPT ![t] = "entering"]

LEMMA DecideEffect ==
  ASSUME StateInv, NEW t \in Threads, Decide(t)
  PROVE  DecideStep(t)
<1>1. pc[t] = "scan" /\ Len(scan[t].seen) = Len(Signature(t))
  BY DEF Decide
<1>2. scan[t].left \in SUBSET (Nat \X Nat)
  BY <1>1, ScanFacts
<1>3. UNCHANGED <<arg, holder, owner, grantVars, curGrants, acqGrants>>
  BY DEF Decide, lockVars
<1> DEFINE rest == scan[t].left \ {At(t)}
<1>4. PICK skipped \in BOOLEAN :
        \/ /\ Instances(scan[t].seen) # {} /\ ~skipped
           /\ scan' = [scan EXCEPT ![t] = ScanOf({})]
           /\ Goto(t, "retract")
           /\ UNCHANGED <<toSkip, through>>
        \/ /\ Instances(scan[t].seen) = {} \/ skipped
           /\ rest # {}
           /\ scan' = [scan EXCEPT ![t] = [left |-> rest, seen |-> << >>,
                                           cut |-> (scan[t].cut \/ skipped)]]
           /\ pc' = pc /\ through' = through
        \/ /\ Instances(scan[t].seen) = {} \/ skipped
           /\ rest = {}
           /\ scan' = [scan EXCEPT ![t] = ScanOf({})]
           /\ through' = IF scan[t].cut \/ skipped THEN through \cup Elements(curGrants[t]) ELSE through
           /\ Goto(t, "entering")
  BY DEF Decide
<1> HIDE DEF rest
<1>5. scan \in [Threads -> Scans]
  BY DEF StateInv, Shape
<1>6. rest \in SUBSET (Nat \X Nat)
  BY <1>2 DEF rest
<1>7. << >> \in Seq(Seq(Entries))
  OBVIOUS
<1>8. CASE /\ Instances(scan[t].seen) # {} /\ ~skipped
           /\ scan' = [scan EXCEPT ![t] = ScanOf({})]
           /\ Goto(t, "retract")
           /\ UNCHANGED <<toSkip, through>>
  <2>1. scan'[t] = [left |-> {}, seen |-> << >>, cut |-> FALSE]
    BY <1>5, <1>8 DEF ScanOf
  <2>2. scan'[t] \in Scans /\ scan' = [scan EXCEPT ![t] = scan'[t]]
    BY <1>5, <1>7, <1>8, <2>1 DEF Scans, ScanOf
  <2> QED BY <1>1, <1>3, <1>8, <2>2 DEF Goto, DecideStep
<1>9. CASE /\ Instances(scan[t].seen) = {} \/ skipped
           /\ rest # {}
           /\ scan' = [scan EXCEPT ![t] = [left |-> rest, seen |-> << >>,
                                           cut |-> (scan[t].cut \/ skipped)]]
           /\ pc' = pc /\ through' = through
  <2>1. scan'[t] = [left |-> rest, seen |-> << >>, cut |-> (scan[t].cut \/ skipped)]
    BY <1>5, <1>9
  <2>2. scan'[t] \in Scans /\ scan' = [scan EXCEPT ![t] = scan'[t]]
    BY <1>5, <1>6, <1>7, <1>9, <2>1 DEF Scans
  <2>3. scan'[t].left = rest /\ scan'[t].seen = << >>
    BY <2>1
  <2>4. scan'[t].cut = (scan[t].cut \/ skipped)
    BY <2>1
  <2>5. skipped => scan'[t].cut
    BY <2>4, Zenon
  <2>6. scan[t].cut => scan'[t].cut
    BY <2>4, Zenon
  <2> QED BY <1>1, <1>3, <1>9, <2>2, <2>3, <2>5, <2>6 DEF rest, DecideStep
<1>10. CASE /\ Instances(scan[t].seen) = {} \/ skipped
            /\ rest = {}
            /\ scan' = [scan EXCEPT ![t] = ScanOf({})]
            /\ through' = IF scan[t].cut \/ skipped THEN through \cup Elements(curGrants[t]) ELSE through
            /\ Goto(t, "entering")
  <2>1. scan'[t] = [left |-> {}, seen |-> << >>, cut |-> FALSE]
    BY <1>5, <1>10 DEF ScanOf
  <2>2. scan'[t] \in Scans /\ scan' = [scan EXCEPT ![t] = scan'[t]]
    BY <1>5, <1>7, <1>10, <2>1 DEF Scans, ScanOf
  <2> QED BY <1>1, <1>3, <1>10, <2>2 DEF Goto, rest, DecideStep
<1> QED BY <1>4, <1>8, <1>9, <1>10

(* The grant a thread takes back is its own. *)
TakesBack(t, g) ==
  /\ g \in LockGrants /\ Thread(g) = t
  /\ Ungranting(t) \in Seq(LockGrants)
  /\ \/ /\ pc[t] = "retract" /\ Ungranting(t) = curGrants[t]
        /\ g \in Elements(curGrants[t]) /\ g = Head(curGrants[t])
     \/ /\ pc[t] = "ungrant" /\ Ungranting(t) = acqGrants[Lock(t)] /\ Lock(t) \in Locks
        /\ g \in Elements(acqGrants[Lock(t)]) /\ g = Head(acqGrants[Lock(t)])

LEMMA UngrantingHead ==
  ASSUME StateInv, NEW t \in Threads, Ungranting(t) # << >>, NEW g, g = Head(Ungranting(t))
  PROVE  TakesBack(t, g)
<1>1. CASE pc[t] = "retract"
  <2>1. Ungranting(t) = curGrants[t] /\ curGrants[t] \in Seq(LockGrants)
    BY <1>1 DEF Ungranting, StateInv, Shape
  <2>2. g \in LockGrants /\ g \in Elements(curGrants[t])
    BY <2>1, HeadTailElements
  <2> QED BY <1>1, <2>1, <2>2 DEF StateInv, Requests, Request, Holdings, Holding, TakesBack
<1>2. CASE pc[t] = "ungrant"
  <2>1. Lock(t) \in Locks /\ holder[Lock(t)] = t
    BY <1>2 DEF StateInv, Args, WithArg, Lock, Mutex, Owning
  <2>2. Ungranting(t) = acqGrants[Lock(t)] /\ acqGrants[Lock(t)] \in Seq(LockGrants)
    BY <1>2, <2>1 DEF Ungranting, StateInv, Shape
  <2>3. g \in LockGrants /\ g \in Elements(acqGrants[Lock(t)])
    BY <2>2, HeadTailElements
  <2> QED BY <1>2, <2>1, <2>2, <2>3 DEF StateInv, Requests, Request, Holdings, Holding, TakesBack
<1> QED BY <1>1, <1>2 DEF Ungranting

UngrantStep(t, g) ==
  /\ TakesBack(t, g)
  /\ Ungranting(t) # << >> /\ grant[g].n = 1 /\ grant[g].pos \in Positions
  /\ grant' = [grant EXCEPT ![g] = [lock |-> grant[g].lock, pos |-> grant[g].pos, n |-> 0]]
  /\ lockGrants' = [lockGrants EXCEPT ![grant[g].pos] = lockGrants'[grant[g].pos]]
  /\ lockGrants'[grant[g].pos] \in Seq(LockGrants)
  /\ \A h \in Elements(lockGrants[grant[g].pos]) :
       h # g => h \in Elements(lockGrants'[grant[g].pos])
  /\ removed' = [removed EXCEPT ![t] = removed'[t]] /\ removed'[t] \in Seq(LockGrants)
  /\ Elements(removed'[t]) = Elements(removed[t]) \cup {g} /\ Distinct(removed'[t])
  /\ UNCHANGED <<pc, arg, holder, owner, scan, curGrants, acqGrants, through>>

LEMMA UngrantEffect ==
  ASSUME StateInv, NEW t \in Threads, Ungrant(t), NEW g, g = Head(Ungranting(t))
  PROVE  UngrantStep(t, g)
<1>1. /\ Ungranting(t) # << >> /\ grant[g].n = 1
      /\ grant' = [grant EXCEPT ![g].n = 0]
      /\ lockGrants' = [lockGrants EXCEPT ![grant[g].pos] = Without(lockGrants[grant[g].pos], g)]
      /\ removed' = [removed EXCEPT ![t] = <<g>> \o removed[t]]
      /\ UNCHANGED <<pc, arg, holder, owner, scan, curGrants, acqGrants, through>>
  BY DEF Ungrant, lockVars, scanVars
<1>2. g \in LockGrants /\ Thread(g) = t
  BY <1>1, UngrantingHead DEF TakesBack
<1>3. grant[g].pos \in Positions /\ g \in Elements(lockGrants[grant[g].pos])
  BY <1>1, <1>2 DEF StateInv, Pools
<1>4. grant' = [grant EXCEPT ![g] = [lock |-> grant[g].lock, pos |-> grant[g].pos, n |-> 0]]
  <2>1. grant[g] = [lock |-> grant[g].lock, pos |-> grant[g].pos, n |-> grant[g].n]
    BY <1>2 DEF StateInv, Shape
  <2>2. [grant[g] EXCEPT !.n = 0] = [lock |-> grant[g].lock, pos |-> grant[g].pos, n |-> 0]
    BY <2>1
  <2>3. grant' = [grant EXCEPT ![g] = [grant[g] EXCEPT !.n = 0]]
    BY <1>1
  <2> QED BY <2>2, <2>3
<1>5. lockGrants \in [Positions -> Seq(LockGrants)] /\ removed \in [Threads -> Seq(LockGrants)]
  BY DEF StateInv, Shape
<1>6. lockGrants'[grant[g].pos] = Without(lockGrants[grant[g].pos], g)
  BY <1>1, <1>3, <1>5
<1>7. /\ lockGrants'[grant[g].pos] \in Seq(LockGrants)
      /\ \A h \in Elements(lockGrants[grant[g].pos]) :
           h # g => h \in Elements(lockGrants'[grant[g].pos])
  BY <1>3, <1>5, <1>6, WithoutElements
<1>8. removed'[t] = <<g>> \o removed[t] /\ removed[t] \in Seq(LockGrants)
  BY <1>1, <1>5
<1>9. g \notin Elements(removed[t]) /\ Distinct(removed[t])
  BY <1>1 DEF StateInv, Pools
<1>10. /\ removed'[t] \in Seq(LockGrants)
       /\ Elements(removed'[t]) = Elements(removed[t]) \cup {g} /\ Distinct(removed'[t])
  BY <1>2, <1>8, <1>9, PushElements
<1>11. /\ lockGrants' = [lockGrants EXCEPT ![grant[g].pos] = lockGrants'[grant[g].pos]]
       /\ removed' = [removed EXCEPT ![t] = removed'[t]]
  BY <1>1, <1>6, <1>8
<1> QED BY <1>1, <1>3, <1>4, <1>7, <1>10, <1>11, UngrantingHead DEF UngrantStep

WakeUpStep(t, g, rest) ==
  /\ TakesBack(t, g)
  /\ Ungranting(t) # << >> /\ grant[g].n = 0
  /\ rest \in Seq(LockGrants) /\ Elements(rest) \subseteq Elements(Ungranting(t))
  /\ \A h \in Elements(Ungranting(t)) : h # g => h \in Elements(rest)
  /\ Distinct(rest) /\ g \notin Elements(rest)
  /\ pc' = [u \in Threads |-> pc'[u]]
  /\ \A u \in Threads \ {t} : pc'[u] = pc[u] \/ (pc[u] = "waiting" /\ pc'[u] = "grant")
  /\ \/ pc[t] = "retract" /\ curGrants' = [curGrants EXCEPT ![t] = rest] /\ acqGrants' = acqGrants
        /\ pc'[t] = IF rest = << >> THEN "readlock" ELSE "retract"
     \/ pc[t] = "ungrant" /\ acqGrants' = [acqGrants EXCEPT ![Lock(t)] = rest] /\ curGrants' = curGrants
        /\ pc'[t] = IF rest = << >> THEN "leaving" ELSE "ungrant"
  /\ through' = through \ {g}
  /\ UNCHANGED <<arg, holder, owner, lockGrants, grant, removed, scan>>

LEMMA WakeUpEffect ==
  ASSUME StateInv, NEW t \in Threads, WakeUp(t), NEW g, g = Head(Ungranting(t)),
         NEW rest, rest = Tail(Ungranting(t))
  PROVE  WakeUpStep(t, g, rest)
<1>1. /\ Ungranting(t) # << >> /\ grant[g].n = 0
      /\ through' = through \ {g}
      /\ UNCHANGED <<arg, holder, owner, lockGrants, grant, removed, scan>>
  BY DEF WakeUp, lockVars, grantVars, scanVars
<1>2. pc[t] \in {"retract", "ungrant"} /\ Ungranting(t) \in Seq(LockGrants)
  BY <1>1, UngrantingHead DEF TakesBack
<1>3. Distinct(Ungranting(t))
  BY <1>1, UngrantingHead DEF StateInv, Requests, Request, Holdings, Holding, TakesBack
<1>4. /\ rest \in Seq(LockGrants) /\ Elements(rest) \subseteq Elements(Ungranting(t))
      /\ \A h \in Elements(Ungranting(t)) : h # g => h \in Elements(rest)
      /\ Distinct(rest) /\ g \notin Elements(rest)
  BY <1>1, <1>2, <1>3, HeadTailElements
<1>5. /\ pc' = [u \in Threads |-> IF u = t
                 THEN IF rest # << >> THEN pc[t] ELSE IF pc[t] = "retract" THEN "readlock" ELSE "leaving"
                 ELSE IF u \in yielders[g] /\ pc[u] = "waiting" THEN "grant" ELSE pc[u]]
      /\ curGrants' = IF pc[t] = "retract" THEN [curGrants EXCEPT ![t] = rest] ELSE curGrants
      /\ acqGrants' = IF pc[t] = "ungrant" THEN [acqGrants EXCEPT ![Lock(t)] = rest] ELSE acqGrants
  BY DEF WakeUp
<1>6. /\ pc' = [u \in Threads |-> pc'[u]]
      /\ \A u \in Threads \ {t} : pc'[u] = pc[u] \/ (pc[u] = "waiting" /\ pc'[u] = "grant")
      /\ pc'[t] = IF rest # << >> THEN pc[t] ELSE IF pc[t] = "retract" THEN "readlock" ELSE "leaving"
  BY <1>5
<1> QED BY <1>1, <1>2, <1>4, <1>5, <1>6, UngrantingHead DEF WakeUpStep

ReleaseStep(t, l) ==
  /\ pc[t] = "idle" /\ owner[l] = t
  /\ \/ UNCHANGED <<owner, arg, pc>>
     \/ /\ owner' = [owner EXCEPT ![l] = NULL]
        /\ arg' = [arg EXCEPT ![t] = <<l, NULL>>] /\ arg'[t] = <<l, NULL>>
        /\ pc' = [pc EXCEPT ![t] = pc'[t]]
        /\ (pc'[t] = "leaving" /\ acqGrants[l] = << >>) \/ pc'[t] = "ungrant"
  /\ UNCHANGED <<holder, lockGrants, grant, removed, scan, curGrants, acqGrants, through>>

LEMMA ReleaseEffect ==
  ASSUME StateInv, NEW t \in Threads, NEW l \in Locks, Release(t, l)
  PROVE  ReleaseStep(t, l)
<1>1. /\ pc[t] = "idle" /\ owner[l] = t
      /\ UNCHANGED <<holder, lockGrants, grant, removed, scan, curGrants, acqGrants, through>>
  BY DEF Release, grantVars, scanVars
<1>2. CASE nlck[l] = 1
  <2>1. /\ owner' = [owner EXCEPT ![l] = NULL]
        /\ arg' = [arg EXCEPT ![t] = <<l, NULL>>]
        /\ pc' = [pc EXCEPT ![t] = IF acqGrants[l] = << >> THEN "leaving" ELSE "ungrant"]
    BY <1>2 DEF Release, Goto
  <2>2. arg'[t] = <<l, NULL>> /\ pc'[t] = IF acqGrants[l] = << >> THEN "leaving" ELSE "ungrant"
    BY <2>1 DEF StateInv, Shape
  <2> QED BY <1>1, <2>1, <2>2 DEF ReleaseStep
<1>3. CASE nlck[l] # 1
  BY <1>1, <1>3 DEF Release, ReleaseStep
<1> QED BY <1>2, <1>3

SkipStep(t) ==
  /\ pc' = [u \in Threads |-> pc'[u]]
  /\ \A u \in Threads : pc'[u] = pc[u] \/ (pc[u] = "waiting" /\ pc'[u] = "grant")
  /\ \A u \in Threads, g \in LockGrants : pc'[u] = "waiting" /\ u \in yielders[g] => u \in yielders'[g]
  /\ yielders' = [g \in LockGrants |-> yielders'[g]]
  /\ \A g \in LockGrants : yielders'[g] \in {yielders[g], {}}
  /\ UNCHANGED <<arg, holder, owner, nlck, lockGrants, grant, removed, readers, writer, scan,
                 curInstance, curGrants, acqGrants, toSkip, found, through>>

LEMMA SkipEffect ==
  ASSUME NEW t \in Threads, NEW s, NEW i, SkipAvoidance(t, s, i)
  PROVE  SkipStep(t)
<1>1. UNCHANGED <<arg, holder, owner, nlck, lockGrants, grant, removed, readers, writer, scan,
                 curInstance, curGrants, acqGrants, toSkip, found, through>>
  BY DEF SkipAvoidance, grantVars, scanVars
<1>2. PICK G :
        /\ pc' = [u \in Threads |-> IF pc[u] = "waiting" /\ \E g \in G : u \in yielders[g]
                                    THEN "grant" ELSE pc[u]]
        /\ yielders' = [g \in LockGrants |-> IF g \in G THEN {} ELSE yielders[g]]
  BY DEF SkipAvoidance
<1> QED BY <1>1, <1>2 DEF SkipStep

(* What the functions and sequences are. *)
LEMMA ShapeStep == StateInv /\ [Next]_vars => Shape'
<1> SUFFICES ASSUME StateInv, [Next]_vars PROVE Shape'
  OBVIOUS
<1>0. CASE UNCHANGED vars
  BY <1>0 DEF vars, lockVars, grantVars, waitVars, scanVars, StateInv, Shape
<1>1. CASE CheckForYieldCycles
  BY <1>1 DEF CheckForYieldCycles, lockVars, grantVars, waitVars, scanVars, StateInv, Shape
<1>2. ASSUME NEW t \in Threads, NEW l \in Locks, NEW p \in Positions, Avoidance(t, l, p) PROVE Shape'
  BY <1>2 DEF Avoidance, Goto, lockVars, grantVars, waitVars, scanVars, StateInv, Shape
<1>3. ASSUME NEW t \in Threads, NEW l \in Locks, Reenter(t, l) PROVE Shape'
  BY <1>3 DEF Reenter, Goto, lockVars, grantVars, waitVars, scanVars, StateInv, Shape
<1>4. ASSUME NEW t \in Threads, NEW l \in Locks, Release(t, l) PROVE Shape'
  <2>1. ReleaseStep(t, l)
    BY <1>4, ReleaseEffect
  <2> QED BY <2>1 DEF ReleaseStep, StateInv, Shape
<1>5. ASSUME NEW t \in Threads, Grant(t) PROVE Shape'
  <2>1. PICK g, p : GrantStep(t, g, p)
    BY <1>5, GrantEffect
  <2>2. ScanOf(MatchingPositions(p)) \in Scans
    BY MatchingType DEF Scans, ScanOf
  <2>3. \A h \in LockGrants : grant'[h] = [lock |-> grant'[h].lock, pos |-> grant'[h].pos,
                                         n |-> grant'[h].n]
    BY <2>1 DEF GrantStep, StateInv, Shape
  <2>4. scan' \in [Threads -> Scans]
    BY <2>1, <2>2 DEF GrantStep, StateInv, Shape
  <2>5. lockGrants' \in [Positions -> Seq(LockGrants)]
    BY <2>1 DEF GrantStep, StateInv, Shape
  <2>6. removed' \in [Threads -> Seq(LockGrants)]
    BY <2>1 DEF GrantStep, StateInv, Shape
  <2>7. curGrants' \in [Threads -> Seq(LockGrants)]
    BY <2>1 DEF GrantStep, StateInv, Shape
  <2>8. grant' = [h \in LockGrants |-> grant'[h]]
    BY <2>1 DEF GrantStep, StateInv, Shape
  <2>9. pc' = [u \in Threads |-> pc'[u]]
    BY <2>1 DEF GrantStep, StateInv, Shape
  <2> QED BY <2>1, <2>3, <2>4, <2>5, <2>6, <2>7, <2>8, <2>9 DEF GrantStep, StateInv, Shape
<1>6. ASSUME NEW t \in Threads, Look(t) PROVE Shape'
  <2>1. PICK k : LookStep(t, k)
    BY <1>6, LookEffect
  <2> QED BY <2>1 DEF LookStep, grantVars, StateInv, Shape
<1>7. ASSUME NEW t \in Threads, Decide(t) PROVE Shape'
  <2>1. DecideStep(t)
    BY <1>7, DecideEffect
  <2> QED BY <2>1 DEF DecideStep, grantVars, StateInv, Shape
<1>8. ASSUME NEW t \in Threads, Enter(t) PROVE Shape'
  BY <1>8 DEF Enter, Goto, lockVars, grantVars, waitVars, scanVars, StateInv, Shape
<1>9. ASSUME NEW t \in Threads, Acquire(t) PROVE Shape'
  <2>1. Lock(t) \in Locks /\ << >> \in Seq(LockGrants)
    BY <1>9 DEF Acquire, StateInv, Args, WithArg, Granted, Lock
  <2> QED BY <1>9, <2>1 DEF Acquire, Goto, grantVars, scanVars, StateInv, Shape
<1>10. ASSUME NEW t \in Threads, Leave(t) PROVE Shape'
  BY <1>10 DEF Leave, Goto, lockVars, grantVars, waitVars, scanVars, StateInv, Shape
<1>11. ASSUME NEW t \in Threads, WriteLock(t) PROVE Shape'
  BY <1>11 DEF WriteLock, Goto, lockVars, grantVars, waitVars, scanVars, StateInv, Shape
<1>12. ASSUME NEW t \in Threads, Ungrant(t) PROVE Shape'
  <2>1. PICK g : UngrantStep(t, g)
    BY <1>12, UngrantEffect
  <2> QED BY <2>1 DEF UngrantStep, TakesBack, StateInv, Shape
<1>13. ASSUME NEW t \in Threads, WakeUp(t) PROVE Shape'
  <2>1. PICK g, rest : WakeUpStep(t, g, rest)
    BY <1>13, WakeUpEffect
  <2> QED BY <2>1 DEF WakeUpStep, TakesBack, StateInv, Shape
<1>14. ASSUME NEW t \in Threads, ReadLock(t) PROVE Shape'
  BY <1>14 DEF ReadLock, Goto, lockVars, grantVars, waitVars, scanVars, StateInv, Shape
<1>15. ASSUME NEW t \in Threads, Yield(t) PROVE Shape'
  BY <1>15 DEF Yield, Goto, lockVars, grantVars, waitVars, scanVars, StateInv, Shape
<1>16. ASSUME NEW t \in Threads, SpuriousWakeup(t) PROVE Shape'
  BY <1>16 DEF SpuriousWakeup, Goto, lockVars, grantVars, waitVars, scanVars, StateInv, Shape
<1>17. ASSUME NEW t \in Threads, BypassLivelock(t) PROVE Shape'
  BY <1>17 DEF BypassLivelock, Goto, lockVars, grantVars, waitVars, scanVars, StateInv, Shape
<1>18. ASSUME NEW t \in Threads, NEW s, NEW i, SkipAvoidance(t, s, i) PROVE Shape'
  <2>0. SkipStep(t)
    BY <1>18, SkipEffect
  <2> QED BY <2>0 DEF SkipStep, StateInv, Shape
<1> QED
  BY <1>0, <1>1, <1>2, <1>3, <1>4, <1>5, <1>6, <1>7, <1>8, <1>9, <1>10, <1>11, <1>12, <1>13, <1>14, <1>15, <1>16, <1>17, <1>18 DEF Next, Step

(* The arguments of the operations. *)
LEMMA ArgsStep == StateInv /\ [Next]_vars => Args'
<1> SUFFICES ASSUME StateInv, [Next]_vars PROVE Args'
  OBVIOUS
<1>0. CASE UNCHANGED vars
  BY <1>0 DEF vars, lockVars, grantVars, waitVars, scanVars, StateInv, Args, WithArg, Granted, Asking, InHistory, Lock, Shape
<1>1. CASE CheckForYieldCycles
  BY <1>1 DEF CheckForYieldCycles, lockVars, grantVars, waitVars, scanVars, StateInv, Args, WithArg, Granted, Asking, InHistory, Lock, Shape
<1>2. ASSUME NEW t \in Threads, NEW l \in Locks, NEW p \in Positions, Avoidance(t, l, p) PROVE Args'
  BY <1>2 DEF Avoidance, Goto, lockVars, grantVars, waitVars, scanVars, StateInv, Args, WithArg, Granted, Asking, InHistory, Lock, Shape
<1>3. ASSUME NEW t \in Threads, NEW l \in Locks, Reenter(t, l) PROVE Args'
  BY <1>3 DEF Reenter, Goto, lockVars, grantVars, waitVars, scanVars, StateInv, Args, WithArg, Granted, Asking, InHistory, Lock, Shape
<1>4. ASSUME NEW t \in Threads, NEW l \in Locks, Release(t, l) PROVE Args'
  <2>1. ReleaseStep(t, l)
    BY <1>4, ReleaseEffect
  <2>2. \A u \in Threads \ {t} : pc'[u] = pc[u] /\ arg'[u] = arg[u]
    BY <2>1 DEF ReleaseStep, StateInv, Shape
  <2>3. pc'[t] \in WithArg => arg'[t][1] \in Locks
    BY <2>1 DEF ReleaseStep, WithArg, Granted, Asking
  <2>4. pc'[t] \notin InHistory
    BY <2>1 DEF ReleaseStep, InHistory, Asking
  <2> QED BY <2>2, <2>3, <2>4 DEF StateInv, Args
<1>5. ASSUME NEW t \in Threads, Grant(t) PROVE Args'
  <2>1. PICK g, p : GrantStep(t, g, p)
    BY <1>5, GrantEffect
  <2> QED BY <2>1 DEF GrantStep, StateInv, Args, Shape, WithArg, Granted, Asking, InHistory, Lock
<1>6. ASSUME NEW t \in Threads, Look(t) PROVE Args'
  <2>1. PICK k : LookStep(t, k)
    BY <1>6, LookEffect
  <2> QED BY <2>1 DEF LookStep, grantVars, StateInv, Args, Shape, WithArg, Granted, Asking, InHistory, Lock
<1>7. ASSUME NEW t \in Threads, Decide(t) PROVE Args'
  <2>1. DecideStep(t)
    BY <1>7, DecideEffect
  <2> QED BY <2>1 DEF DecideStep, grantVars, StateInv, Args, Shape, WithArg, Granted, Asking, InHistory, Lock
<1>8. ASSUME NEW t \in Threads, Enter(t) PROVE Args'
  BY <1>8 DEF Enter, Goto, lockVars, grantVars, waitVars, scanVars, StateInv, Args, WithArg, Granted, Asking, InHistory, Lock, Shape
<1>9. ASSUME NEW t \in Threads, Acquire(t) PROVE Args'
  BY <1>9 DEF Acquire, Goto, lockVars, grantVars, waitVars, scanVars, StateInv, Args, WithArg, Granted, Asking, InHistory, Lock, Shape
<1>10. ASSUME NEW t \in Threads, Leave(t) PROVE Args'
  BY <1>10 DEF Leave, Goto, lockVars, grantVars, waitVars, scanVars, StateInv, Args, WithArg, Granted, Asking, InHistory, Lock, Shape
<1>11. ASSUME NEW t \in Threads, WriteLock(t) PROVE Args'
  BY <1>11 DEF WriteLock, Goto, lockVars, grantVars, waitVars, scanVars, StateInv, Args, WithArg, Granted, Asking, InHistory, Lock, Shape
<1>12. ASSUME NEW t \in Threads, Ungrant(t) PROVE Args'
  <2>1. PICK g : UngrantStep(t, g)
    BY <1>12, UngrantEffect
  <2> QED BY <2>1 DEF UngrantStep, TakesBack, StateInv, Args, Shape, WithArg, Granted, Asking, InHistory, Lock
<1>13. ASSUME NEW t \in Threads, WakeUp(t) PROVE Args'
  <2>1. PICK g, rest : WakeUpStep(t, g, rest)
    BY <1>13, WakeUpEffect
  <2> QED BY <2>1 DEF WakeUpStep, TakesBack, StateInv, Args, Shape, WithArg, Granted, Asking, InHistory, Lock
<1>14. ASSUME NEW t \in Threads, ReadLock(t) PROVE Args'
  BY <1>14 DEF ReadLock, Goto, lockVars, grantVars, waitVars, scanVars, StateInv, Args, WithArg, Granted, Asking, InHistory, Lock, Shape
<1>15. ASSUME NEW t \in Threads, Yield(t) PROVE Args'
  BY <1>15 DEF Yield, Goto, lockVars, grantVars, waitVars, scanVars, StateInv, Args, WithArg, Granted, Asking, InHistory, Lock, Shape
<1>16. ASSUME NEW t \in Threads, SpuriousWakeup(t) PROVE Args'
  BY <1>16 DEF SpuriousWakeup, Goto, lockVars, grantVars, waitVars, scanVars, StateInv, Args, WithArg, Granted, Asking, InHistory, Lock, Shape
<1>17. ASSUME NEW t \in Threads, BypassLivelock(t) PROVE Args'
  BY <1>17 DEF BypassLivelock, Goto, lockVars, grantVars, waitVars, scanVars, StateInv, Args, WithArg, Granted, Asking, InHistory, Lock, Shape
<1>18. ASSUME NEW t \in Threads, NEW s, NEW i, SkipAvoidance(t, s, i) PROVE Args'
  <2>0. SkipStep(t)
    BY <1>18, SkipEffect
  <2> QED BY <2>0 DEF SkipStep, StateInv, Args, WithArg, Granted, Asking, InHistory, Lock, Shape
<1> QED
  BY <1>0, <1>1, <1>2, <1>3, <1>4, <1>5, <1>6, <1>7, <1>8, <1>9, <1>10, <1>11, <1>12, <1>13, <1>14, <1>15, <1>16, <1>17, <1>18 DEF Next, Step

(* Monitors and their owners. *)
LEMMA MutexStep == StateInv /\ [Next]_vars => Mutex'
<1> SUFFICES ASSUME StateInv, [Next]_vars PROVE Mutex'
  OBVIOUS
<1>0. CASE UNCHANGED vars
  BY <1>0 DEF vars, lockVars, grantVars, waitVars, scanVars, StateInv, Mutex, Shape, Owning, Lock, Args, WithArg, Granted
<1>1. CASE CheckForYieldCycles
  BY <1>1 DEF CheckForYieldCycles, lockVars, grantVars, waitVars, scanVars, StateInv, Mutex, Shape, Owning, Lock, Args, WithArg, Granted
<1>2. ASSUME NEW t \in Threads, NEW l \in Locks, NEW p \in Positions, Avoidance(t, l, p) PROVE Mutex'
  BY <1>2, NullAssumption DEF Avoidance, Goto, lockVars, grantVars, waitVars, scanVars, StateInv, Mutex, Shape, Args, Owning, WithArg, Granted, Lock
<1>3. ASSUME NEW t \in Threads, NEW l \in Locks, Reenter(t, l) PROVE Mutex'
  BY <1>3 DEF Reenter, Goto, lockVars, grantVars, waitVars, scanVars, StateInv, Mutex, Shape, Owning, Lock, Args, WithArg, Granted
<1>4. ASSUME NEW t \in Threads, NEW l \in Locks, Release(t, l) PROVE Mutex'
  <2>1. ReleaseStep(t, l)
    BY <1>4, ReleaseEffect
  <2>2. CASE UNCHANGED <<owner, arg, pc>>
    BY <2>1, <2>2 DEF ReleaseStep, StateInv, Mutex, Lock
  <2>3. CASE ~ UNCHANGED <<owner, arg, pc>>
    <3>1. /\ owner' = [owner EXCEPT ![l] = NULL] /\ holder' = holder /\ owner[l] = t
          /\ Lock(t)' = l /\ \A u \in Threads \ {t} : pc'[u] = pc[u] /\ Lock(u)' = Lock(u)
      BY <2>1, <2>3 DEF ReleaseStep, Lock, StateInv, Shape
    <3>2. holder[l] = t
      BY <3>1, NullAssumption DEF StateInv, Mutex
    <3>3. owner'[l] = NULL /\ \A k \in Locks \ {l} : owner'[k] = owner[k]
      BY <3>1 DEF StateInv, Shape
    <3>4. ASSUME NEW u \in Threads, pc'[u] \in Owning
          PROVE  holder'[Lock(u)'] = u /\ owner'[Lock(u)'] = NULL
      <4>1. CASE u = t
        BY <4>1, <3>1, <3>2, <3>3
      <4>2. CASE u # t
        <5>1. Lock(u)' = Lock(u) /\ Lock(u) \in Locks /\ holder[Lock(u)] = u /\ owner[Lock(u)] = NULL
          BY <3>1, <3>4, <4>2 DEF StateInv, Mutex, Args, WithArg, Granted, Owning, Lock
        <5> QED BY <5>1, <3>1, <3>2, <3>3, <4>2
      <4> QED BY <4>1, <4>2
    <3> QED BY <3>1, <3>3, <3>4 DEF StateInv, Mutex
  <2> QED BY <2>2, <2>3
<1>5. ASSUME NEW t \in Threads, Grant(t) PROVE Mutex'
  <2>1. PICK g, p : GrantStep(t, g, p)
    BY <1>5, GrantEffect
  <2> QED BY <2>1, NullAssumption DEF GrantStep, StateInv, Mutex, Shape, Owning, Lock, Args, WithArg, Granted
<1>6. ASSUME NEW t \in Threads, Look(t) PROVE Mutex'
  <2>1. PICK k : LookStep(t, k)
    BY <1>6, LookEffect
  <2> QED BY <2>1, NullAssumption DEF LookStep, grantVars, StateInv, Mutex, Shape, Owning, Lock, Args, WithArg, Granted
<1>7. ASSUME NEW t \in Threads, Decide(t) PROVE Mutex'
  <2>1. DecideStep(t)
    BY <1>7, DecideEffect
  <2> QED BY <2>1, NullAssumption DEF DecideStep, grantVars, StateInv, Mutex, Shape, Owning, Lock, Args, WithArg, Granted
<1>8. ASSUME NEW t \in Threads, Enter(t) PROVE Mutex'
  BY <1>8, NullAssumption DEF Enter, Goto, lockVars, grantVars, waitVars, scanVars, StateInv, Mutex, Shape, Args, Owning, WithArg, Granted, Lock
<1>9. ASSUME NEW t \in Threads, Acquire(t) PROVE Mutex'
  BY <1>9, NullAssumption DEF Acquire, Goto, lockVars, grantVars, waitVars, scanVars, StateInv, Mutex, Shape, Args, Owning, WithArg, Granted, Lock
<1>10. ASSUME NEW t \in Threads, Leave(t) PROVE Mutex'
  BY <1>10, NullAssumption DEF Leave, Goto, lockVars, grantVars, waitVars, scanVars, StateInv, Mutex, Shape, Args, Owning, WithArg, Granted, Lock
<1>11. ASSUME NEW t \in Threads, WriteLock(t) PROVE Mutex'
  BY <1>11 DEF WriteLock, Goto, lockVars, grantVars, waitVars, scanVars, StateInv, Mutex, Shape, Owning, Lock, Args, WithArg, Granted
<1>12. ASSUME NEW t \in Threads, Ungrant(t) PROVE Mutex'
  <2>1. PICK g : UngrantStep(t, g)
    BY <1>12, UngrantEffect
  <2> QED BY <2>1, NullAssumption DEF UngrantStep, TakesBack, StateInv, Mutex, Shape, Owning, Lock, Args, WithArg, Granted
<1>13. ASSUME NEW t \in Threads, WakeUp(t) PROVE Mutex'
  <2>1. PICK g, rest : WakeUpStep(t, g, rest)
    BY <1>13, WakeUpEffect
  <2>2. \A u \in Threads : pc'[u] \in Owning => pc[u] \in Owning
    BY <2>1 DEF WakeUpStep, TakesBack, Owning
  <2> QED BY <2>1, <2>2 DEF WakeUpStep, StateInv, Mutex, Lock
<1>14. ASSUME NEW t \in Threads, ReadLock(t) PROVE Mutex'
  BY <1>14 DEF ReadLock, Goto, lockVars, grantVars, waitVars, scanVars, StateInv, Mutex, Shape, Owning, Lock, Args, WithArg, Granted
<1>15. ASSUME NEW t \in Threads, Yield(t) PROVE Mutex'
  BY <1>15 DEF Yield, Goto, lockVars, grantVars, waitVars, scanVars, StateInv, Mutex, Shape, Owning, Lock, Args, WithArg, Granted
<1>16. ASSUME NEW t \in Threads, SpuriousWakeup(t) PROVE Mutex'
  BY <1>16 DEF SpuriousWakeup, Goto, lockVars, grantVars, waitVars, scanVars, StateInv, Mutex, Shape, Owning, Lock, Args, WithArg, Granted
<1>17. ASSUME NEW t \in Threads, BypassLivelock(t) PROVE Mutex'
  BY <1>17 DEF BypassLivelock, Goto, lockVars, grantVars, waitVars, scanVars, StateInv, Mutex, Shape, Owning, Lock, Args, WithArg, Granted
<1>18. ASSUME NEW t \in Threads, NEW s, NEW i, SkipAvoidance(t, s, i) PROVE Mutex'
  <2>0. SkipStep(t)
    BY <1>18, SkipEffect
  <2> QED BY <2>0 DEF SkipStep, StateInv, Mutex, Shape, Owning, Lock, Args, WithArg, Granted
<1> QED
  BY <1>0, <1>1, <1>2, <1>3, <1>4, <1>5, <1>6, <1>7, <1>8, <1>9, <1>10, <1>11, <1>12, <1>13, <1>14, <1>15, <1>16, <1>17, <1>18 DEF Next, Step

(* Recycled and listed grants. *)
LEMMA PoolsStep == StateInv /\ [Next]_vars => Pools'
<1> SUFFICES ASSUME StateInv, [Next]_vars PROVE Pools'
  OBVIOUS
<1>0. CASE UNCHANGED vars
  BY <1>0 DEF vars, lockVars, grantVars, waitVars, scanVars, StateInv, Pools, Shape
<1>1. CASE CheckForYieldCycles
  BY <1>1 DEF CheckForYieldCycles, lockVars, grantVars, waitVars, scanVars, StateInv, Pools, Shape
<1>2. ASSUME NEW t \in Threads, NEW l \in Locks, NEW p \in Positions, Avoidance(t, l, p) PROVE Pools'
  BY <1>2 DEF Avoidance, Goto, lockVars, grantVars, waitVars, scanVars, StateInv, Pools, Shape
<1>3. ASSUME NEW t \in Threads, NEW l \in Locks, Reenter(t, l) PROVE Pools'
  BY <1>3 DEF Reenter, Goto, lockVars, grantVars, waitVars, scanVars, StateInv, Pools, Shape
<1>4. ASSUME NEW t \in Threads, NEW l \in Locks, Release(t, l) PROVE Pools'
  <2>1. ReleaseStep(t, l)
    BY <1>4, ReleaseEffect
  <2> QED BY <2>1 DEF ReleaseStep, StateInv, Pools, Shape
<1>5. ASSUME NEW t \in Threads, Grant(t) PROVE Pools'
  <2>1. PICK g, p : GrantStep(t, g, p)
    BY <1>5, GrantEffect
  <2>2. \A u \in Threads : \A h \in Elements(removed'[u]) : Thread(h) = u /\ grant'[h].n = 0
    <3> SUFFICES ASSUME NEW u \in Threads, NEW h \in Elements(removed'[u])
                 PROVE  Thread(h) = u /\ grant'[h].n = 0
      OBVIOUS
    <3>0. removed[u] \in Seq(LockGrants)
      BY DEF StateInv, Shape
    <3>1. h \in Elements(removed[u])
      <4>1. CASE u = t
        BY <2>1, <4>1 DEF GrantStep
      <4>2. CASE u # t
        <5>1. removed'[u] = removed[u]
          BY <2>1, <4>2 DEF GrantStep, StateInv, Shape
        <5> QED BY <5>1
      <4> QED BY <4>1, <4>2
    <3>2. h \in LockGrants
      BY <3>0, <3>1 DEF Elements
    <3>3. Thread(h) = u /\ grant[h].n = 0 /\ h # g
      BY <2>1, <3>1 DEF GrantStep, StateInv, Pools
    <3> QED BY <2>1, <3>2, <3>3 DEF GrantStep, StateInv, Shape
  <2>3. \A u \in Threads : Distinct(removed'[u])
    BY <2>1 DEF GrantStep, StateInv, Shape, Pools
  <2>4. ASSUME NEW h \in LockGrants, grant'[h].n = 1
        PROVE  grant'[h].pos \in Positions /\ h \in Elements(lockGrants'[grant'[h].pos])
    <3>1. CASE h = g
      <4>1. grant'[g].pos = p /\ p \in Positions
        BY <2>1 DEF GrantStep, StateInv, Shape
      <4> QED BY <2>1, <3>1, <4>1 DEF GrantStep
    <3>2. CASE h # g
      <4>1. grant'[h] = grant[h]
        BY <2>1, <3>2 DEF GrantStep
      <4>2. grant[h].pos \in Positions /\ h \in Elements(lockGrants[grant[h].pos])
        BY <2>4, <4>1 DEF StateInv, Pools
      <4>3. CASE grant[h].pos = p
        BY <2>1, <4>1, <4>2, <4>3 DEF GrantStep
      <4>4. CASE grant[h].pos # p
        <5>1. lockGrants'[grant[h].pos] = lockGrants[grant[h].pos]
          BY <2>1, <4>2, <4>4 DEF GrantStep, StateInv, Shape
        <5> QED BY <4>1, <4>2, <5>1
      <4> QED BY <4>3, <4>4
    <3> QED BY <3>1, <3>2
  <2> QED BY <2>2, <2>3, <2>4 DEF Pools
<1>6. ASSUME NEW t \in Threads, Look(t) PROVE Pools'
  <2>1. PICK k : LookStep(t, k)
    BY <1>6, LookEffect
  <2> QED BY <2>1 DEF LookStep, grantVars, StateInv, Pools, Shape
<1>7. ASSUME NEW t \in Threads, Decide(t) PROVE Pools'
  <2>1. DecideStep(t)
    BY <1>7, DecideEffect
  <2> QED BY <2>1 DEF DecideStep, grantVars, StateInv, Pools, Shape
<1>8. ASSUME NEW t \in Threads, Enter(t) PROVE Pools'
  BY <1>8 DEF Enter, Goto, lockVars, grantVars, waitVars, scanVars, StateInv, Pools, Shape
<1>9. ASSUME NEW t \in Threads, Acquire(t) PROVE Pools'
  BY <1>9 DEF Acquire, Goto, lockVars, grantVars, waitVars, scanVars, StateInv, Pools, Shape
<1>10. ASSUME NEW t \in Threads, Leave(t) PROVE Pools'
  BY <1>10 DEF Leave, Goto, lockVars, grantVars, waitVars, scanVars, StateInv, Pools, Shape
<1>11. ASSUME NEW t \in Threads, WriteLock(t) PROVE Pools'
  BY <1>11 DEF WriteLock, Goto, lockVars, grantVars, waitVars, scanVars, StateInv, Pools, Shape
<1>12. ASSUME NEW t \in Threads, Ungrant(t) PROVE Pools'
  <2>1. PICK g : UngrantStep(t, g)
    BY <1>12, UngrantEffect
  <2>2. ASSUME NEW u \in Threads, NEW h \in Elements(removed'[u])
        PROVE  Thread(h) = u /\ grant'[h].n = 0
    <3>1. h \in Elements(removed[u]) \/ (u = t /\ h = g)
      BY <2>1, <2>2 DEF UngrantStep, TakesBack, StateInv, Shape
    <3>2. CASE h = g
      <4>1. grant'[g].n = 0
        BY <2>1 DEF UngrantStep, TakesBack, StateInv, Shape
      <4>2. g \notin Elements(removed[u])
        BY <2>1 DEF UngrantStep, TakesBack, StateInv, Pools
      <4> QED BY <2>1, <3>1, <3>2, <4>1, <4>2 DEF UngrantStep, TakesBack
    <3>3. CASE h # g
      <4>1. h \in LockGrants
        BY <3>1, <3>3 DEF Elements, StateInv, Shape
      <4> QED BY <2>1, <3>1, <3>3, <4>1 DEF UngrantStep, TakesBack, StateInv, Pools, Shape
    <3> QED BY <3>2, <3>3
  <2>3. \A u \in Threads : Distinct(removed'[u])
    BY <2>1 DEF UngrantStep, TakesBack, StateInv, Shape, Pools
  <2>4. ASSUME NEW h \in LockGrants, grant'[h].n = 1
        PROVE  grant'[h].pos \in Positions /\ h \in Elements(lockGrants'[grant'[h].pos])
    <3>1. h # g
      <4>1. grant'[g].n = 0
        BY <2>1 DEF UngrantStep, TakesBack, StateInv, Shape
      <4> QED BY <2>4, <4>1
    <3>2. grant'[h] = grant[h]
      BY <2>1, <3>1 DEF UngrantStep, TakesBack, StateInv, Shape
    <3>3. grant[h].pos \in Positions /\ h \in Elements(lockGrants[grant[h].pos])
      BY <2>4, <3>2 DEF StateInv, Pools
    <3>4. CASE grant[h].pos = grant[g].pos
      BY <2>1, <3>1, <3>2, <3>3, <3>4 DEF UngrantStep, TakesBack
    <3>5. CASE grant[h].pos # grant[g].pos
      <4>1. lockGrants'[grant[h].pos] = lockGrants[grant[h].pos]
        BY <2>1, <3>3, <3>5 DEF UngrantStep, TakesBack, StateInv, Shape
      <4> QED BY <3>2, <3>3, <4>1
    <3> QED BY <3>4, <3>5
  <2> QED BY <2>2, <2>3, <2>4 DEF Pools
<1>13. ASSUME NEW t \in Threads, WakeUp(t) PROVE Pools'
  <2>1. PICK g, rest : WakeUpStep(t, g, rest)
    BY <1>13, WakeUpEffect
  <2> QED BY <2>1 DEF WakeUpStep, TakesBack, StateInv, Pools, Shape
<1>14. ASSUME NEW t \in Threads, ReadLock(t) PROVE Pools'
  BY <1>14 DEF ReadLock, Goto, lockVars, grantVars, waitVars, scanVars, StateInv, Pools, Shape
<1>15. ASSUME NEW t \in Threads, Yield(t) PROVE Pools'
  BY <1>15 DEF Yield, Goto, lockVars, grantVars, waitVars, scanVars, StateInv, Pools, Shape
<1>16. ASSUME NEW t \in Threads, SpuriousWakeup(t) PROVE Pools'
  BY <1>16 DEF SpuriousWakeup, Goto, lockVars, grantVars, waitVars, scanVars, StateInv, Pools, Shape
<1>17. ASSUME NEW t \in Threads, BypassLivelock(t) PROVE Pools'
  BY <1>17 DEF BypassLivelock, Goto, lockVars, grantVars, waitVars, scanVars, StateInv, Pools, Shape
<1>18. ASSUME NEW t \in Threads, NEW s, NEW i, SkipAvoidance(t, s, i) PROVE Pools'
  <2>0. SkipStep(t)
    BY <1>18, SkipEffect
  <2> QED BY <2>0 DEF SkipStep, StateInv, Pools, Shape
<1> QED
  BY <1>0, <1>1, <1>2, <1>3, <1>4, <1>5, <1>6, <1>7, <1>8, <1>9, <1>10, <1>11, <1>12, <1>13, <1>14, <1>15, <1>16, <1>17, <1>18 DEF Next, Step

LEMMA EmptyElements ==
  ASSUME NEW S, NEW s \in Seq(S)
  PROVE  s = << >> <=> Elements(s) = {}
<1>1. Len(s) \in Nat /\ DOMAIN s = 1..Len(s)
  OBVIOUS
<1>2. CASE s # << >>
  <2>1. 1 \in DOMAIN s
    BY <1>1, <1>2
  <2> QED BY <2>1, <1>2 DEF Elements
<1>3. CASE s = << >>
  BY <1>3 DEF Elements
<1> QED BY <1>2, <1>3

ScanKept(u) ==
  pc'[u] = "scan" => /\ pc[u] = "scan" /\ scan'[u] = scan[u]
                     /\ arg'[u] = arg[u] /\ curGrants'[u] = curGrants[u]

LEMMA ScanStays ==
  ASSUME NEW u, Scan(u), ScanKept(u)
  PROVE  Scan(u)'
<1> SUFFICES ASSUME pc'[u] = "scan"
             PROVE  /\ scan'[u].left # {} /\ scan'[u].left \subseteq MatchingPositions(arg'[u][2])
                    /\ Len(scan'[u].seen) >= Index(u)' =>
                         scan'[u].seen[Index(u)'] = <<curGrants'[u][1]>>
  BY DEF Scan, MatchingPositions
<1>1. pc[u] = "scan" /\ scan'[u] = scan[u] /\ arg'[u] = arg[u] /\ curGrants'[u] = curGrants[u]
  BY DEF ScanKept
<1>2. Index(u)' = Index(u)
  BY <1>1 DEF Index, At
<1> QED BY <1>1, <1>2 DEF Scan

(* An index in a place of a signature *)
LEMMA PlaceIndex ==
  ASSUME NEW p, NEW x \in MatchingPositions(p)
  PROVE  x[2] \in Nat /\ x[2] >= 1
<1>1. PICK s \in DOMAIN History : \E i \in DOMAIN History[s] : x = <<s, i>>
  BY MatchingIs
<1>2. PICK i \in DOMAIN History[s] : x = <<s, i>>
  BY <1>1
<1> QED BY <1>1, <1>2, HistoryShape

LEMMA EmptyScan ==
  ASSUME NEW u, scan'[u].left # {}, scan'[u].left \subseteq MatchingPositions(arg'[u][2]),
         scan'[u].seen = << >>
  PROVE  Scan(u)'
<1>1. At(u)' \in scan'[u].left
  <2>1. At(u)' = Least(scan'[u].left)
    BY DEF At, Least
  <2>2. scan'[u].left \in SUBSET (Nat \X Nat)
    BY MatchingType
  <2> QED BY <2>1, <2>2, LeastIsIn
<1>2. Index(u)' \in Nat /\ Index(u)' >= 1
  <2>1. Index(u)' = (At(u)')[2]
    BY DEF Index
  <2>2. At(u)' \in MatchingPositions(arg'[u][2])
    BY <1>1
  <2> QED BY <2>1, <2>2, PlaceIndex
<1>3. ~ (Len(scan'[u].seen) >= Index(u)')
  BY <1>2
<1>4. scan'[u].left \subseteq MatchingPositions(arg[u][2])'
  BY DEF MatchingPositions
<1> QED BY <1>3, <1>4 DEF Scan

(* The scans. *)
LEMMA ScanningStep == StateInv /\ [Next]_vars => Scanning'
<1> SUFFICES ASSUME StateInv, [Next]_vars PROVE Scanning'
  OBVIOUS
<1>0. CASE UNCHANGED vars
  <2>1. \A u \in Threads : ScanKept(u)
    BY <1>0 DEF vars, lockVars, grantVars, waitVars, scanVars, ScanKept, StateInv, Shape
  <2> QED BY <2>1, ScanStays DEF StateInv, Scanning
<1>1. CASE CheckForYieldCycles
  <2>1. \A u \in Threads : ScanKept(u)
    BY <1>1 DEF CheckForYieldCycles, lockVars, grantVars, waitVars, scanVars, ScanKept, StateInv, Shape
  <2> QED BY <2>1, ScanStays DEF StateInv, Scanning
<1>2. ASSUME NEW t \in Threads, NEW l \in Locks, NEW p \in Positions, Avoidance(t, l, p) PROVE Scanning'
  <2>1. \A u \in Threads : ScanKept(u)
    BY <1>2 DEF Avoidance, Goto, lockVars, grantVars, waitVars, scanVars, ScanKept, StateInv, Shape
  <2> QED BY <2>1, ScanStays DEF StateInv, Scanning
<1>3. ASSUME NEW t \in Threads, NEW l \in Locks, Reenter(t, l) PROVE Scanning'
  <2>1. \A u \in Threads : ScanKept(u)
    BY <1>3 DEF Reenter, Goto, lockVars, grantVars, waitVars, scanVars, ScanKept, StateInv, Shape
  <2> QED BY <2>1, ScanStays DEF StateInv, Scanning
<1>4. ASSUME NEW t \in Threads, NEW l \in Locks, Release(t, l) PROVE Scanning'
  <2>1. ReleaseStep(t, l)
    BY <1>4, ReleaseEffect
  <2>2. \A u \in Threads : ScanKept(u)
    BY <2>1 DEF ReleaseStep, ScanKept, StateInv, Shape
  <2> QED BY <2>2, ScanStays DEF StateInv, Scanning
<1>5. ASSUME NEW t \in Threads, Grant(t) PROVE Scanning'
  <2>1. PICK g, p : GrantStep(t, g, p)
    BY <1>5, GrantEffect
  <2>2. \A u \in Threads \ {t} : ScanKept(u)
    BY <2>1 DEF GrantStep, ScanKept, StateInv, Shape
  <2>3. Scan(t)'
    <3>1. CASE pc' = pc
      BY <2>1, <3>1 DEF GrantStep, Scan
    <3>2. CASE pc' # pc
      <4>1. scan'[t] = ScanOf(MatchingPositions(p)) /\ arg'[t][2] = p
        BY <2>1, <3>2 DEF GrantStep, StateInv, Shape
      <4>2. scan'[t].left = MatchingPositions(p) /\ scan'[t].seen = << >>
        BY <4>1 DEF ScanOf
      <4> QED BY <2>1, <4>1, <4>2, EmptyScan DEF GrantStep
    <3> QED BY <3>1, <3>2
  <2> QED BY <2>2, <2>3, ScanStays DEF StateInv, Scanning
<1>6. ASSUME NEW t \in Threads, Look(t) PROVE Scanning'
  <2>1. PICK k : LookStep(t, k)
    BY <1>6, LookEffect
  <2>2. \A u \in Threads \ {t} : ScanKept(u)
    BY <2>1 DEF LookStep, grantVars, ScanKept, StateInv, Shape
  <2>3. Scan(t)'
    <3>1. pc[t] = "scan" /\ scan'[t].left = scan[t].left /\ arg' = arg /\ curGrants' = curGrants
      BY <2>1 DEF LookStep
    <3>2. Index(t)' = Index(t)
      BY <3>1 DEF Index, At
    <3>3. /\ scan[t].left # {} /\ scan[t].left \subseteq MatchingPositions(arg[t][2])
          /\ Len(scan[t].seen) >= Index(t) => scan[t].seen[Index(t)] = <<curGrants[t][1]>>
      BY <3>1 DEF StateInv, Scanning, Scan
    <3>4. scan'[t].left \subseteq MatchingPositions(arg[t][2])'
      BY <3>1, <3>3 DEF MatchingPositions
    <3>5. Len(scan'[t].seen) >= Index(t) => scan'[t].seen[Index(t)] = <<curGrants[t][1]>>
      <4>1. Index(t) \in Nat /\ Index(t) >= 1 /\ scan[t].seen \in Seq(Seq(Entries))
        <5>1. Index(t) \in 1..Len(Signature(t)) /\ Len(Signature(t)) \in Nat
          BY <3>1, ScanFacts
        <5>2. scan[t].seen \in Seq(Seq(Entries))
          BY <3>1, ScanFacts
        <5> QED BY <5>1, <5>2
      <4>2. k \in Nat /\ Len(scan'[t].seen) = k
        BY <2>1, <3>1, ScanFacts DEF LookStep
      <4>3. CASE Index(t) = k
        BY <2>1, <4>3 DEF LookStep
      <4>4. CASE Index(t) < k
        <5>1. Index(t) \in 1..(k - 1)
          BY <4>1, <4>2, <4>4
        <5>2. Index(t) \in DOMAIN scan[t].seen /\ scan'[t].seen[Index(t)] = scan[t].seen[Index(t)]
          BY <2>1, <5>1 DEF LookStep
        <5>3. Len(scan[t].seen) >= Index(t)
          BY <4>1, <5>2
        <5> QED BY <5>2, <5>3, <3>3
      <4> QED BY <4>1, <4>2, <4>3, <4>4
    <3> QED BY <3>1, <3>2, <3>3, <3>4, <3>5 DEF Scan
  <2> QED BY <2>2, <2>3, ScanStays DEF StateInv, Scanning
<1>7. ASSUME NEW t \in Threads, Decide(t) PROVE Scanning'
  <2>1. DecideStep(t)
    BY <1>7, DecideEffect
  <2>2. \A u \in Threads \ {t} : ScanKept(u)
    BY <2>1 DEF DecideStep, grantVars, ScanKept, StateInv, Shape
  <2>3. Scan(t)'
    <3>1. CASE pc' = pc
      <4>1. /\ pc[t] = "scan" /\ scan'[t].left = scan[t].left \ {At(t)} /\ scan'[t].left # {}
            /\ scan'[t].seen = << >> /\ arg' = arg
        BY <2>1, <3>1 DEF DecideStep, StateInv, Shape
      <4>2. scan[t].left \subseteq MatchingPositions(arg[t][2])
        BY <4>1 DEF StateInv, Scanning, Scan
      <4> QED BY <4>1, <4>2, EmptyScan
    <3>2. CASE pc' # pc
      <4>1. pc'[t] # "scan"
        BY <2>1, <3>2 DEF DecideStep, StateInv, Shape
      <4> QED BY <4>1 DEF Scan
    <3> QED BY <3>1, <3>2
  <2> QED BY <2>2, <2>3, ScanStays DEF StateInv, Scanning
<1>8. ASSUME NEW t \in Threads, Enter(t) PROVE Scanning'
  <2>1. \A u \in Threads : ScanKept(u)
    BY <1>8 DEF Enter, Goto, lockVars, grantVars, waitVars, scanVars, ScanKept, StateInv, Shape
  <2> QED BY <2>1, ScanStays DEF StateInv, Scanning
<1>9. ASSUME NEW t \in Threads, Acquire(t) PROVE Scanning'
  <2>1. \A u \in Threads : ScanKept(u)
    BY <1>9 DEF Acquire, Goto, lockVars, grantVars, waitVars, scanVars, ScanKept, StateInv, Shape
  <2> QED BY <2>1, ScanStays DEF StateInv, Scanning
<1>10. ASSUME NEW t \in Threads, Leave(t) PROVE Scanning'
  <2>1. \A u \in Threads : ScanKept(u)
    BY <1>10 DEF Leave, Goto, lockVars, grantVars, waitVars, scanVars, ScanKept, StateInv, Shape
  <2> QED BY <2>1, ScanStays DEF StateInv, Scanning
<1>11. ASSUME NEW t \in Threads, WriteLock(t) PROVE Scanning'
  <2>1. \A u \in Threads : ScanKept(u)
    BY <1>11 DEF WriteLock, Goto, lockVars, grantVars, waitVars, scanVars, ScanKept, StateInv, Shape
  <2> QED BY <2>1, ScanStays DEF StateInv, Scanning
<1>12. ASSUME NEW t \in Threads, Ungrant(t) PROVE Scanning'
  <2>1. PICK g : UngrantStep(t, g)
    BY <1>12, UngrantEffect
  <2>2. \A u \in Threads : ScanKept(u)
    BY <2>1 DEF UngrantStep, TakesBack, ScanKept, StateInv, Shape
  <2> QED BY <2>2, ScanStays DEF StateInv, Scanning
<1>13. ASSUME NEW t \in Threads, WakeUp(t) PROVE Scanning'
  <2>1. PICK g, rest : WakeUpStep(t, g, rest)
    BY <1>13, WakeUpEffect
  <2>2. \A u \in Threads : ScanKept(u)
    BY <2>1 DEF WakeUpStep, TakesBack, ScanKept, StateInv, Shape
  <2> QED BY <2>2, ScanStays DEF StateInv, Scanning
<1>14. ASSUME NEW t \in Threads, ReadLock(t) PROVE Scanning'
  <2>1. \A u \in Threads : ScanKept(u)
    BY <1>14 DEF ReadLock, Goto, lockVars, grantVars, waitVars, scanVars, ScanKept, StateInv, Shape
  <2> QED BY <2>1, ScanStays DEF StateInv, Scanning
<1>15. ASSUME NEW t \in Threads, Yield(t) PROVE Scanning'
  <2>1. \A u \in Threads : ScanKept(u)
    BY <1>15 DEF Yield, Goto, lockVars, grantVars, waitVars, scanVars, ScanKept, StateInv, Shape
  <2> QED BY <2>1, ScanStays DEF StateInv, Scanning
<1>16. ASSUME NEW t \in Threads, SpuriousWakeup(t) PROVE Scanning'
  <2>1. \A u \in Threads : ScanKept(u)
    BY <1>16 DEF SpuriousWakeup, Goto, lockVars, grantVars, waitVars, scanVars, ScanKept, StateInv, Shape
  <2> QED BY <2>1, ScanStays DEF StateInv, Scanning
<1>17. ASSUME NEW t \in Threads, BypassLivelock(t) PROVE Scanning'
  <2>1. \A u \in Threads : ScanKept(u)
    BY <1>17 DEF BypassLivelock, Goto, lockVars, grantVars, waitVars, scanVars, ScanKept, StateInv, Shape
  <2> QED BY <2>1, ScanStays DEF StateInv, Scanning
<1>18. ASSUME NEW t \in Threads, NEW s, NEW i, SkipAvoidance(t, s, i) PROVE Scanning'
  <2>0. SkipStep(t)
    BY <1>18, SkipEffect
  <2>1. \A u \in Threads : ScanKept(u)
    BY <2>0 DEF SkipStep, ScanKept, StateInv, Shape
  <2> QED BY <2>1, ScanStays DEF StateInv, Scanning
<1> QED
  BY <1>0, <1>1, <1>2, <1>3, <1>4, <1>5, <1>6, <1>7, <1>8, <1>9, <1>10, <1>11, <1>12, <1>13, <1>14, <1>15, <1>16, <1>17, <1>18 DEF Next, Step

RequestKept(u) ==
  /\ curGrants'[u] = curGrants[u]
  /\ curGrants[u] # << >> =>
       /\ arg'[u] = arg[u]
       /\ pc[u] \in Granted => pc'[u] \in Granted
       /\ pc[u] = "retract" => pc'[u] = "retract"
       /\ \A g \in Elements(curGrants[u]) : grant'[g] = grant[g]
  /\ pc'[u] \in {"scan", "retract"} => curGrants[u] # << >>

LEMMA RequestStays ==
  ASSUME NEW u \in Threads, StateInv, RequestKept(u)
  PROVE  Request(u)'
<1>1. Request(u) /\ curGrants[u] \in Seq(LockGrants)
  BY DEF StateInv, Shape, Requests
<1>2. CASE curGrants[u] = << >>
  <2>1. curGrants'[u] = << >> /\ Elements(curGrants'[u]) = {}
    BY <1>1, <1>2, EmptyElements DEF RequestKept
  <2>2. pc'[u] \notin {"scan", "retract"}
    BY <1>2 DEF RequestKept
  <2> QED BY <2>1, <2>2 DEF Request, Distinct
<1>3. CASE curGrants[u] # << >>
  BY <1>1, <1>3 DEF RequestKept, Request, Lock
<1> QED BY <1>2, <1>3

(* The requests. *)
LEMMA RequestsStep == StateInv /\ [Next]_vars => Requests'
<1> SUFFICES ASSUME StateInv, [Next]_vars PROVE Requests'
  OBVIOUS
<1>0. CASE UNCHANGED vars
  <2>1. \A u \in Threads : RequestKept(u)
    BY <1>0 DEF vars, lockVars, grantVars, waitVars, scanVars, RequestKept, StateInv, Shape, Requests, Request, Granted, Asking
  <2> QED BY <2>1, RequestStays DEF Requests
<1>1. CASE CheckForYieldCycles
  <2>1. \A u \in Threads : RequestKept(u)
    BY <1>1 DEF CheckForYieldCycles, lockVars, grantVars, waitVars, scanVars, RequestKept, StateInv, Shape, Requests, Request, Granted, Asking
  <2> QED BY <2>1, RequestStays DEF Requests
<1>2. ASSUME NEW t \in Threads, NEW l \in Locks, NEW p \in Positions, Avoidance(t, l, p) PROVE Requests'
  <2>1. \A u \in Threads : RequestKept(u)
    BY <1>2 DEF Avoidance, Goto, lockVars, grantVars, waitVars, scanVars, RequestKept, StateInv, Shape, Requests, Request, Granted, Asking
  <2> QED BY <2>1, RequestStays DEF Requests
<1>3. ASSUME NEW t \in Threads, NEW l \in Locks, Reenter(t, l) PROVE Requests'
  <2>1. \A u \in Threads : RequestKept(u)
    BY <1>3 DEF Reenter, Goto, lockVars, grantVars, waitVars, scanVars, RequestKept, StateInv, Shape, Requests, Request, Granted, Asking
  <2> QED BY <2>1, RequestStays DEF Requests
<1>4. ASSUME NEW t \in Threads, NEW l \in Locks, Release(t, l) PROVE Requests'
  <2>1. ReleaseStep(t, l)
    BY <1>4, ReleaseEffect
  <2>2. \A u \in Threads : RequestKept(u)
    BY <2>1 DEF ReleaseStep, RequestKept, StateInv, Shape, Requests, Request, Granted, Asking
  <2> QED BY <2>2, RequestStays DEF Requests
<1>5. ASSUME NEW t \in Threads, Grant(t) PROVE Requests'
  <2>1. PICK g, p : GrantStep(t, g, p)
    BY <1>5, GrantEffect
  <2>2. ASSUME NEW u \in Threads \ {t} PROVE RequestKept(u)
    <3>1. curGrants[u] \in Seq(LockGrants) /\ Request(u)
      BY DEF StateInv, Shape, Requests
    <3>2. \A h \in Elements(curGrants[u]) : h \in LockGrants /\ Thread(h) = u
      BY <3>1, ElementsType DEF Request
    <3>3. \A h \in Elements(curGrants[u]) : grant'[h] = grant[h]
      BY <2>1, <3>2 DEF GrantStep, StateInv, Shape
    <3> QED BY <2>1, <3>1, <3>3 DEF GrantStep, RequestKept, StateInv, Shape, Request, Granted, Asking
  <2>3. Request(t)'
    <3>1. curGrants[t] \in Seq(LockGrants) /\ Request(t)
      BY DEF StateInv, Shape, Requests
    <3>2. \A h \in Elements(curGrants[t]) : h \in LockGrants
      BY <3>1, ElementsType
    <3>3. Lock(t)' = Lock(t) /\ arg' = arg /\ pc'[t] \in {"grant", "scan"}
      BY <2>1 DEF GrantStep, Lock, StateInv, Shape
    <3>4. ASSUME NEW h \in Elements(curGrants'[t])
          PROVE  /\ Thread(h) = t /\ grant'[h].n = 1
                 /\ grant'[h].lock = Lock(t) /\ grant'[h].pos = arg[t][2]
      <4>1. CASE h = g
        <5>1. grant'[g] = [lock |-> Lock(t), pos |-> p, n |-> 1]
          BY <2>1 DEF GrantStep, StateInv, Shape
        <5> QED BY <2>1, <4>1, <5>1 DEF GrantStep
      <4>2. CASE h # g
        <5>1. h \in Elements(curGrants[t]) /\ pc[t] = "grant"
          BY <2>1, <3>4, <4>2 DEF GrantStep
        <5>2. grant'[h] = grant[h]
          BY <2>1, <3>2, <4>2, <5>1 DEF GrantStep, StateInv, Shape
        <5> QED BY <3>1, <5>1, <5>2 DEF Request
      <4> QED BY <4>1, <4>2
    <3> QED BY <2>1, <3>3, <3>4 DEF Request, GrantStep, Granted, Asking
  <2> QED BY <2>2, <2>3, RequestStays DEF Requests
<1>6. ASSUME NEW t \in Threads, Look(t) PROVE Requests'
  <2>1. PICK k : LookStep(t, k)
    BY <1>6, LookEffect
  <2>2. \A u \in Threads : RequestKept(u)
    BY <2>1 DEF LookStep, grantVars, RequestKept, StateInv, Shape, Requests, Request, Granted, Asking
  <2> QED BY <2>2, RequestStays DEF Requests
<1>7. ASSUME NEW t \in Threads, Decide(t) PROVE Requests'
  <2>1. DecideStep(t)
    BY <1>7, DecideEffect
  <2>2. \A u \in Threads : RequestKept(u)
    BY <2>1 DEF DecideStep, grantVars, RequestKept, StateInv, Shape, Requests, Request, Granted, Asking
  <2> QED BY <2>2, RequestStays DEF Requests
<1>8. ASSUME NEW t \in Threads, Enter(t) PROVE Requests'
  <2>1. \A u \in Threads : RequestKept(u)
    BY <1>8 DEF Enter, Goto, lockVars, grantVars, waitVars, scanVars, RequestKept, StateInv, Shape, Requests, Request, Granted, Asking
  <2> QED BY <2>1, RequestStays DEF Requests
<1>9. ASSUME NEW t \in Threads, Acquire(t) PROVE Requests'
  <2>1. /\ pc[t] = "acquired" /\ pc' = [pc EXCEPT ![t] = "idle"] /\ pc'[t] = "idle"
        /\ curGrants' = [curGrants EXCEPT ![t] = << >>] /\ curGrants'[t] = << >>
        /\ arg' = [arg EXCEPT ![t] = <<NULL, NULL>>] /\ grant' = grant
    BY <1>9 DEF Acquire, Goto, grantVars, StateInv, Shape
  <2>2. \A u \in Threads \ {t} : RequestKept(u)
    BY <2>1 DEF RequestKept, StateInv, Shape, Requests, Request, Granted, Asking
  <2>3. Request(t)'
    BY <2>1 DEF Request, Distinct, Elements
  <2> QED BY <2>2, <2>3, RequestStays DEF Requests
<1>10. ASSUME NEW t \in Threads, Leave(t) PROVE Requests'
  <2>1. \A u \in Threads : RequestKept(u)
    BY <1>10 DEF Leave, Goto, lockVars, grantVars, waitVars, scanVars, RequestKept, StateInv, Shape, Requests, Request, Granted, Asking
  <2> QED BY <2>1, RequestStays DEF Requests
<1>11. ASSUME NEW t \in Threads, WriteLock(t) PROVE Requests'
  <2>1. \A u \in Threads : RequestKept(u)
    BY <1>11 DEF WriteLock, Goto, lockVars, grantVars, waitVars, scanVars, RequestKept, StateInv, Shape, Requests, Request, Granted, Asking
  <2> QED BY <2>1, RequestStays DEF Requests
<1>12. ASSUME NEW t \in Threads, Ungrant(t) PROVE Requests'
  <2>1. PICK g : UngrantStep(t, g)
    BY <1>12, UngrantEffect
  <2>2. ASSUME NEW u \in Threads \ {t} PROVE RequestKept(u)
    <3>1. curGrants[u] \in Seq(LockGrants) /\ Request(u)
      BY DEF StateInv, Shape, Requests
    <3>2. \A h \in Elements(curGrants[u]) : h \in LockGrants /\ Thread(h) = u
      BY <3>1, ElementsType DEF Request
    <3>3. \A h \in Elements(curGrants[u]) : grant'[h] = grant[h]
      BY <2>1, <3>2 DEF UngrantStep, TakesBack, StateInv, Shape
    <3> QED BY <2>1, <3>1, <3>3 DEF UngrantStep, TakesBack, RequestKept, StateInv, Shape, Request, Granted, Asking
  <2>3. Request(t)'
    <3>1. curGrants[t] \in Seq(LockGrants) /\ Request(t)
      BY DEF StateInv, Shape, Requests
    <3>2. \A h \in Elements(curGrants[t]) : h \in LockGrants
      BY <3>1, ElementsType
    <3>3. CASE pc[t] # "retract"
      <4>1. curGrants[t] = << >>
        BY <2>1, <3>1, <3>3 DEF UngrantStep, TakesBack, Request, Granted, Asking
      <4>2. RequestKept(t)
        BY <2>1, <3>1, <3>3, <4>1 DEF UngrantStep, TakesBack, RequestKept, Request
      <4> QED BY <4>2, RequestStays
    <3>4. CASE pc[t] = "retract"
      <4>1. /\ g = Head(curGrants[t]) /\ curGrants' = curGrants /\ pc' = pc /\ arg' = arg
            /\ Lock(t)' = Lock(t)
        BY <2>1, <3>4 DEF UngrantStep, TakesBack, Lock
      <4>2. ASSUME NEW h \in Elements(curGrants[t])
            PROVE  /\ grant'[h].lock = grant[h].lock /\ grant'[h].pos = grant[h].pos
                   /\ h # g => grant'[h].n = grant[h].n
        BY <2>1, <3>2 DEF UngrantStep, TakesBack, StateInv, Shape
      <4> QED BY <3>1, <3>4, <4>1, <4>2 DEF Request
    <3> QED BY <3>3, <3>4
  <2> QED BY <2>2, <2>3, RequestStays DEF Requests
<1>13. ASSUME NEW t \in Threads, WakeUp(t) PROVE Requests'
  <2>1. PICK g, rest : WakeUpStep(t, g, rest)
    BY <1>13, WakeUpEffect
  <2>2. ASSUME NEW u \in Threads \ {t} PROVE RequestKept(u)
    <3>1. curGrants[u] \in Seq(LockGrants) /\ Request(u)
      BY DEF StateInv, Shape, Requests
    <3>2. \A h \in Elements(curGrants[u]) : h \in LockGrants /\ Thread(h) = u
      BY <3>1, ElementsType DEF Request
    <3>3. \A h \in Elements(curGrants[u]) : grant'[h] = grant[h]
      BY <2>1, <3>2 DEF WakeUpStep, TakesBack, StateInv, Shape
    <3> QED BY <2>1, <3>1, <3>3 DEF WakeUpStep, TakesBack, RequestKept, StateInv, Shape, Request, Granted, Asking
  <2>3. Request(t)'
    <3>1. curGrants[t] \in Seq(LockGrants) /\ Request(t)
      BY DEF StateInv, Shape, Requests
    <3>2. \A h \in Elements(curGrants[t]) : h \in LockGrants
      BY <3>1, ElementsType
    <3>3. CASE pc[t] # "retract"
      <4>1. curGrants[t] = << >> /\ curGrants' = curGrants /\ pc'[t] \in {"leaving", "ungrant"}
        BY <2>1, <3>1, <3>3 DEF WakeUpStep, TakesBack, Request, Granted, Asking
      <4>2. RequestKept(t)
        BY <4>1 DEF RequestKept
      <4> QED BY <4>2, RequestStays
    <3>4. CASE pc[t] = "retract"
      <4>1. /\ Ungranting(t) = curGrants[t] /\ g = Head(curGrants[t]) /\ grant' = grant /\ arg' = arg
            /\ curGrants' = [curGrants EXCEPT ![t] = rest]
            /\ Lock(t)' = Lock(t) /\ pc'[t] = IF rest = << >> THEN "readlock" ELSE "retract"
            /\ Elements(rest) \subseteq Elements(curGrants[t]) /\ g \notin Elements(rest)
            /\ Distinct(rest)
        BY <2>1, <3>4 DEF WakeUpStep, TakesBack, Lock
      <4>2. curGrants'[t] = rest
        BY <4>1 DEF StateInv, Shape
      <4>3. \A h \in Elements(rest) : grant[h].n = 1
        BY <3>1, <3>4, <4>1 DEF Request
      <4> QED BY <3>1, <4>1, <4>2, <4>3 DEF Request, Granted, Asking
    <3> QED BY <3>3, <3>4
  <2> QED BY <2>2, <2>3, RequestStays DEF Requests
<1>14. ASSUME NEW t \in Threads, ReadLock(t) PROVE Requests'
  <2>1. \A u \in Threads : RequestKept(u)
    BY <1>14 DEF ReadLock, Goto, lockVars, grantVars, waitVars, scanVars, RequestKept, StateInv, Shape, Requests, Request, Granted, Asking
  <2> QED BY <2>1, RequestStays DEF Requests
<1>15. ASSUME NEW t \in Threads, Yield(t) PROVE Requests'
  <2>1. \A u \in Threads : RequestKept(u)
    BY <1>15 DEF Yield, Goto, lockVars, grantVars, waitVars, scanVars, RequestKept, StateInv, Shape, Requests, Request, Granted, Asking
  <2> QED BY <2>1, RequestStays DEF Requests
<1>16. ASSUME NEW t \in Threads, SpuriousWakeup(t) PROVE Requests'
  <2>1. \A u \in Threads : RequestKept(u)
    BY <1>16 DEF SpuriousWakeup, Goto, lockVars, grantVars, waitVars, scanVars, RequestKept, StateInv, Shape, Requests, Request, Granted, Asking
  <2> QED BY <2>1, RequestStays DEF Requests
<1>17. ASSUME NEW t \in Threads, BypassLivelock(t) PROVE Requests'
  <2>1. \A u \in Threads : RequestKept(u)
    BY <1>17 DEF BypassLivelock, Goto, lockVars, grantVars, waitVars, scanVars, RequestKept, StateInv, Shape, Requests, Request, Granted, Asking
  <2> QED BY <2>1, RequestStays DEF Requests
<1>18. ASSUME NEW t \in Threads, NEW s, NEW i, SkipAvoidance(t, s, i) PROVE Requests'
  <2>0. SkipStep(t)
    BY <1>18, SkipEffect
  <2>1. \A u \in Threads : RequestKept(u)
    BY <2>0 DEF SkipStep, RequestKept, StateInv, Shape, Requests, Request, Granted, Asking
  <2> QED BY <2>1, RequestStays DEF Requests
<1> QED
  BY <1>0, <1>1, <1>2, <1>3, <1>4, <1>5, <1>6, <1>7, <1>8, <1>9, <1>10, <1>11, <1>12, <1>13, <1>14, <1>15, <1>16, <1>17, <1>18 DEF Next, Step

LEMMA HeldGrant ==
  ASSUME StateInv, NEW l \in Locks, NEW g \in Elements(acqGrants[l])
  PROVE  /\ g \in LockGrants /\ Thread(g) \in Threads /\ holder[l] = Thread(g)
         /\ grant[g].n = 1 \/ (pc[Thread(g)] = "ungrant" /\ Lock(Thread(g)) = l
                               /\ g = Head(acqGrants[l]))
         /\ g \notin Elements(curGrants[Thread(g)])
         /\ \A k \in Locks \ {l} : g \notin Elements(acqGrants[k])
<1>1. g \in LockGrants
  <2>1. acqGrants[l] \in Seq(LockGrants)
    BY DEF StateInv, Shape
  <2> QED BY <2>1, ElementsType
<1>2. Thread(g) \in Threads
  BY <1>1 DEF LockGrants, Thread
<1> QED BY <1>1, <1>2 DEF StateInv, Holdings, Holding

HoldingKept(l) ==
  /\ acqGrants'[l] = acqGrants[l]
  /\ acqGrants[l] # << >> => holder'[l] = holder[l]
  /\ \A g \in Elements(acqGrants[l]) :
       /\ grant'[g] = grant[g]
       /\ pc[Thread(g)] = "ungrant" /\ Lock(Thread(g)) = l =>
            pc'[Thread(g)] = "ungrant" /\ Lock(Thread(g))' = l
       /\ g \notin Elements(curGrants'[Thread(g)])
       /\ \A k \in Locks \ {l} : g \notin Elements(acqGrants'[k])

LEMMA HoldingStays ==
  ASSUME NEW l \in Locks, StateInv, HoldingKept(l)
  PROVE  Holding(l)'
<1>1. Holding(l) /\ acqGrants'[l] = acqGrants[l]
  BY DEF StateInv, Holdings, HoldingKept
<1>2. CASE acqGrants[l] = << >>
  BY <1>1, <1>2 DEF Holding, Distinct, Elements
<1>3. CASE acqGrants[l] # << >>
  <2>1. holder'[l] = holder[l]
    BY <1>3 DEF HoldingKept
  <2>2. ASSUME NEW g \in Elements(acqGrants[l])
        PROVE  /\ holder'[l] = Thread(g)
               /\ grant'[g].n = 1 \/ (pc'[Thread(g)] = "ungrant" /\ Lock(Thread(g))' = l
                                      /\ g = Head(acqGrants[l]))
               /\ g \notin Elements(curGrants'[Thread(g)])
               /\ \A k \in Locks \ {l} : g \notin Elements(acqGrants'[k])
    BY <2>1, <2>2, HeldGrant DEF HoldingKept
  <2>3. \A g : Thread(g)' = Thread(g) /\ Lock(Thread(g))' = arg'[Thread(g)][1]
    BY DEF Thread, Lock
  <2>4. Distinct(acqGrants'[l])
    BY <1>1 DEF Holding
  <2> QED BY <1>1, <2>2, <2>3, <2>4 DEF Holding, Lock, Thread
<1> QED BY <1>2, <1>3

(* The grants of the locks. *)
LEMMA HoldingsStep == StateInv /\ [Next]_vars => Holdings'
<1> SUFFICES ASSUME StateInv, [Next]_vars PROVE Holdings'
  OBVIOUS
<1>0. CASE UNCHANGED vars
  <2>1. /\ acqGrants' = acqGrants /\ grant' = grant /\ curGrants' = curGrants /\ holder' = holder
        /\ \A u \in Threads : pc[u] \in {"ungrant", "leaving"} => pc'[u] = pc[u] /\ Lock(u)' = Lock(u)
        /\ \A u \in Threads : pc'[u] = "leaving" => pc[u] = "leaving"
    BY <1>0 DEF vars, lockVars, grantVars, waitVars, scanVars, Lock, StateInv, Shape
  <2>2. \A k \in Locks : HoldingKept(k)
    BY <2>1, HeldGrant DEF HoldingKept
  <2> QED BY <2>1, <2>2, HoldingStays DEF Holdings, StateInv
<1>1. CASE CheckForYieldCycles
  <2>1. /\ acqGrants' = acqGrants /\ grant' = grant /\ curGrants' = curGrants /\ holder' = holder
        /\ \A u \in Threads : pc[u] \in {"ungrant", "leaving"} => pc'[u] = pc[u] /\ Lock(u)' = Lock(u)
        /\ \A u \in Threads : pc'[u] = "leaving" => pc[u] = "leaving"
    BY <1>1 DEF CheckForYieldCycles, lockVars, grantVars, waitVars, scanVars, Lock, StateInv, Shape
  <2>2. \A k \in Locks : HoldingKept(k)
    BY <2>1, HeldGrant DEF HoldingKept
  <2> QED BY <2>1, <2>2, HoldingStays DEF Holdings, StateInv
<1>2. ASSUME NEW t \in Threads, NEW l \in Locks, NEW p \in Positions, Avoidance(t, l, p) PROVE Holdings'
  <2>1. /\ acqGrants' = acqGrants /\ grant' = grant /\ curGrants' = curGrants /\ holder' = holder
        /\ \A u \in Threads : pc[u] \in {"ungrant", "leaving"} => pc'[u] = pc[u] /\ Lock(u)' = Lock(u)
        /\ \A u \in Threads : pc'[u] = "leaving" => pc[u] = "leaving"
    BY <1>2 DEF Avoidance, Goto, lockVars, grantVars, waitVars, scanVars, Lock, StateInv, Shape
  <2>2. \A k \in Locks : HoldingKept(k)
    BY <2>1, HeldGrant DEF HoldingKept
  <2> QED BY <2>1, <2>2, HoldingStays DEF Holdings, StateInv
<1>3. ASSUME NEW t \in Threads, NEW l \in Locks, Reenter(t, l) PROVE Holdings'
  <2>1. /\ acqGrants' = acqGrants /\ grant' = grant /\ curGrants' = curGrants /\ holder' = holder
        /\ \A u \in Threads : pc[u] \in {"ungrant", "leaving"} => pc'[u] = pc[u] /\ Lock(u)' = Lock(u)
        /\ \A u \in Threads : pc'[u] = "leaving" => pc[u] = "leaving"
    BY <1>3 DEF Reenter, Goto, lockVars, grantVars, waitVars, scanVars, Lock, StateInv, Shape
  <2>2. \A k \in Locks : HoldingKept(k)
    BY <2>1, HeldGrant DEF HoldingKept
  <2> QED BY <2>1, <2>2, HoldingStays DEF Holdings, StateInv
<1>4. ASSUME NEW t \in Threads, NEW l \in Locks, Release(t, l) PROVE Holdings'
  <2>1. ReleaseStep(t, l)
    BY <1>4, ReleaseEffect
  <2>2. /\ acqGrants' = acqGrants /\ grant' = grant /\ curGrants' = curGrants /\ holder' = holder
        /\ \A u \in Threads : pc[u] \in {"ungrant", "leaving"} => pc'[u] = pc[u] /\ Lock(u)' = Lock(u)
    BY <2>1 DEF ReleaseStep, Lock, StateInv, Shape
  <2>3. \A k \in Locks : HoldingKept(k)
    BY <2>2, HeldGrant DEF HoldingKept
  <2>4. ASSUME NEW u \in Threads, pc'[u] = "leaving" PROVE acqGrants'[Lock(u)'] = << >>
    <3>1. CASE u = t
      BY <2>1, <2>4, <3>1 DEF ReleaseStep, Lock, StateInv, Shape
    <3>2. CASE u # t
      <4>1. pc[u] = "leaving"
        BY <2>1, <2>4, <3>2 DEF ReleaseStep, StateInv, Shape
      <4> QED BY <2>2, <4>1 DEF StateInv, Holdings
    <3> QED BY <3>1, <3>2
  <2> QED BY <2>3, <2>4, HoldingStays DEF Holdings
<1>5. ASSUME NEW t \in Threads, Grant(t) PROVE Holdings'
  <2>1. PICK g, p : GrantStep(t, g, p)
    BY <1>5, GrantEffect
  <2>2. /\ acqGrants' = acqGrants /\ holder' = holder
        /\ \A u \in Threads : Lock(u)' = Lock(u)
        /\ \A u \in Threads : pc[u] \in {"ungrant", "leaving"} => pc'[u] = pc[u]
        /\ \A u \in Threads : pc'[u] = "leaving" => pc[u] = "leaving"
    BY <2>1 DEF GrantStep, Lock, StateInv, Shape
  <2>3. ASSUME NEW k \in Locks PROVE HoldingKept(k)
    <3>1. ASSUME NEW h \in Elements(acqGrants[k])
          PROVE  grant'[h] = grant[h] /\ h \notin Elements(curGrants'[Thread(h)])
      <4>1. h # g
        BY <2>1, HeldGrant DEF GrantStep
      <4>2. h \in LockGrants /\ Thread(h) \in Threads /\ h \notin Elements(curGrants[Thread(h)])
        BY HeldGrant
      <4>3. grant'[h] = grant[h]
        BY <2>1, <4>1, <4>2 DEF GrantStep, StateInv, Shape
      <4>4. CASE Thread(h) = t
        BY <2>1, <4>1, <4>2, <4>3, <4>4 DEF GrantStep
      <4>5. CASE Thread(h) # t
        <5>1. curGrants'[Thread(h)] = curGrants[Thread(h)]
          BY <2>1, <4>2, <4>5 DEF GrantStep, StateInv, Shape
        <5> QED BY <4>2, <4>3, <5>1
      <4> QED BY <4>4, <4>5
    <3> QED BY <2>2, <3>1, HeldGrant DEF HoldingKept
  <2> QED BY <2>2, <2>3, HoldingStays DEF Holdings, StateInv
<1>6. ASSUME NEW t \in Threads, Look(t) PROVE Holdings'
  <2>0. PICK k : LookStep(t, k)
    BY <1>6, LookEffect
  <2>1. /\ acqGrants' = acqGrants /\ grant' = grant /\ curGrants' = curGrants /\ holder' = holder
        /\ \A u \in Threads : pc[u] \in {"ungrant", "leaving"} => pc'[u] = pc[u] /\ Lock(u)' = Lock(u)
        /\ \A u \in Threads : pc'[u] = "leaving" => pc[u] = "leaving"
    BY <2>0 DEF LookStep, grantVars, Lock, StateInv, Shape
  <2>2. \A m \in Locks : HoldingKept(m)
    BY <2>1, HeldGrant DEF HoldingKept
  <2> QED BY <2>1, <2>2, HoldingStays DEF Holdings, StateInv
<1>7. ASSUME NEW t \in Threads, Decide(t) PROVE Holdings'
  <2>0. DecideStep(t)
    BY <1>7, DecideEffect
  <2>1. /\ acqGrants' = acqGrants /\ grant' = grant /\ curGrants' = curGrants /\ holder' = holder
        /\ \A u \in Threads : pc[u] \in {"ungrant", "leaving"} => pc'[u] = pc[u] /\ Lock(u)' = Lock(u)
        /\ \A u \in Threads : pc'[u] = "leaving" => pc[u] = "leaving"
    BY <2>0 DEF DecideStep, grantVars, Lock, StateInv, Shape
  <2>2. \A k \in Locks : HoldingKept(k)
    BY <2>1, HeldGrant DEF HoldingKept
  <2> QED BY <2>1, <2>2, HoldingStays DEF Holdings, StateInv
<1>8. ASSUME NEW t \in Threads, Enter(t) PROVE Holdings'
  <2>1. /\ acqGrants' = acqGrants /\ grant' = grant /\ curGrants' = curGrants
        /\ \A u \in Threads : pc[u] \in {"ungrant", "leaving"} => pc'[u] = pc[u] /\ Lock(u)' = Lock(u)
        /\ \A u \in Threads : pc'[u] = "leaving" => pc[u] = "leaving"
        /\ holder[Lock(t)] = NULL /\ \A k \in Locks \ {Lock(t)} : holder'[k] = holder[k]
    BY <1>8 DEF Enter, Goto, grantVars, Lock, StateInv, Shape
  <2>2. ASSUME NEW k \in Locks, acqGrants[k] # << >> PROVE holder'[k] = holder[k]
    <3>1. PICK h : h \in Elements(acqGrants[k])
      <4>1. acqGrants[k] \in Seq(LockGrants)
        BY DEF StateInv, Shape
      <4> QED BY <2>2, <4>1, EmptyElements
    <3>2. holder[k] # NULL
      BY <3>1, HeldGrant, NullAssumption
    <3> QED BY <2>1, <3>2
  <2>3. \A k \in Locks : HoldingKept(k)
    BY <2>1, <2>2, HeldGrant DEF HoldingKept
  <2> QED BY <2>1, <2>3, HoldingStays DEF Holdings, StateInv
<1>9. ASSUME NEW t \in Threads, Acquire(t) PROVE Holdings'
  <2>0. PICK l : l = Lock(t)
    OBVIOUS
  <2>1. /\ pc[t] = "acquired" /\ pc' = [pc EXCEPT ![t] = "idle"] /\ pc'[t] = "idle"
        /\ curGrants' = [curGrants EXCEPT ![t] = << >>] /\ curGrants'[t] = << >>
        /\ acqGrants' = [acqGrants EXCEPT ![l] = curGrants[t]]
        /\ holder' = holder /\ grant' = grant
        /\ \A u \in Threads \ {t} : Lock(u)' = Lock(u) /\ pc'[u] = pc[u] /\ curGrants'[u] = curGrants[u]
    BY <1>9, <2>0 DEF Acquire, Goto, grantVars, Lock, StateInv, Shape
  <2>2. l \in Locks /\ holder[l] = t
    BY <2>0, <2>1 DEF StateInv, Args, WithArg, Granted, Mutex, Owning, Lock
  <2>3. acqGrants'[l] = curGrants[t] /\ \A k \in Locks \ {l} : acqGrants'[k] = acqGrants[k]
    BY <2>1, <2>2 DEF StateInv, Shape
  <2>4. Request(t) /\ curGrants[t] \in Seq(LockGrants)
    BY DEF StateInv, Requests, Shape
  <2>5. ASSUME NEW k \in Locks \ {l} PROVE HoldingKept(k)
    <3>1. ASSUME NEW h \in Elements(acqGrants[k])
          PROVE  /\ h \notin Elements(curGrants'[Thread(h)]) /\ h \notin Elements(acqGrants'[l])
                 /\ pc[Thread(h)] = "ungrant" => Thread(h) # t
      <4>1. Thread(h) \in Threads /\ h \notin Elements(curGrants[Thread(h)])
        BY HeldGrant
      <4>2. h \notin Elements(curGrants[t])
        BY <4>1, <2>4 DEF Request
      <4>3. CASE Thread(h) = t
        BY <2>1, <2>3, <4>2, <4>3 DEF Elements
      <4>4. CASE Thread(h) # t
        BY <2>1, <2>3, <4>1, <4>2, <4>4
      <4> QED BY <4>3, <4>4
    <3> QED BY <2>1, <2>2, <2>3, <3>1, HeldGrant DEF HoldingKept
  <2>6. Holding(l)'
    <3>1. ASSUME NEW h \in Elements(curGrants[t])
          PROVE  /\ Thread(h) = t /\ grant'[h].n = 1 /\ h \notin Elements(curGrants'[t])
                 /\ \A k \in Locks \ {l} : h \notin Elements(acqGrants'[k])
      <4>1. Thread(h) = t /\ grant'[h].n = 1
        BY <2>1, <2>4 DEF Request
      <4>2. h \notin Elements(curGrants'[t])
        BY <2>1 DEF Elements
      <4>3. \A k \in Locks : h \notin Elements(acqGrants[k])
        BY <4>1, HeldGrant
      <4> QED BY <4>1, <4>2, <4>3, <2>3
    <3>2. Distinct(acqGrants'[l])
      BY <2>3, <2>4 DEF Request
    <3> QED BY <2>1, <2>2, <2>3, <3>1, <3>2 DEF Holding, Thread
  <2>7. ASSUME NEW u \in Threads, pc'[u] = "leaving" PROVE acqGrants'[Lock(u)'] = << >>
    <3>1. u # t /\ pc[u] = "leaving" /\ Lock(u)' = Lock(u)
      BY <2>1, <2>7
    <3>2. Lock(u) \in Locks /\ holder[Lock(u)] = u
      BY <3>1 DEF StateInv, Args, WithArg, Granted, Mutex, Owning, Lock
    <3> QED BY <2>2, <2>3, <3>1, <3>2 DEF StateInv, Holdings
  <2> QED BY <2>5, <2>6, <2>7, HoldingStays DEF Holdings
<1>10. ASSUME NEW t \in Threads, Leave(t) PROVE Holdings'
  <2>1. /\ pc[t] = "leaving" /\ acqGrants' = acqGrants /\ grant' = grant /\ curGrants' = curGrants
        /\ \A u \in Threads : pc[u] = "ungrant" => pc'[u] = pc[u] /\ Lock(u)' = Lock(u)
        /\ \A u \in Threads : pc'[u] = "leaving" => pc[u] = "leaving" /\ Lock(u)' = Lock(u)
        /\ \A k \in Locks \ {Lock(t)} : holder'[k] = holder[k]
    BY <1>10 DEF Leave, Goto, grantVars, Lock, StateInv, Shape
  <2>2. acqGrants[Lock(t)] = << >>
    BY <2>1 DEF StateInv, Holdings
  <2>3. \A k \in Locks : HoldingKept(k)
    BY <2>1, <2>2, HeldGrant DEF HoldingKept
  <2> QED BY <2>1, <2>3, HoldingStays DEF Holdings, StateInv
<1>11. ASSUME NEW t \in Threads, WriteLock(t) PROVE Holdings'
  <2>1. /\ acqGrants' = acqGrants /\ grant' = grant /\ curGrants' = curGrants /\ holder' = holder
        /\ \A u \in Threads : pc[u] \in {"ungrant", "leaving"} => pc'[u] = pc[u] /\ Lock(u)' = Lock(u)
        /\ \A u \in Threads : pc'[u] = "leaving" => pc[u] = "leaving"
    BY <1>11 DEF WriteLock, Goto, lockVars, grantVars, waitVars, scanVars, Lock, StateInv, Shape
  <2>2. \A k \in Locks : HoldingKept(k)
    BY <2>1, HeldGrant DEF HoldingKept
  <2> QED BY <2>1, <2>2, HoldingStays DEF Holdings, StateInv
<1>12. ASSUME NEW t \in Threads, Ungrant(t) PROVE Holdings'
  <2>1. PICK g : UngrantStep(t, g)
    BY <1>12, UngrantEffect
  <2>2. /\ acqGrants' = acqGrants /\ holder' = holder /\ curGrants' = curGrants /\ pc' = pc
        /\ g \in LockGrants /\ Thread(g) = t /\ \A u \in Threads : Lock(u)' = Lock(u)
        /\ \A h \in LockGrants : h # g => grant'[h] = grant[h]
    BY <2>1 DEF UngrantStep, TakesBack, Lock, StateInv, Shape
  <2>3. ASSUME NEW k \in Locks, g \notin Elements(acqGrants[k]) PROVE HoldingKept(k)
    BY <2>2, <2>3, HeldGrant DEF HoldingKept
  <2>4. ASSUME NEW k \in Locks, g \in Elements(acqGrants[k]) PROVE Holding(k)'
    <3>1. pc[t] = "ungrant" /\ k = Lock(t) /\ g = Head(acqGrants[k])
      BY <2>1, <2>2, <2>4, HeldGrant DEF UngrantStep, TakesBack
    <3>2. Holding(k) /\ \A h \in Elements(acqGrants[k]) : h \in LockGrants
      BY HeldGrant DEF StateInv, Holdings
    <3> QED BY <2>2, <3>1, <3>2 DEF Holding, Lock, Thread
  <2> QED BY <2>2, <2>3, <2>4, HoldingStays DEF Holdings, StateInv
<1>13. ASSUME NEW t \in Threads, WakeUp(t) PROVE Holdings'
  <2>1. PICK g, rest : WakeUpStep(t, g, rest)
    BY <1>13, WakeUpEffect
  <2>2. /\ holder' = holder /\ grant' = grant /\ \A u \in Threads : Lock(u)' = Lock(u)
        /\ \A u \in Threads \ {t} : pc'[u] = pc[u] \/ (pc[u] = "waiting" /\ pc'[u] = "grant")
    BY <2>1 DEF WakeUpStep, TakesBack, Lock
  <2>3. CASE pc[t] = "retract"
    <3>1. /\ acqGrants' = acqGrants /\ curGrants' = [curGrants EXCEPT ![t] = rest]
          /\ pc'[t] \in {"readlock", "retract"} /\ Elements(rest) \subseteq Elements(curGrants[t])
      BY <2>1, <2>3 DEF WakeUpStep, TakesBack
    <3>2. \A u \in Threads : Elements(curGrants'[u]) \subseteq Elements(curGrants[u])
      BY <3>1 DEF StateInv, Shape
    <3>3. \A k \in Locks : HoldingKept(k)
      BY <2>2, <2>3, <3>1, <3>2, HeldGrant DEF HoldingKept
    <3>4. \A u \in Threads : pc'[u] = "leaving" => pc[u] = "leaving"
      BY <2>2, <2>3, <3>1
    <3> QED BY <2>2, <3>1, <3>3, <3>4, HoldingStays DEF Holdings, StateInv
  <2>4. CASE pc[t] # "retract"
    <3>0. PICK l : l = Lock(t)
      OBVIOUS
    <3>1. /\ pc[t] = "ungrant" /\ curGrants' = curGrants /\ acqGrants' = [acqGrants EXCEPT ![l] = rest]
          /\ l \in Locks /\ g = Head(acqGrants[l])
          /\ Elements(rest) \subseteq Elements(acqGrants[l]) /\ g \notin Elements(rest) /\ Distinct(rest)
          /\ pc'[t] = IF rest = << >> THEN "leaving" ELSE "ungrant"
      BY <2>1, <2>4, <3>0 DEF WakeUpStep, TakesBack
    <3>2. acqGrants'[l] = rest /\ \A k \in Locks \ {l} : acqGrants'[k] = acqGrants[k]
      BY <3>1 DEF StateInv, Shape
    <3>3. holder[l] = t
      BY <3>0, <3>1 DEF StateInv, Mutex, Owning
    <3>4. ASSUME NEW k \in Locks \ {l} PROVE HoldingKept(k)
      <4>1. ASSUME NEW h \in Elements(acqGrants[k]), pc[Thread(h)] = "ungrant", Lock(Thread(h)) = k
            PROVE  pc'[Thread(h)] = "ungrant"
        <5>1. Thread(h) \in Threads /\ Thread(h) # t
          BY <3>0, <4>1, HeldGrant
        <5> QED BY <2>2, <4>1, <5>1
      <4>2. ASSUME NEW h \in Elements(acqGrants[k]), NEW m \in Locks \ {k}
            PROVE  h \notin Elements(acqGrants'[m])
        BY <3>1, <3>2, HeldGrant
      <4> QED BY <2>2, <3>1, <3>2, <4>1, <4>2, HeldGrant DEF HoldingKept
    <3>5. Holding(l)'
      <4>1. ASSUME NEW h \in Elements(rest)
            PROVE  /\ holder'[l] = Thread(h) /\ grant'[h].n = 1
                   /\ h \notin Elements(curGrants'[Thread(h)])
                   /\ \A k \in Locks \ {l} : h \notin Elements(acqGrants'[k])
        BY <2>2, <3>1, <3>2, HeldGrant
      <4> QED BY <3>1, <3>2, <4>1 DEF Holding, Thread
    <3>6. ASSUME NEW u \in Threads, pc'[u] = "leaving" PROVE acqGrants'[Lock(u)'] = << >>
      <4>1. CASE u = t
        BY <2>2, <3>1, <3>2, <3>6, <4>1, <3>0
      <4>2. CASE u # t
        <5>1. pc[u] = "leaving" /\ Lock(u)' = Lock(u)
          BY <2>2, <3>6, <4>2
        <5>2. Lock(u) \in Locks /\ holder[Lock(u)] = u
          BY <5>1 DEF StateInv, Args, WithArg, Granted, Mutex, Owning, Lock
        <5> QED BY <3>2, <3>3, <4>2, <5>1, <5>2 DEF StateInv, Holdings
      <4> QED BY <4>1, <4>2
    <3> QED BY <3>4, <3>5, <3>6, HoldingStays DEF Holdings
  <2> QED BY <2>3, <2>4
<1>14. ASSUME NEW t \in Threads, ReadLock(t) PROVE Holdings'
  <2>1. /\ acqGrants' = acqGrants /\ grant' = grant /\ curGrants' = curGrants /\ holder' = holder
        /\ \A u \in Threads : pc[u] \in {"ungrant", "leaving"} => pc'[u] = pc[u] /\ Lock(u)' = Lock(u)
        /\ \A u \in Threads : pc'[u] = "leaving" => pc[u] = "leaving"
    BY <1>14 DEF ReadLock, Goto, lockVars, grantVars, waitVars, scanVars, Lock, StateInv, Shape
  <2>2. \A k \in Locks : HoldingKept(k)
    BY <2>1, HeldGrant DEF HoldingKept
  <2> QED BY <2>1, <2>2, HoldingStays DEF Holdings, StateInv
<1>15. ASSUME NEW t \in Threads, Yield(t) PROVE Holdings'
  <2>1. /\ acqGrants' = acqGrants /\ grant' = grant /\ curGrants' = curGrants /\ holder' = holder
        /\ \A u \in Threads : pc[u] \in {"ungrant", "leaving"} => pc'[u] = pc[u] /\ Lock(u)' = Lock(u)
        /\ \A u \in Threads : pc'[u] = "leaving" => pc[u] = "leaving"
    BY <1>15 DEF Yield, Goto, lockVars, grantVars, waitVars, scanVars, Lock, StateInv, Shape
  <2>2. \A k \in Locks : HoldingKept(k)
    BY <2>1, HeldGrant DEF HoldingKept
  <2> QED BY <2>1, <2>2, HoldingStays DEF Holdings, StateInv
<1>16. ASSUME NEW t \in Threads, SpuriousWakeup(t) PROVE Holdings'
  <2>1. /\ acqGrants' = acqGrants /\ grant' = grant /\ curGrants' = curGrants /\ holder' = holder
        /\ \A u \in Threads : pc[u] \in {"ungrant", "leaving"} => pc'[u] = pc[u] /\ Lock(u)' = Lock(u)
        /\ \A u \in Threads : pc'[u] = "leaving" => pc[u] = "leaving"
    BY <1>16 DEF SpuriousWakeup, Goto, lockVars, grantVars, waitVars, scanVars, Lock, StateInv, Shape
  <2>2. \A k \in Locks : HoldingKept(k)
    BY <2>1, HeldGrant DEF HoldingKept
  <2> QED BY <2>1, <2>2, HoldingStays DEF Holdings, StateInv
<1>17. ASSUME NEW t \in Threads, BypassLivelock(t) PROVE Holdings'
  <2>1. /\ acqGrants' = acqGrants /\ grant' = grant /\ curGrants' = curGrants /\ holder' = holder
        /\ \A u \in Threads : pc[u] \in {"ungrant", "leaving"} => pc'[u] = pc[u] /\ Lock(u)' = Lock(u)
        /\ \A u \in Threads : pc'[u] = "leaving" => pc[u] = "leaving"
    BY <1>17 DEF BypassLivelock, Goto, lockVars, grantVars, waitVars, scanVars, Lock, StateInv, Shape
  <2>2. \A k \in Locks : HoldingKept(k)
    BY <2>1, HeldGrant DEF HoldingKept
  <2> QED BY <2>1, <2>2, HoldingStays DEF Holdings, StateInv
<1>18. ASSUME NEW t \in Threads, NEW s, NEW i, SkipAvoidance(t, s, i) PROVE Holdings'
  <2>0. SkipStep(t)
    BY <1>18, SkipEffect
  <2>1. /\ acqGrants' = acqGrants /\ grant' = grant /\ curGrants' = curGrants /\ holder' = holder
        /\ \A u \in Threads : pc[u] \in {"ungrant", "leaving"} => pc'[u] = pc[u] /\ Lock(u)' = Lock(u)
        /\ \A u \in Threads : pc'[u] = "leaving" => pc[u] = "leaving"
    BY <2>0 DEF SkipStep, Lock, StateInv, Shape
  <2>2. \A k \in Locks : HoldingKept(k)
    BY <2>1, HeldGrant DEF HoldingKept
  <2> QED BY <2>1, <2>2, HoldingStays DEF Holdings, StateInv
<1> QED
  BY <1>0, <1>1, <1>2, <1>3, <1>4, <1>5, <1>6, <1>7, <1>8, <1>9, <1>10, <1>11, <1>12, <1>13, <1>14, <1>15, <1>16, <1>17, <1>18 DEF Next, Step

LEMMA InitState == Init => StateInv
<1> SUFFICES ASSUME Init PROVE StateInv
  OBVIOUS
<1>1. << >> \in Seq(LockGrants) /\ << >> \in Seq(Seq(Entries)) /\ Elements(<< >>) = {}
  BY DEF Elements
<1>2. ScanOf({}) \in Scans
  BY <1>1 DEF ScanOf, Scans
<1>3. Shape
  <2>1. \A t \in Threads : [i \in 1..PoolSize |-> <<t, i>>] \in Seq(LockGrants)
    BY PoolAssumption DEF LockGrants
  <2>2. removed \in [Threads -> Seq(LockGrants)]
    BY <2>1 DEF Init
  <2>3. acqGrants \in [Locks -> Seq(LockGrants)] /\ lockGrants \in [Positions -> Seq(LockGrants)]
        /\ curGrants \in [Threads -> Seq(LockGrants)] /\ scan \in [Threads -> Scans]
    BY <1>1, <1>2 DEF Init
  <2> QED BY <2>2, <2>3 DEF Init, Shape, Unused
<1>4. Args
  BY DEF Init, Args, WithArg, Granted, Asking, InHistory
<1>5. Mutex
  BY DEF Init, Mutex, Owning
<1>6. Requests
  BY <1>1 DEF Init, Requests, Request, Distinct
<1>7. Holdings
  BY <1>1 DEF Init, Holdings, Holding, Distinct
<1>8. Pools
  <2>1. ASSUME NEW t \in Threads
        PROVE  Distinct(removed[t]) /\ \A g \in Elements(removed[t]) : Thread(g) = t /\ grant[g].n = 0
    <3>1. removed[t] = [i \in 1..PoolSize |-> <<t, i>>]
      BY DEF Init
    <3>2. Distinct(removed[t])
      BY <3>1 DEF Distinct
    <3>3. ASSUME NEW g \in Elements(removed[t]) PROVE Thread(g) = t /\ grant[g].n = 0
      <4>1. PICK i \in 1..PoolSize : g = <<t, i>>
        BY <3>1 DEF Elements
      <4>2. g \in LockGrants /\ Thread(g) = t
        BY <4>1 DEF LockGrants, Thread
      <4> QED BY <4>2 DEF Init, Unused
    <3> QED BY <3>2, <3>3
  <2>2. \A g \in LockGrants : grant[g].n = 0
    BY DEF Init, Unused
  <2> QED BY <2>1, <2>2 DEF Pools
<1>9. Scanning
  BY DEF Init, Scanning, Scan
<1> QED BY <1>3, <1>4, <1>5, <1>6, <1>7, <1>8, <1>9 DEF StateInv

LEMMA StateStep == StateInv /\ [Next]_vars => StateInv'
  BY ShapeStep, ArgsStep, MutexStep, RequestsStep, HoldingsStep, PoolsStep, ScanningStep DEF StateInv

(* A scan that has seen all the grants of an instance finds one. *)
LEMMA ScanFinds ==
  ASSUME StateInv, NEW t \in Threads, pc[t] = "scan", Len(scan[t].seen) = Len(Signature(t)),
         NEW s \in DOMAIN History, NEW f, IsInstance(s, f), NEW j \in DOMAIN History[s],
         Thread(f[j]) = t, f[j] \in Elements(curGrants[t]), At(t) = <<s, j>>,
         \A k \in DOMAIN scan[t].seen : k # j => f[k] \in Elements(scan[t].seen[k])
  PROVE  Instances(scan[t].seen) # {}
<1> DEFINE seen == scan[t].seen
           c == curGrants[t][1]
           h == [k \in DOMAIN seen |-> IF k = j THEN c ELSE f[k]]
           x == [k \in DOMAIN seen |-> CHOOSE i \in DOMAIN seen[k] : seen[k][i] = h[k]]
<1>1. Signature(t) = History[s] /\ Index(t) = j
  BY DEF Signature, Index
<1>2. seen \in Seq(Seq(Entries)) /\ c \in Elements(curGrants[t])
  BY ScanFacts
<1>3. DOMAIN seen = DOMAIN History[s] /\ Len(seen) >= j
  BY <1>1, <1>2, HistoryShape
<1>4. seen[j] = <<c>>
  BY <1>1, <1>3 DEF StateInv, Scanning, Scan
<1>5. ASSUME NEW k \in DOMAIN seen
      PROVE  x[k] \in DOMAIN seen[k] /\ seen[k][x[k]] = h[k]
  <2>1. \E i \in DOMAIN seen[k] : seen[k][i] = h[k]
    <3>1. CASE k = j
      <4>1. 1 \in DOMAIN seen[k] /\ seen[k][1] = h[k]
        BY <1>4, <3>1
      <4> QED BY <4>1
    <3>2. CASE k # j
      BY <3>2 DEF Elements
    <3> QED BY <3>1, <3>2
  <2> QED BY <2>1
<1>6. /\ Thread(c) = t /\ grant[c].lock = grant[f[j]].lock
  BY <1>2 DEF StateInv, Requests, Request
<1>7. ASSUME NEW i \in DOMAIN seen, NEW k \in DOMAIN seen, i # k PROVE Disjoint(h[i], h[k])
  <2>1. Disjoint(f[i], f[k])
    BY <1>3, <1>7 DEF IsInstance
  <2>2. h[i] = f[i] \/ (i = j /\ h[i] = c)
    OBVIOUS
  <2>3. h[k] = f[k] \/ (k = j /\ h[k] = c)
    OBVIOUS
  <2> HIDE DEF h
  <2> QED BY <1>6, <1>7, <2>1, <2>2, <2>3 DEF Disjoint
<1> HIDE DEF h
<1>8. x \in [DOMAIN seen -> UNION {DOMAIN seen[i] : i \in DOMAIN seen}]
  <2>1. \A k \in DOMAIN seen : x[k] \in UNION {DOMAIN seen[i] : i \in DOMAIN seen}
    BY <1>5
  <2>2. x = [k \in DOMAIN seen |-> x[k]]
    OBVIOUS
  <2> HIDE DEF x
  <2> QED BY <2>1, <2>2
<1>9. DOMAIN x = DOMAIN seen
  OBVIOUS
<1> HIDE DEF x
<1>10. ASSUME NEW k \in DOMAIN seen PROVE h[k] # NULL
  <2>1. c \in LockGrants /\ f[k] \in LockGrants
    BY <1>3, ScanFacts DEF IsInstance, Live
  <2>2. h[k] \in LockGrants
    BY <2>1 DEF h
  <2> QED BY <2>2, NullAssumption DEF LockGrants
<1>11. x \in Instances(seen)
  <2> HIDE DEF seen
  <2>1. \A i \in DOMAIN x : x[i] \in DOMAIN seen[i] /\ seen[i][x[i]] # NULL
    BY <1>5, <1>9, <1>10
  <2>2. \A i, k \in DOMAIN x : i = k \/ Disjoint(seen[i][x[i]], seen[k][x[k]])
    BY <1>5, <1>7, <1>9
  <2> QED BY <1>8, <2>1, <2>2 DEF Instances
<1> QED BY <1>11

(* The numbering of the grants *)

(* f, whose last grant is that of j, does without any new grant. *)
Stays(s, f, j) ==
  /\ IsInstance(s, f)
  /\ Pending(s, f, j) => Pending(s, f, j)'

LEMMA SameNumbers ==
  ASSUME LastIsPending,
         \A s, f : \A j \in DOMAIN History[s] : IsInstance(s, f)' => Stays(s, f, j)
  PROVE  LastIsPending'
<1>1. PICK N \in Nat : \E stamp \in [LockGrants -> 0..N] : Numbered(N, stamp)
  BY DEF LastIsPending
<1>2. PICK stamp \in [LockGrants -> 0..N] : Numbered(N, stamp)
  BY <1>1
<1>3. Numbered(N, stamp)'
  <2> SUFFICES ASSUME NEW s \in DOMAIN History, NEW f, NEW j \in DOMAIN History[s], IsInstance(s, f)',
                      \A i \in DOMAIN f : stamp[f[i]] <= stamp[f[j]]
               PROVE  Pending(s, f, j)'
    BY DEF Numbered
  <2>1. Stays(s, f, j)
    OBVIOUS
  <2> QED BY <2>1, <1>2 DEF Stays, Numbered
<1> QED BY <1>3 DEF LastIsPending

(* The grants that are live and that were not let through stay as they are.  *)
NoneNew ==
  \A g \in LockGrants :
    g \in (Live \ through)' => g \in Live \ through /\ grant'[g] = grant[g]

LEMMA InstanceWas ==
  ASSUME NoneNew, NEW s, NEW f, IsInstance(s, f)'
  PROVE  IsInstance(s, f)
<1>1. /\ s \in DOMAIN History /\ f \in [DOMAIN History[s] -> (Live \ through)']
      /\ \A i \in DOMAIN f : grant'[f[i]].pos = History[s][i]
      /\ \A i, j \in DOMAIN f : i = j \/ (Thread(f[i]) # Thread(f[j]) /\ grant'[f[i]].lock # grant'[f[j]].lock)
  BY DEF IsInstance, Disjoint, Thread
<1>2. \A i \in DOMAIN History[s] : f[i] \in (Live \ through)' /\ f[i] \in LockGrants
  BY <1>1 DEF Live
<1>3. \A i \in DOMAIN History[s] : f[i] \in Live \ through /\ grant'[f[i]] = grant[f[i]]
  BY <1>2 DEF NoneNew
<1> QED BY <1>1, <1>3 DEF IsInstance, Disjoint

(* What a pending thread is about stays as it is. *)
AskingKept(v) ==
  pc[v] \in Asking =>
    pc'[v] = pc[v] /\ curGrants'[v] = curGrants[v] /\ scan'[v] = scan[v]

LEMMA PendingStays ==
  ASSUME NEW s, NEW f, NEW j, AskingKept(Thread(f[j])), Pending(s, f, j)
  PROVE  Pending(s, f, j)'
<1> DEFINE v == Thread(f[j])
<1>1. pc[v] \in Asking
  BY DEF Pending, Asking
<1>2. /\ v' = v /\ pc'[v] = pc[v] /\ curGrants'[v] = curGrants[v] /\ scan'[v] = scan[v]
  BY <1>1 DEF AskingKept, Thread
<1>3. At(v)' = At(v)
  BY <1>2 DEF At
<1> QED BY <1>2, <1>3 DEF Pending

LEMMA QuietStep ==
  ASSUME LastIsPending, NoneNew, StateInv, \A v \in Threads : AskingKept(v)
  PROVE  LastIsPending'
<1> SUFFICES ASSUME NEW s, NEW f, NEW j \in DOMAIN History[s], IsInstance(s, f)'
             PROVE  Stays(s, f, j)
  BY SameNumbers
<1>1. IsInstance(s, f)
  BY InstanceWas
<1>2. Thread(f[j]) \in Threads
  BY <1>1 DEF IsInstance, Live, LockGrants, Thread
<1> QED BY <1>1, <1>2, PendingStays DEF Stays

(* The last grant of an instance is pending after each step, too. *)
LEMMA PendingStep == StateInv /\ LastIsPending /\ [Next]_vars => LastIsPending'
<1> SUFFICES ASSUME StateInv, LastIsPending, [Next]_vars PROVE LastIsPending'
  OBVIOUS
<1>0. CASE UNCHANGED vars
  <2>1. grant' = grant /\ through' = through
    BY <1>0 DEF vars, lockVars, grantVars, waitVars, scanVars
  <2>2. \A v \in Threads : AskingKept(v)
    BY <1>0 DEF vars, lockVars, grantVars, waitVars, scanVars, AskingKept, Asking, StateInv, Shape
  <2>3. NoneNew
    BY <2>1 DEF NoneNew, Live
  <2> QED BY <2>2, <2>3, QuietStep
<1>1. CASE CheckForYieldCycles
  <2>1. grant' = grant /\ through' = through
    BY <1>1 DEF CheckForYieldCycles, lockVars, grantVars, waitVars, scanVars
  <2>2. \A v \in Threads : AskingKept(v)
    BY <1>1 DEF CheckForYieldCycles, lockVars, grantVars, waitVars, scanVars, AskingKept, Asking, StateInv, Shape
  <2>3. NoneNew
    BY <2>1 DEF NoneNew, Live
  <2> QED BY <2>2, <2>3, QuietStep
<1>2. ASSUME NEW t \in Threads, NEW l \in Locks, NEW p \in Positions, Avoidance(t, l, p) PROVE LastIsPending'
  <2>1. grant' = grant /\ through' = through
    BY <1>2 DEF Avoidance, Goto, lockVars, grantVars, waitVars, scanVars
  <2>2. \A v \in Threads : AskingKept(v)
    BY <1>2 DEF Avoidance, Goto, lockVars, grantVars, waitVars, scanVars, AskingKept, Asking, StateInv, Shape
  <2>3. NoneNew
    BY <2>1 DEF NoneNew, Live
  <2> QED BY <2>2, <2>3, QuietStep
<1>3. ASSUME NEW t \in Threads, NEW l \in Locks, Reenter(t, l) PROVE LastIsPending'
  <2>1. grant' = grant /\ through' = through
    BY <1>3 DEF Reenter, Goto, lockVars, grantVars, waitVars, scanVars
  <2>2. \A v \in Threads : AskingKept(v)
    BY <1>3 DEF Reenter, Goto, lockVars, grantVars, waitVars, scanVars, AskingKept, Asking, StateInv, Shape
  <2>3. NoneNew
    BY <2>1 DEF NoneNew, Live
  <2> QED BY <2>2, <2>3, QuietStep
<1>4. ASSUME NEW t \in Threads, NEW l \in Locks, Release(t, l) PROVE LastIsPending'
  <2>0. ReleaseStep(t, l)
    BY <1>4, ReleaseEffect
  <2>1. grant' = grant /\ through' = through
    BY <2>0 DEF ReleaseStep
  <2>2. \A v \in Threads : AskingKept(v)
    BY <2>0 DEF ReleaseStep, AskingKept, Asking, StateInv, Shape
  <2>3. NoneNew
    BY <2>1 DEF NoneNew, Live
  <2> QED BY <2>2, <2>3, QuietStep
<1>5. ASSUME NEW t \in Threads, Grant(t) PROVE LastIsPending'
  <2>1. PICK g, p : GrantStep(t, g, p)
    BY <1>5, GrantEffect
  <2>2. PICK N \in Nat : \E stamp \in [LockGrants -> 0..N] : Numbered(N, stamp)
    BY DEF LastIsPending
  <2>3. PICK stamp \in [LockGrants -> 0..N] : Numbered(N, stamp)
    BY <2>2
  <2> DEFINE new == [stamp EXCEPT ![g] = N + 1]
  <2>4. /\ new \in [LockGrants -> 0..(N + 1)] /\ N + 1 \in Nat
        /\ new[g] = N + 1 /\ \A h \in LockGrants \ {g} : new[h] = stamp[h] /\ new[h] <= N
    BY <2>1 DEF GrantStep
  <2>5. /\ grant'[g] = [lock |-> Lock(t), pos |-> p, n |-> 1]
        /\ \A h \in LockGrants \ {g} : grant'[h] = grant[h]
        /\ through' = through /\ g \in LockGrants
    BY <2>1 DEF GrantStep, StateInv, Shape
  <2> HIDE DEF new
  <2>6. ASSUME NEW s \in DOMAIN History, NEW f, NEW j \in DOMAIN History[s], IsInstance(s, f)',
               \A i \in DOMAIN f : new[f[i]] <= new[f[j]]
        PROVE  Pending(s, f, j)'
    <3>1. /\ f \in [DOMAIN History[s] -> (Live \ through)']
          /\ \A i \in DOMAIN f : grant'[f[i]].pos = History[s][i]
          /\ \A i, k \in DOMAIN f : i = k \/ (Thread(f[i]) # Thread(f[k]) /\ grant'[f[i]].lock # grant'[f[k]].lock)
      BY <2>6 DEF IsInstance, Disjoint, Thread
    <3>2. \A i \in DOMAIN History[s] : f[i] \in LockGrants /\ f[i] \in (Live \ through)'
      BY <3>1 DEF Live
    <3>3. CASE f[j] \in Elements(curGrants'[t]) /\ Thread(f[j]) = t /\ grant'[f[j]].pos = p
      <4>1. CASE pc' = pc /\ scan' = scan
        BY <2>1, <3>3, <4>1 DEF GrantStep, Pending, Thread
      <4>2. CASE /\ pc' = [pc EXCEPT ![t] = "scan"]
                 /\ scan' = [scan EXCEPT ![t] = ScanOf(MatchingPositions(p))]
        <5>1. pc'[t] = "scan" /\ scan'[t] = ScanOf(MatchingPositions(p))
          BY <4>2 DEF StateInv, Shape
        <5>2. scan'[t].left = MatchingPositions(p) /\ scan'[t].seen = << >>
          BY <5>1 DEF ScanOf
        <5>3. <<s, j>> \in MatchingPositions(p)
          <6>1. History[s][j] = p
            BY <3>1, <3>3
          <6> QED BY <6>1, <2>6, MatchingIs
        <5>4. DOMAIN scan'[t].seen = {}
          BY <5>2
        <5> QED BY <3>3, <5>1, <5>2, <5>3, <5>4 DEF Pending, Thread
      <4> QED BY <2>1, <4>1, <4>2 DEF GrantStep
    <3>4. CASE \E i \in DOMAIN History[s] : f[i] = g
      <4>1. PICK i \in DOMAIN History[s] : f[i] = g
        BY <3>4
      <4>2. f[j] = g
        <5>1. new[g] <= new[f[j]]
          BY <2>6, <3>1, <4>1
        <5> QED BY <2>4, <3>2, <5>1
      <4>3. grant'[g].pos = p
        BY <2>5
      <4> QED BY <2>1, <3>3, <4>2, <4>3 DEF GrantStep
    <3>5. CASE \A i \in DOMAIN History[s] : f[i] # g
      <4>1. \A i \in DOMAIN History[s] : /\ f[i] \in LockGrants \ {g} /\ grant'[f[i]] = grant[f[i]]
                                         /\ f[i] \in Live \ through
        <5>1. \A i \in DOMAIN History[s] : f[i] \in LockGrants \ {g} /\ grant'[f[i]] = grant[f[i]]
          BY <2>5, <3>2, <3>5
        <5> QED BY <2>5, <3>2, <5>1 DEF Live
      <4>2. IsInstance(s, f)
        BY <2>6, <3>1, <4>1 DEF IsInstance, Disjoint
      <4>3. \A i \in DOMAIN f : stamp[f[i]] <= stamp[f[j]]
        BY <2>4, <2>6, <3>1, <4>1
      <4>4. Pending(s, f, j)
        BY <2>3, <2>6, <4>2, <4>3 DEF Numbered
      <4>5. CASE Thread(f[j]) # t
        <5>1. Thread(f[j]) \in Threads
          BY <3>2 DEF LockGrants, Thread
        <5>2. AskingKept(Thread(f[j]))
          BY <2>1, <4>5, <5>1 DEF GrantStep, AskingKept, Asking, StateInv, Shape
        <5> QED BY <4>4, <5>2, PendingStays
      <4>6. CASE Thread(f[j]) = t
        <5>1. f[j] \in Elements(curGrants[t])
          BY <4>4, <4>6 DEF Pending
        <5>2. grant[f[j]].pos = arg[t][2]
          BY <5>1 DEF StateInv, Requests, Request
        <5> QED BY <2>1, <3>3, <4>1, <4>6, <5>1, <5>2 DEF GrantStep
      <4> QED BY <4>5, <4>6
    <3> QED BY <3>4, <3>5
  <2>7. Numbered(N + 1, new)'
    BY <2>6 DEF Numbered
  <2> QED BY <2>4, <2>7 DEF LastIsPending
<1>6. ASSUME NEW t \in Threads, Look(t) PROVE LastIsPending'
  <2>1. PICK k : LookStep(t, k)
    BY <1>6, LookEffect
  <2>2. NoneNew
    BY <2>1 DEF LookStep, grantVars, NoneNew, Live
  <2> SUFFICES ASSUME NEW s, NEW f, NEW j \in DOMAIN History[s], IsInstance(s, f)'
               PROVE  Stays(s, f, j)
    BY <2>2, SameNumbers
  <2>3. IsInstance(s, f)
    BY <2>2, InstanceWas
  <2>4. f[j] \in LockGrants /\ Thread(f[j]) \in Threads /\ grant[f[j]].n = 1 /\ grant'[f[j]].n = 1
        /\ f[j] \notin through'
    <3>1. f[j] \in Live \ through /\ f[j] \in (Live \ through)'
      BY <2>3 DEF IsInstance
    <3> QED BY <3>1 DEF Live, LockGrants, Thread
  <2> SUFFICES ASSUME Pending(s, f, j) PROVE Pending(s, f, j)'
    BY <2>3 DEF Stays
  <2>5. CASE Thread(f[j]) # t
    <3>1. AskingKept(Thread(f[j]))
      BY <2>1, <2>4, <2>5 DEF LookStep, grantVars, AskingKept, Asking, StateInv, Shape
    <3> QED BY <3>1, PendingStays
  <2>6. CASE Thread(f[j]) = t
    <3>1. /\ pc[t] = "scan" /\ pc' = pc /\ curGrants' = curGrants /\ scan'[t].left = scan[t].left
          /\ DOMAIN scan'[t].seen = 1..k /\ k \in 1..Len(Signature(t))
          /\ scan[t].cut => scan'[t].cut
          /\ \A i \in 1..(k - 1) : i \in DOMAIN scan[t].seen /\ scan'[t].seen[i] = scan[t].seen[i]
          /\ k # Index(t) => scan'[t].cut \/ scan'[t].seen[k] = lockGrants[Signature(t)[k]]
      BY <2>1 DEF LookStep
    <3>2. f[j] \in Elements(curGrants'[t])
      BY <2>6, <3>1 DEF Pending
    <3>3. CASE scan'[t].cut
      BY <2>6, <3>1, <3>2, <3>3 DEF Pending, Thread
    <3>4. CASE ~ scan'[t].cut
      <4>1. /\ <<s, j>> \in scan[t].left
            /\ At(t) = <<s, j>> => \A i \in DOMAIN scan[t].seen : i # j => f[i] \in Elements(scan[t].seen[i])
        BY <2>6, <3>1, <3>4 DEF Pending
      <4>2. At(t)' = At(t)
        BY <3>1 DEF At
      <4>3. ASSUME At(t) = <<s, j>>, NEW i \in DOMAIN scan'[t].seen, i # j
            PROVE  f[i] \in Elements(scan'[t].seen[i])
        <5>1. CASE i # k
          <6>1. i \in 1..(k - 1)
            BY <3>1, <4>3, <5>1, ScanFacts
          <6> QED BY <3>1, <4>1, <4>3, <6>1
        <5>2. CASE i = k
          <6>1. Signature(t) = History[s] /\ Index(t) = j
            BY <4>3 DEF Signature, Index
          <6>2. s \in DOMAIN History /\ DOMAIN History[s] = 1..Len(History[s])
            BY <2>3, HistoryShape DEF IsInstance
          <6>3. f[i] \in Live /\ grant[f[i]].pos = History[s][i]
            BY <2>3, <3>1, <5>2, <6>1, <6>2 DEF IsInstance
          <6>4. f[i] \in Elements(lockGrants[History[s][i]])
            BY <6>3 DEF Live, StateInv, Pools
          <6> QED BY <3>1, <3>4, <4>3, <5>2, <6>1, <6>4
        <5> QED BY <5>1, <5>2
      <4> QED BY <2>6, <3>1, <3>2, <4>1, <4>2, <4>3 DEF Pending, Thread
    <3> QED BY <3>3, <3>4
  <2> QED BY <2>5, <2>6
<1>7. ASSUME NEW t \in Threads, Decide(t) PROVE LastIsPending'
  <2>1. DecideStep(t)
    BY <1>7, DecideEffect
  <2>2. NoneNew
    <3>1. grant' = grant /\ through \subseteq through'
      BY <2>1 DEF DecideStep, grantVars
    <3> QED BY <3>1 DEF NoneNew, Live
  <2> SUFFICES ASSUME NEW s, NEW f, NEW j \in DOMAIN History[s], IsInstance(s, f)'
               PROVE  Stays(s, f, j)
    BY <2>2, SameNumbers
  <2>3. IsInstance(s, f)
    BY <2>2, InstanceWas
  <2>4. f[j] \in LockGrants /\ Thread(f[j]) \in Threads /\ grant[f[j]].n = 1 /\ grant'[f[j]].n = 1
        /\ f[j] \notin through'
    <3>1. f[j] \in Live \ through /\ f[j] \in (Live \ through)'
      BY <2>3 DEF IsInstance
    <3> QED BY <3>1 DEF Live, LockGrants, Thread
  <2> SUFFICES ASSUME Pending(s, f, j) PROVE Pending(s, f, j)'
    BY <2>3 DEF Stays
  <2>5. CASE Thread(f[j]) # t
    <3>1. AskingKept(Thread(f[j]))
      BY <2>1, <2>4, <2>5 DEF DecideStep, grantVars, AskingKept, Asking, StateInv, Shape
    <3> QED BY <3>1, PendingStays
  <2>6. CASE Thread(f[j]) = t
    <3>1. /\ pc[t] = "scan" /\ curGrants' = curGrants /\ Len(scan[t].seen) = Len(Signature(t))
          /\ f[j] \in Elements(curGrants[t]) /\ f[j] \in Elements(curGrants'[t])
      BY <2>1, <2>6 DEF DecideStep, grantVars, Pending
    <3>2. ASSUME ~ scan[t].cut, Instances(scan[t].seen) = {} PROVE <<s, j>> \in scan[t].left \ {At(t)}
      <4>1. /\ <<s, j>> \in scan[t].left
            /\ At(t) = <<s, j>> => \A i \in DOMAIN scan[t].seen : i # j => f[i] \in Elements(scan[t].seen[i])
        BY <2>6, <3>1, <3>2 DEF Pending
      <4>2. s \in DOMAIN History
        BY <2>3 DEF IsInstance
      <4>3. At(t) # <<s, j>>
        BY <2>3, <2>6, <3>1, <3>2, <4>1, <4>2, ScanFinds
      <4> QED BY <4>1, <4>3
    <3>3. CASE pc' = [pc EXCEPT ![t] = "retract"]
      <4>1. pc'[t] = "retract"
        BY <3>3 DEF StateInv, Shape
      <4> QED BY <2>6, <3>1, <4>1 DEF Pending, Thread
    <3>4. CASE /\ Instances(scan[t].seen) = {} \/ scan'[t].cut
               /\ scan[t].cut => scan'[t].cut
               /\ scan'[t].left = scan[t].left \ {At(t)} /\ scan'[t].left # {}
               /\ scan'[t].seen = << >> /\ pc' = pc /\ through' = through
      <4>1. scan'[t].cut \/ <<s, j>> \in scan'[t].left
        BY <3>2, <3>4
      <4>2. DOMAIN scan'[t].seen = {}
        BY <3>4
      <4> QED BY <2>6, <3>1, <3>4, <4>1, <4>2 DEF Pending, Thread
    <3>5. CASE /\ scan[t].left \ {At(t)} = {}
               /\ \/ Instances(scan[t].seen) = {} /\ ~ scan[t].cut /\ through' = through
                  \/ through' = through \cup Elements(curGrants[t])
      BY <2>4, <3>1, <3>2, <3>5
    <3> QED BY <2>1, <3>3, <3>4, <3>5 DEF DecideStep
  <2> QED BY <2>5, <2>6
<1>8. ASSUME NEW t \in Threads, Enter(t) PROVE LastIsPending'
  <2>1. grant' = grant /\ through' = through
    BY <1>8 DEF Enter, Goto, lockVars, grantVars, waitVars, scanVars
  <2>2. \A v \in Threads : AskingKept(v)
    BY <1>8 DEF Enter, Goto, lockVars, grantVars, waitVars, scanVars, AskingKept, Asking, StateInv, Shape
  <2>3. NoneNew
    BY <2>1 DEF NoneNew, Live
  <2> QED BY <2>2, <2>3, QuietStep
<1>9. ASSUME NEW t \in Threads, Acquire(t) PROVE LastIsPending'
  <2>1. grant' = grant /\ through' = through
    BY <1>9 DEF Acquire, Goto, lockVars, grantVars, waitVars, scanVars
  <2>2. \A v \in Threads : AskingKept(v)
    BY <1>9 DEF Acquire, Goto, lockVars, grantVars, waitVars, scanVars, AskingKept, Asking, StateInv, Shape
  <2>3. NoneNew
    BY <2>1 DEF NoneNew, Live
  <2> QED BY <2>2, <2>3, QuietStep
<1>10. ASSUME NEW t \in Threads, Leave(t) PROVE LastIsPending'
  <2>1. grant' = grant /\ through' = through
    BY <1>10 DEF Leave, Goto, lockVars, grantVars, waitVars, scanVars
  <2>2. \A v \in Threads : AskingKept(v)
    BY <1>10 DEF Leave, Goto, lockVars, grantVars, waitVars, scanVars, AskingKept, Asking, StateInv, Shape
  <2>3. NoneNew
    BY <2>1 DEF NoneNew, Live
  <2> QED BY <2>2, <2>3, QuietStep
<1>11. ASSUME NEW t \in Threads, WriteLock(t) PROVE LastIsPending'
  <2>1. grant' = grant /\ through' = through
    BY <1>11 DEF WriteLock, Goto, lockVars, grantVars, waitVars, scanVars
  <2>2. \A v \in Threads : AskingKept(v)
    BY <1>11 DEF WriteLock, Goto, lockVars, grantVars, waitVars, scanVars, AskingKept, Asking, StateInv, Shape
  <2>3. NoneNew
    BY <2>1 DEF NoneNew, Live
  <2> QED BY <2>2, <2>3, QuietStep
<1>12. ASSUME NEW t \in Threads, Ungrant(t) PROVE LastIsPending'
  <2>1. PICK g : UngrantStep(t, g)
    BY <1>12, UngrantEffect
  <2>2. NoneNew
    <3>1. grant'[g].n = 0 /\ \A h \in LockGrants \ {g} : grant'[h] = grant[h]
      BY <2>1 DEF UngrantStep, TakesBack, StateInv, Shape
    <3> QED BY <2>1, <3>1 DEF UngrantStep, TakesBack, NoneNew, Live
  <2>3. \A v \in Threads : AskingKept(v)
    BY <2>1 DEF UngrantStep, TakesBack, AskingKept
  <2> QED BY <2>2, <2>3, QuietStep
<1>13. ASSUME NEW t \in Threads, WakeUp(t) PROVE LastIsPending'
  <2>1. PICK g, rest : WakeUpStep(t, g, rest)
    BY <1>13, WakeUpEffect
  <2>2. NoneNew
    BY <2>1 DEF WakeUpStep, TakesBack, NoneNew, Live
  <2> SUFFICES ASSUME NEW s, NEW f, NEW j \in DOMAIN History[s], IsInstance(s, f)'
               PROVE  Stays(s, f, j)
    BY <2>2, SameNumbers
  <2>3. IsInstance(s, f)
    BY <2>2, InstanceWas
  <2>4. f[j] \in LockGrants /\ Thread(f[j]) \in Threads /\ grant[f[j]].n = 1 /\ grant'[f[j]].n = 1
        /\ f[j] \notin through'
    <3>1. f[j] \in Live \ through /\ f[j] \in (Live \ through)'
      BY <2>3 DEF IsInstance
    <3> QED BY <3>1 DEF Live, LockGrants, Thread
  <2> SUFFICES ASSUME Pending(s, f, j) PROVE Pending(s, f, j)'
    BY <2>3 DEF Stays
  <2>5. CASE Thread(f[j]) # t
    <3>1. AskingKept(Thread(f[j]))
      BY <2>1, <2>4, <2>5 DEF WakeUpStep, TakesBack, AskingKept, Asking, StateInv, Shape
    <3> QED BY <3>1, PendingStays
  <2>6. CASE Thread(f[j]) = t
    <3>1. pc[t] \in Asking /\ f[j] \in Elements(curGrants[t])
      BY <2>6 DEF Pending, Asking
    <3>2. /\ pc[t] = "retract" /\ curGrants' = [curGrants EXCEPT ![t] = rest] /\ f[j] # g
          /\ pc'[t] = IF rest = << >> THEN "readlock" ELSE "retract"
          /\ \A h \in Elements(curGrants[t]) : h # g => h \in Elements(rest)
      BY <2>1, <2>4, <3>1 DEF WakeUpStep, TakesBack, Asking
    <3>3. f[j] \in Elements(rest)
      BY <3>1, <3>2
    <3>4. rest # << >>
      BY <3>3 DEF Elements
    <3>5. curGrants'[t] = rest
      BY <3>2 DEF StateInv, Shape
    <3> QED BY <2>6, <3>2, <3>3, <3>4, <3>5 DEF Pending, Thread
  <2> QED BY <2>5, <2>6
<1>14. ASSUME NEW t \in Threads, ReadLock(t) PROVE LastIsPending'
  <2>1. grant' = grant /\ through' = through
    BY <1>14 DEF ReadLock, Goto, lockVars, grantVars, waitVars, scanVars
  <2>2. \A v \in Threads : AskingKept(v)
    BY <1>14 DEF ReadLock, Goto, lockVars, grantVars, waitVars, scanVars, AskingKept, Asking, StateInv, Shape
  <2>3. NoneNew
    BY <2>1 DEF NoneNew, Live
  <2> QED BY <2>2, <2>3, QuietStep
<1>15. ASSUME NEW t \in Threads, Yield(t) PROVE LastIsPending'
  <2>1. grant' = grant /\ through' = through
    BY <1>15 DEF Yield, Goto, lockVars, grantVars, waitVars, scanVars
  <2>2. \A v \in Threads : AskingKept(v)
    BY <1>15 DEF Yield, Goto, lockVars, grantVars, waitVars, scanVars, AskingKept, Asking, StateInv, Shape
  <2>3. NoneNew
    BY <2>1 DEF NoneNew, Live
  <2> QED BY <2>2, <2>3, QuietStep
<1>16. ASSUME NEW t \in Threads, SpuriousWakeup(t) PROVE LastIsPending'
  <2>1. grant' = grant /\ through' = through
    BY <1>16 DEF SpuriousWakeup, Goto, lockVars, grantVars, waitVars, scanVars
  <2>2. \A v \in Threads : AskingKept(v)
    BY <1>16 DEF SpuriousWakeup, Goto, lockVars, grantVars, waitVars, scanVars, AskingKept, Asking, StateInv, Shape
  <2>3. NoneNew
    BY <2>1 DEF NoneNew, Live
  <2> QED BY <2>2, <2>3, QuietStep
<1>17. ASSUME NEW t \in Threads, BypassLivelock(t) PROVE LastIsPending'
  <2>1. grant' = grant /\ through' = through
    BY <1>17 DEF BypassLivelock, Goto, lockVars, grantVars, waitVars, scanVars
  <2>2. \A v \in Threads : AskingKept(v)
    BY <1>17 DEF BypassLivelock, Goto, lockVars, grantVars, waitVars, scanVars, AskingKept, Asking, StateInv, Shape
  <2>3. NoneNew
    BY <2>1 DEF NoneNew, Live
  <2> QED BY <2>2, <2>3, QuietStep
<1>18. ASSUME NEW t \in Threads, NEW s, NEW i, SkipAvoidance(t, s, i) PROVE LastIsPending'
  <2>0. SkipStep(t)
    BY <1>18, SkipEffect
  <2>1. grant' = grant /\ through' = through
    BY <2>0 DEF SkipStep
  <2>2. \A v \in Threads : AskingKept(v)
    BY <2>0 DEF SkipStep, AskingKept, Asking, StateInv, Shape
  <2>3. NoneNew
    BY <2>1 DEF NoneNew, Live
  <2> QED BY <2>2, <2>3, QuietStep
<1> QED
  BY <1>0, <1>1, <1>2, <1>3, <1>4, <1>5, <1>6, <1>7, <1>8, <1>9, <1>10, <1>11, <1>12, <1>13, <1>14, <1>15, <1>16, <1>17, <1>18 DEF Next, Step

LEMMA InitPending == Init => LastIsPending
<1> SUFFICES ASSUME Init PROVE LastIsPending
  OBVIOUS
<1>1. Live = {}
  BY DEF Init, Live, Unused
<1>2. ASSUME NEW s, NEW f, IsInstance(s, f) PROVE FALSE
  <2>1. s \in DOMAIN History /\ f \in [DOMAIN History[s] -> {}]
    BY <1>1, <1>2 DEF IsInstance
  <2>2. 1 \in DOMAIN History[s]
    BY <2>1, HistoryShape
  <2> QED BY <2>1, <2>2
<1> DEFINE stamp == [g \in LockGrants |-> 0]
<1>3. stamp \in [LockGrants -> 0..0] /\ 0 \in Nat
  OBVIOUS
<1> HIDE DEF stamp
<1>4. Numbered(0, stamp)
  BY <1>2 DEF Numbered
<1> QED BY <1>3, <1>4 DEF LastIsPending

(* A grant is confirmed when its scan is over. *)
LEMMA PendingNotConfirmed ==
  ASSUME StateInv, NEW s, NEW f, NEW j, f[j] \in LockGrants, Pending(s, f, j)
  PROVE  f[j] \notin Confirmed
<1> DEFINE v == Thread(f[j])
<1>1. pc[v] \in Asking /\ f[j] \in Elements(curGrants[v])
  BY DEF Pending, Asking
<1>2. \A l \in Locks : f[j] \notin Elements(acqGrants[l])
  BY <1>1, HeldGrant
<1> QED BY <1>1, <1>2 DEF Confirmed, Asking

LEMMA Occupied == StateInv /\ LastIsPending => NoOccupation
<1> SUFFICES ASSUME StateInv, LastIsPending, NEW s \in DOMAIN History,
                    NEW f \in [DOMAIN History[s] -> Confirmed \ through],
                    \A i \in DOMAIN f : grant[f[i]].pos = History[s][i],
                    \A i, j \in DOMAIN f : i = j \/ Disjoint(f[i], f[j])
             PROVE  FALSE
  BY DEF NoOccupation
<1>1. PICK N \in Nat : \E stamp \in [LockGrants -> 0..N] : Numbered(N, stamp)
  BY DEF LastIsPending
<1>2. PICK stamp \in [LockGrants -> 0..N] : Numbered(N, stamp)
  BY <1>1
<1>3. \A i \in DOMAIN History[s] : f[i] \in LockGrants /\ f[i] \in Confirmed /\ f[i] \in Live \ through
  BY DEF Confirmed, Live
<1>4. IsInstance(s, f)
  BY <1>3 DEF IsInstance
<1> DEFINE m == [i \in DOMAIN History[s] |-> stamp[f[i]]]
<1>5. m \in [DOMAIN History[s] -> 0..N]
  BY <1>3
<1>6. DOMAIN History[s] # {}
  BY HistoryShape
<1>7. PICK j \in DOMAIN History[s] : \A i \in DOMAIN History[s] : m[i] <= m[j]
  BY <1>5, <1>6, MaxIndex
<1>8. \A i \in DOMAIN f : stamp[f[i]] <= stamp[f[j]]
  BY <1>7
<1>9. Pending(s, f, j)
  BY <1>2, <1>4, <1>8 DEF Numbered
<1> QED BY <1>3, <1>9, PendingNotConfirmed

(* However the threads' publishing and scanning interleave, the grants     *)
(* they go ahead with never make an instance of a signature, except one    *)
(* that a bypassed thread completed, or a thread that passed over a grant  *)
(* whose lock is to be skipped: for any number of threads, objects,        *)
(* positions, signatures and calls of skipAvoidance() (avoidance(),        *)
(* request(), instance() of DimmunixDeadlock).                             *)
THEOREM NeverOccupied == Spec => []NoOccupation
<1>1. Init => StateInv /\ LastIsPending
  BY InitState, InitPending
<1>2. StateInv /\ LastIsPending /\ [Next]_vars => (StateInv /\ LastIsPending)'
  BY StateStep, PendingStep
<1>3. StateInv /\ LastIsPending => NoOccupation
  BY Occupied
<1> QED BY <1>1, <1>2, <1>3, PTL DEF Spec

(***************************************************************************)
(* Wakeups                                                                 *)
(***************************************************************************)

(* The functions have their domains, and a grant is in use once or not. *)
WakeShape ==
  /\ pc = [t \in Threads |-> pc[t]]
  /\ grant = [g \in LockGrants |-> grant[g]]
  /\ \A g \in LockGrants : grant[g] = [lock |-> grant[g].lock, pos |-> grant[g].pos,
                                       n |-> grant[g].n] /\ grant[g].n \in {0, 1}
  /\ yielders = [g \in LockGrants |-> yielders[g]]
  /\ writer = [g \in LockGrants |-> writer[g]]
  /\ curInstance = [t \in Threads |-> curInstance[t]]

WakeInv == WakeShape /\ NoLostWakeup

LEMMA InitWake == Init => WakeInv
  BY DEF Init, WakeInv, WakeShape, NoLostWakeup, Unused

(* Steps that leave pc[t] = "waiting" only where it was, and what a        *)
(* yielder relies on as it is.                                             *)
LEMMA StillRegistered ==
  ASSUME WakeInv, WakeShape',
         \A t \in Threads : pc'[t] = "waiting" => pc[t] = "waiting" /\ curInstance'[t] = curInstance[t],
         \A t \in Threads, g \in LockGrants :
           pc'[t] = "waiting" /\ t \in yielders[g] => t \in yielders'[g],
         \A g \in LockGrants : grant[g].n = 1 => grant'[g].n = 1 \/ writer'[g],
         \A t \in Threads, g \in LockGrants :
           pc'[t] = "waiting" /\ t \in yielders[g] /\ writer[g] => writer'[g] \/ grant'[g].n = 1
  PROVE  NoLostWakeup'
<1> SUFFICES ASSUME NEW t \in Threads, pc'[t] = "waiting", NEW g \in Others(t)'
             PROVE  t \in yielders'[g] /\ (grant'[g].n = 1 \/ writer'[g])
  BY DEF NoLostWakeup
<1>1. g \in LockGrants /\ g \in Others(t) /\ pc[t] = "waiting"
  BY DEF Others, Elements
<1>2. t \in yielders[g] /\ (grant[g].n = 1 \/ writer[g])
  BY <1>1 DEF WakeInv, NoLostWakeup
<1> QED BY <1>1, <1>2

(* One step per action: first those that touch no grant and no yielder. *)
THEOREM StepWake == WakeInv /\ [Next]_vars => WakeInv'
<1> SUFFICES ASSUME WakeInv, [Next]_vars PROVE WakeInv'
  OBVIOUS
<1> USE DEF WakeInv
<1>0. CASE UNCHANGED vars
  BY <1>0 DEF vars, lockVars, grantVars, waitVars, scanVars, WakeShape, NoLostWakeup, Others
<1>d. CASE CheckForYieldCycles
  BY <1>d DEF CheckForYieldCycles, lockVars, grantVars, waitVars, scanVars, WakeShape,
              NoLostWakeup, Others
<1>1. ASSUME NEW t \in Threads, NEW l \in Locks, NEW p \in Positions, Avoidance(t, l, p) PROVE WakeInv'
  <2>1. WakeShape'
    BY <1>1 DEF WakeShape, Avoidance, Goto, lockVars, grantVars, waitVars, scanVars
  <2>2. \A u \in Threads : pc'[u] = "waiting" => pc[u] = "waiting"
    BY <1>1 DEF WakeShape, Avoidance, Goto
  <2>3. UNCHANGED <<grant, yielders, writer, curInstance>>
    BY <1>1 DEF Avoidance, Goto, grantVars, waitVars, scanVars
  <2> QED BY <2>1, <2>2, <2>3, StillRegistered
<1>2. ASSUME NEW t \in Threads, NEW l \in Locks, Reenter(t, l) PROVE WakeInv'
  <2>1. WakeShape'
    BY <1>2 DEF WakeShape, Reenter, lockVars, grantVars, waitVars, scanVars
  <2>2. \A u \in Threads : pc'[u] = "waiting" => pc[u] = "waiting"
    BY <1>2 DEF WakeShape, Reenter
  <2>3. UNCHANGED <<grant, yielders, writer, curInstance>>
    BY <1>2 DEF Reenter, grantVars, waitVars, scanVars
  <2> QED BY <2>1, <2>2, <2>3, StillRegistered
<1>3. ASSUME NEW t \in Threads, Look(t) PROVE WakeInv'
  <2>1. WakeShape'
    BY <1>3 DEF WakeShape, Look, lockVars, grantVars, waitVars, scanVars
  <2>2. \A u \in Threads : pc'[u] = "waiting" => pc[u] = "waiting"
    BY <1>3 DEF WakeShape, Look
  <2>3. UNCHANGED <<grant, yielders, writer, curInstance>>
    BY <1>3 DEF Look, grantVars, waitVars, scanVars
  <2> QED BY <2>1, <2>2, <2>3, StillRegistered
<1>4. ASSUME NEW t \in Threads, Enter(t) PROVE WakeInv'
  <2>1. WakeShape'
    BY <1>4 DEF WakeShape, Enter, Goto, lockVars, grantVars, waitVars, scanVars
  <2>2. \A u \in Threads : pc'[u] = "waiting" => pc[u] = "waiting"
    BY <1>4 DEF WakeShape, Enter, Goto
  <2>3. UNCHANGED <<grant, yielders, writer, curInstance>>
    BY <1>4 DEF Enter, Goto, grantVars, waitVars, scanVars
  <2> QED BY <2>1, <2>2, <2>3, StillRegistered
<1>5. ASSUME NEW t \in Threads, Acquire(t) PROVE WakeInv'
  <2>1. WakeShape'
    BY <1>5 DEF WakeShape, Acquire, Goto, lockVars, grantVars, waitVars, scanVars
  <2>2. \A u \in Threads : pc'[u] = "waiting" => pc[u] = "waiting"
    BY <1>5 DEF WakeShape, Acquire, Goto
  <2>3. UNCHANGED <<grant, yielders, writer, curInstance>>
    BY <1>5 DEF Acquire, Goto, grantVars, waitVars, scanVars
  <2> QED BY <2>1, <2>2, <2>3, StillRegistered
<1>6. ASSUME NEW t \in Threads, NEW l \in Locks, Release(t, l) PROVE WakeInv'
  <2>1. WakeShape'
    BY <1>6 DEF WakeShape, Release, Goto, lockVars, grantVars, waitVars, scanVars
  <2>2. \A u \in Threads : pc'[u] = "waiting" => pc[u] = "waiting"
    BY <1>6 DEF WakeShape, Release, Goto
  <2>3. UNCHANGED <<grant, yielders, writer, curInstance>>
    BY <1>6 DEF Release, Goto, grantVars, waitVars, scanVars
  <2> QED BY <2>1, <2>2, <2>3, StillRegistered
<1>7. ASSUME NEW t \in Threads, Leave(t) PROVE WakeInv'
  <2>1. WakeShape'
    BY <1>7 DEF WakeShape, Leave, Goto, lockVars, grantVars, waitVars, scanVars
  <2>2. \A u \in Threads : pc'[u] = "waiting" => pc[u] = "waiting"
    BY <1>7 DEF WakeShape, Leave, Goto
  <2>3. UNCHANGED <<grant, yielders, writer, curInstance>>
    BY <1>7 DEF Leave, Goto, grantVars, waitVars, scanVars
  <2> QED BY <2>1, <2>2, <2>3, StillRegistered
<1>8. ASSUME NEW t \in Threads, SpuriousWakeup(t) PROVE WakeInv'
  <2>1. WakeShape'
    BY <1>8 DEF WakeShape, SpuriousWakeup, Goto, lockVars, grantVars, waitVars, scanVars
  <2>2. \A u \in Threads : pc'[u] = "waiting" => pc[u] = "waiting"
    BY <1>8 DEF WakeShape, SpuriousWakeup, Goto
  <2>3. UNCHANGED <<grant, yielders, writer, curInstance>>
    BY <1>8 DEF SpuriousWakeup, Goto, grantVars, waitVars, scanVars
  <2> QED BY <2>1, <2>2, <2>3, StillRegistered
<1>9. ASSUME NEW t \in Threads, ReadLock(t) PROVE WakeInv'
  <2>1. WakeShape'
    BY <1>9 DEF WakeShape, ReadLock, lockVars, grantVars, waitVars, scanVars
  <2>2. \A u \in Threads : pc'[u] = "waiting" => pc[u] = "waiting"
    BY <1>9 DEF WakeShape, ReadLock
  <2>3. UNCHANGED <<grant, yielders, writer, curInstance>>
    BY <1>9 DEF ReadLock, grantVars, waitVars, scanVars
  <2> QED BY <2>1, <2>2, <2>3, StillRegistered
<1>20. ASSUME NEW t \in Threads, Grant(t) PROVE WakeInv'
  <2>1. WakeShape'
    BY <1>20 DEF WakeShape, Grant, Goto, waitVars, scanVars
  <2>2. \A u \in Threads : pc'[u] = "waiting" => pc[u] = "waiting"
    BY <1>20 DEF WakeShape, Grant, Goto
  <2>3. UNCHANGED <<yielders, writer, curInstance>>
    BY <1>20 DEF Grant, waitVars, scanVars
  <2>4. \A g \in LockGrants : grant[g].n = 1 => grant'[g].n = 1
    BY <1>20 DEF WakeShape, Grant
  <2> QED BY <2>1, <2>2, <2>3, <2>4, StillRegistered
<1>21. ASSUME NEW t \in Threads, Decide(t) PROVE WakeInv'
  <2>1. WakeShape'
    BY <1>21 DEF WakeShape, Decide, Goto, grantVars, waitVars
  <2>2. \A u \in Threads : pc'[u] = "waiting" =>
                           pc[u] = "waiting" /\ curInstance'[u] = curInstance[u]
    BY <1>21 DEF WakeShape, Decide, Goto
  <2>3. UNCHANGED <<grant, yielders, writer>>
    BY <1>21 DEF Decide, grantVars, waitVars
  <2> QED BY <2>1, <2>2, <2>3, StillRegistered
<1>22. ASSUME NEW t \in Threads, WriteLock(t) PROVE WakeInv'
  <2>1. WakeShape'
    BY <1>22 DEF WakeShape, WriteLock, grantVars, scanVars
  <2>2. UNCHANGED <<pc, grant, yielders, curInstance>>
    BY <1>22 DEF WriteLock, grantVars, scanVars
  <2>3. \A g \in LockGrants : writer[g] => writer'[g]
    BY <1>22 DEF WakeShape, WriteLock
  <2> QED BY <2>1, <2>2, <2>3, StillRegistered
<1>23. ASSUME NEW t \in Threads, Ungrant(t) PROVE WakeInv'
  <2>1. WakeShape'
    BY <1>23 DEF WakeShape, Ungrant, waitVars, scanVars
  <2>2. UNCHANGED <<pc, yielders, writer, curInstance>>
    BY <1>23 DEF Ungrant, waitVars, scanVars
  <2>3. \A g \in LockGrants : grant[g].n = 1 => grant'[g].n = 1 \/ writer'[g]
    BY <1>23 DEF WakeShape, Ungrant, waitVars
  <2> QED BY <2>1, <2>2, <2>3, StillRegistered
<1>24. ASSUME NEW t \in Threads, WakeUp(t) PROVE WakeInv'
  <2>1. WakeShape'
    BY <1>24 DEF WakeShape, WakeUp, grantVars, scanVars
  <2> DEFINE w == Head(Ungranting(t))
  <2>2. \A u \in Threads : pc'[u] = "waiting" => pc[u] = "waiting" /\ u \notin yielders[w]
    BY <1>24 DEF WakeUp, Ungranting
  <2>3. UNCHANGED <<grant, curInstance>>
    BY <1>24 DEF WakeUp, grantVars, scanVars
  <2>4. \A g \in LockGrants : g # w => yielders'[g] = yielders[g] /\ writer'[g] = writer[g]
    BY <1>24 DEF WakeUp, WakeShape
  <2> QED BY <2>1, <2>2, <2>3, <2>4, StillRegistered
<1>25. ASSUME NEW t \in Threads, Yield(t) PROVE WakeInv'
  <2>1. WakeShape'
    BY <1>25 DEF WakeShape, Yield, Goto, grantVars, scanVars
  <2>2. UNCHANGED <<grant, writer, curInstance>>
    BY <1>25 DEF Yield, grantVars, scanVars
  <2>3. ASSUME NEW u \in Threads, pc'[u] = "waiting", NEW g \in Others(u)'
        PROVE  u \in yielders'[g] /\ (grant'[g].n = 1 \/ writer'[g])
    <3>1. g \in LockGrants /\ g \in Others(u)
      BY <2>2, <2>3 DEF Others, Elements
    <3>2. CASE u = t
      <4>1. \A h \in Others(t) : grant[h].n # 0
        BY <1>25, <2>3, <3>2 DEF Yield, Goto, WakeShape
      <4>2. t \in yielders'[g]
        BY <1>25, <3>1, <3>2, <4>1 DEF Yield
      <4> QED BY <2>2, <3>1, <3>2, <4>1, <4>2 DEF WakeShape
    <3>3. CASE u # t
      <4>1. pc[u] = "waiting"
        BY <1>25, <2>3, <3>3 DEF Yield, Goto, WakeShape
      <4>2. u \in yielders[g] => u \in yielders'[g]
        BY <1>25, <3>1 DEF Yield
      <4> QED BY <2>2, <3>1, <4>1, <4>2 DEF NoLostWakeup
    <3> QED BY <3>2, <3>3
  <2> QED BY <2>1, <2>3 DEF NoLostWakeup
<1>26. ASSUME NEW t \in Threads, BypassLivelock(t) PROVE WakeInv'
  <2>1. WakeShape'
    BY <1>26 DEF WakeShape, BypassLivelock, grantVars, waitVars, scanVars
  <2>2. \A u \in Threads : pc'[u] = "waiting" => pc[u] = "waiting"
    BY <1>26 DEF WakeShape, BypassLivelock
  <2>3. UNCHANGED <<grant, yielders, writer, curInstance>>
    BY <1>26 DEF BypassLivelock, grantVars, waitVars, scanVars
  <2> QED BY <2>1, <2>2, <2>3, StillRegistered
<1>27. ASSUME NEW t \in Threads, NEW s, NEW i, SkipAvoidance(t, s, i) PROVE WakeInv'
  <2>0. SkipStep(t)
    BY <1>27, SkipEffect
  <2>1. WakeShape'
    BY <2>0 DEF WakeShape, SkipStep
  <2>2. \A u \in Threads : pc'[u] = "waiting" => pc[u] = "waiting"
    BY <2>0 DEF WakeShape, SkipStep
  <2>3. UNCHANGED <<grant, writer, curInstance>>
    BY <2>0 DEF SkipStep
  <2>4. \A u \in Threads, g \in LockGrants : pc'[u] = "waiting" /\ u \in yielders[g] => u \in yielders'[g]
    BY <2>0 DEF SkipStep
  <2> QED BY <2>1, <2>2, <2>3, <2>4, StillRegistered
<1> QED
  BY <1>0, <1>d, <1>1, <1>2, <1>3, <1>4, <1>5, <1>6, <1>7, <1>8, <1>9,
     <1>20, <1>21, <1>22, <1>23, <1>24, <1>25, <1>26, <1>27 DEF Next, Step

(* A yielding thread stays registered with every grant it yields to, until *)
(* one of them is taken back and wakes it (readers and writers of          *)
(* LockGrant::yieldersLock, wakeUpYieldingThreads).                        *)
THEOREM WakeupsKept == Spec => []NoLostWakeup
<1>1. WakeInv => NoLostWakeup
  BY DEF WakeInv
<1> QED BY <1>1, InitWake, StepWake, PTL DEF Spec

(***************************************************************************)
(* Grants, and where they are                                              *)
(***************************************************************************)

(* Only grants in use are listed, once and at their position. *)
Listed ==
  \A p \in Positions :
    /\ Distinct(lockGrants[p])
    /\ \A g \in Elements(lockGrants[p]) : grant[g].n = 1 /\ grant[g].pos = p

(* A grant that is not in use is to be recycled. *)
Recycled ==
  \A g \in LockGrants :
    /\ grant[g].n \in {0, 1}
    /\ grant[g].n = 0 => g \in Elements(removed[Thread(g)])

(* g belongs to the request of its thread or to a lock. *)
Belongs(g) ==
  \/ g \in Elements(curGrants[Thread(g)])
  \/ \E l \in Locks : g \in Elements(acqGrants[l])
InUse == \A g \in LockGrants : grant[g].n = 1 => Belongs(g)

(* A thread has the write lock of the first of the grants it takes back,   *)
(* and of no other; it keeps it from before the grant goes until its       *)
(* yielders are awake.                                                     *)
Writing(t) ==
  /\ \A g \in LockGrants : Thread(g) = t /\ writer[g] =>
       Ungranting(t) # << >> /\ g = Head(Ungranting(t))
  /\ Ungranting(t) # << >> /\ grant[Head(Ungranting(t))].n = 0 =>
       writer[Head(Ungranting(t))]
Writers ==
  /\ writer \in [LockGrants -> BOOLEAN]
  /\ \A t \in Threads : Writing(t)

Exact == Listed /\ Recycled /\ InUse /\ Writers

(* A lock that nobody owns has grants only as long as the thread that      *)
(* leaves it takes them back: acquire() overwrites none.                   *)
Owned ==
  \A l \in Locks : acqGrants[l] # << >> /\ owner[l] = NULL =>
    pc[holder[l]] = "ungrant" /\ Lock(holder[l]) = l

LEMMA WithoutDistinct ==
  ASSUME NEW S, NEW s \in Seq(S), NEW e \in Elements(s), Distinct(s)
  PROVE  /\ Distinct(Without(s, e))
         /\ \A x \in Elements(Without(s, e)) : x \in Elements(s) /\ x # e
<1>1. Len(s) \in Nat /\ DOMAIN s = 1..Len(s)
  OBVIOUS
<1> DEFINE i == CHOOSE i \in DOMAIN s : s[i] = e
           w == [j \in 1..(Len(s) - 1) |-> IF j < i THEN s[j] ELSE s[j + 1]]
           from(j) == IF j < i THEN j ELSE j + 1
<1>2. i \in 1..Len(s) /\ s[i] = e
  BY <1>1 DEF Elements
<1>3. Without(s, e) = w
  BY DEF Without
<1> HIDE DEF i
<1>4. DOMAIN w = 1..(Len(s) - 1)
  OBVIOUS
<1>5. ASSUME NEW j \in DOMAIN w
      PROVE  from(j) \in DOMAIN s /\ w[j] = s[from(j)] /\ from(j) # i
  BY <1>1, <1>2, <1>4
<1>6. ASSUME NEW j \in DOMAIN w, NEW k \in DOMAIN w, from(j) = from(k) PROVE j = k
  BY <1>1, <1>2, <1>4, <1>6
<1> HIDE DEF w, from
<1>7. Distinct(w)
  BY <1>5, <1>6 DEF Distinct
<1>8. ASSUME NEW x \in Elements(w) PROVE x \in Elements(s) /\ x # e
  <2>1. PICK j \in DOMAIN w : x = w[j]
    BY DEF Elements
  <2>2. from(j) \in DOMAIN s /\ x = s[from(j)] /\ from(j) # i
    BY <1>5, <2>1
  <2> QED BY <2>2, <1>1, <1>2 DEF Elements, Distinct
<1> QED BY <1>3, <1>7, <1>8

LEMMA ThreadOf == \A g \in LockGrants : Thread(g) \in Threads
  BY DEF LockGrants, Thread

PlacesIn(g, s) == {i \in DOMAIN s : s[i] = g}

LEMMA CountOnce ==
  ASSUME NEW s, Distinct(s), NEW g
  PROVE  /\ g \in Elements(s) => \E i : PlacesIn(g, s) = {i}
         /\ g \notin Elements(s) => PlacesIn(g, s) = {}
  BY DEF Elements, Distinct, PlacesIn

(* Where nothing of what they speak about changes *)
LEMMA ExactStays ==
  ASSUME StateInv, Exact, UNCHANGED <<grant, lockGrants, removed, curGrants, acqGrants, writer>>,
         \A u \in Threads : pc'[u] = "retract" <=> pc[u] = "retract",
         \A u \in Threads : pc'[u] = "ungrant" <=> pc[u] = "ungrant",
         \A u \in Threads : pc[u] = "ungrant" => arg'[u] = arg[u]
  PROVE  Exact'
<1>1. ASSUME NEW u \in Threads PROVE Ungranting(u)' = Ungranting(u)
  BY DEF Ungranting, Lock
<1>2. ASSUME NEW u \in Threads PROVE Writing(u)'
  BY <1>1 DEF Exact, Writers, Writing
<1> QED BY <1>2 DEF Exact, Listed, Recycled, InUse, Belongs, Writers

(* Where a thread comes to take grants back that are all still in use *)
LEMMA ExactBegins ==
  ASSUME StateInv, Exact, UNCHANGED <<grant, lockGrants, removed, curGrants, acqGrants, writer>>,
         NEW t \in Threads, Ungranting(t) = << >>,
         \A u \in Threads \ {t} : Ungranting(u)' = Ungranting(u),
         Ungranting(t)' # << >> => grant[Head(Ungranting(t)')].n = 1
  PROVE  Exact'
<1>1. ASSUME NEW u \in Threads PROVE Writing(u)'
  <2>1. CASE u = t
    <3>1. \A g \in LockGrants : Thread(g) = t => ~ writer[g]
      BY DEF Exact, Writers, Writing
    <3> QED BY <2>1, <3>1 DEF Writing
  <2>2. CASE u # t
    BY <2>2 DEF Exact, Writers, Writing
  <2> QED BY <2>1, <2>2
<1> QED BY <1>1 DEF Exact, Listed, Recycled, InUse, Belongs, Writers

LEMMA InitExact == Init => Exact
<1> SUFFICES ASSUME Init PROVE Exact
  OBVIOUS
<1>1. Listed
  BY DEF Init, Listed, Distinct, Elements
<1>2. Recycled
  <2> SUFFICES ASSUME NEW g \in LockGrants
               PROVE  grant[g].n = 0 /\ g \in Elements(removed[Thread(g)])
    BY DEF Recycled
  <2>1. PICK t \in Threads, i \in 1..PoolSize : g = <<t, i>>
    BY DEF LockGrants
  <2>2. grant[g].n = 0
    BY DEF Init, Unused
  <2>3. removed[Thread(g)] = [k \in 1..PoolSize |-> <<t, k>>]
    BY <2>1 DEF Init, Thread
  <2> QED BY <2>1, <2>2, <2>3 DEF Elements
<1>3. InUse
  BY DEF Init, InUse, Unused
<1>4. Writers
  <2>1. \A t \in Threads : Ungranting(t) = << >>
    BY DEF Init, Ungranting
  <2> QED BY <2>1 DEF Init, Writers, Writing
<1> QED BY <1>1, <1>2, <1>3, <1>4 DEF Exact

LEMMA ExactGrant ==
  ASSUME StateInv, Exact, NEW t \in Threads, Grant(t)
  PROVE  Exact'
<1> DEFINE g == Head(removed[t])
           p == arg[t][2]
<1>1. GrantStep(t, g, p)
  BY GrantEffect
<1>2. UNCHANGED <<acqGrants, arg, writer>>
  BY DEF Grant, waitVars
<1>3. removed[t] # << >> /\ removed[t] \in Seq(LockGrants) /\ removed'[t] = Tail(removed[t])
  BY DEF Grant, StateInv, Shape
<1>4. \A h \in Elements(removed[t]) : h # g => h \in Elements(removed'[t])
  BY <1>3, HeadTailElements
<1>5. lockGrants'[p] = Append(lockGrants[p], g) /\ lockGrants[p] \in Seq(LockGrants)
  BY <1>1 DEF Grant, GrantStep, StateInv, Shape
<1> HIDE DEF g, p
<1>6. g \notin Elements(lockGrants[p])
  BY <1>1 DEF GrantStep, Exact, Listed
<1>7. \A h \in LockGrants : h # g => grant'[h] = grant[h]
  BY <1>1 DEF GrantStep, StateInv, Shape
<1>8. grant'[g].n = 1 /\ grant'[g].pos = p
  BY <1>1 DEF GrantStep, StateInv, Shape
<1>9. Listed'
  <2> SUFFICES ASSUME NEW q \in Positions
               PROVE  /\ Distinct(lockGrants'[q])
                      /\ \A h \in Elements(lockGrants'[q]) : grant'[h].n = 1 /\ grant'[h].pos = q
    BY DEF Listed
  <2>1. Distinct(lockGrants[q]) /\ \A h \in Elements(lockGrants[q]) :
          h \in LockGrants /\ grant[h].n = 1 /\ grant[h].pos = q /\ h # g
    <3>1. Elements(lockGrants[q]) \in SUBSET LockGrants
      BY ElementsType DEF StateInv, Shape
    <3>2. grant[g].n = 0
      BY <1>1 DEF GrantStep
    <3> QED BY <3>1, <3>2 DEF Exact, Listed
  <2>2. CASE q = p
    <3>1. Distinct(lockGrants'[p])
      BY <1>1, <1>5, <1>6, <2>1, <2>2, AppendDistinct DEF GrantStep
    <3>2. Elements(lockGrants'[p]) = Elements(lockGrants[p]) \cup {g}
      BY <1>1 DEF GrantStep
    <3> QED BY <3>1, <3>2, <1>7, <1>8, <2>1, <2>2
  <2>3. CASE q # p
    <3>1. lockGrants'[q] = lockGrants[q]
      BY <1>1, <2>3 DEF GrantStep, StateInv, Shape
    <3> QED BY <3>1, <1>7, <2>1
  <2> QED BY <2>2, <2>3
<1>10. Recycled'
  <2> SUFFICES ASSUME NEW h \in LockGrants
               PROVE  grant'[h].n \in {0, 1} /\ (grant'[h].n = 0 => h \in Elements(removed'[Thread(h)]))
    BY DEF Recycled, Thread
  <2>1. CASE h = g
    BY <2>1, <1>8
  <2>2. CASE h # g
    <3>1. grant'[h].n = grant[h].n /\ grant[h].n \in {0, 1}
      BY <2>2, <1>7 DEF Exact, Recycled
    <3>2. grant[h].n = 0 => h \in Elements(removed[Thread(h)])
      BY DEF Exact, Recycled
    <3>3. Thread(h) # t => removed'[Thread(h)] = removed[Thread(h)]
      BY <1>1, ThreadOf DEF GrantStep, StateInv, Shape
    <3> QED BY <2>2, <3>1, <3>2, <3>3, <1>4
  <2> QED BY <2>1, <2>2
<1>11. InUse'
  <2> SUFFICES ASSUME NEW h \in LockGrants, grant'[h].n = 1 PROVE Belongs(h)'
    BY DEF InUse
  <2>1. CASE h = g
    <3>1. h \in Elements(curGrants'[t]) /\ Thread(h) = t
      BY <1>1, <2>1 DEF GrantStep
    <3> QED BY <3>1 DEF Belongs, Thread
  <2>2. CASE h # g
    <3>1. Belongs(h)
      BY <2>2, <1>7 DEF Exact, InUse
    <3>2. h \in Elements(curGrants[Thread(h)]) => h \in Elements(curGrants'[Thread(h)])
      <4>1. CASE Thread(h) = t
        BY <4>1, <1>1 DEF GrantStep
      <4>2. CASE Thread(h) # t
        <5>1. curGrants'[Thread(h)] = curGrants[Thread(h)]
          BY <4>2, <1>1, ThreadOf DEF GrantStep, StateInv, Shape
        <5> QED BY <5>1
      <4> QED BY <4>1, <4>2
    <3> QED BY <3>1, <3>2, <1>2 DEF Belongs, Thread
  <2> QED BY <2>1, <2>2
<1>12. ASSUME NEW u \in Threads PROVE Writing(u)'
  <2>1. Ungranting(u)' = Ungranting(u)
    <3>1. CASE u = t
      <4>1. pc[t] = "grant" /\ pc'[t] \in {"grant", "scan"}
        BY <1>1 DEF GrantStep, StateInv, Shape
      <4> QED BY <3>1, <4>1 DEF Ungranting
    <3>2. CASE u # t
      <4>1. pc'[u] = pc[u] /\ curGrants'[u] = curGrants[u]
        BY <1>1, <3>2 DEF GrantStep, StateInv, Shape
      <4> QED BY <4>1, <1>2 DEF Ungranting, Lock
    <3> QED BY <3>1, <3>2
  <2>2. Ungranting(u) # << >> /\ grant'[Head(Ungranting(u))].n = 0 =>
          grant[Head(Ungranting(u))].n = 0
    <3>1. Ungranting(u) # << >> => Head(Ungranting(u)) \in LockGrants
      BY UngrantingHead DEF TakesBack
    <3> QED BY <3>1, <1>7, <1>8
  <2> QED BY <2>1, <2>2, <1>2 DEF Exact, Writers, Writing, Thread
<1> QED BY <1>2, <1>9, <1>10, <1>11, <1>12 DEF Exact, Writers

LEMMA ExactDecide ==
  ASSUME StateInv, Exact, NEW t \in Threads, Decide(t)
  PROVE  Exact'
<1>1. DecideStep(t)
  BY DecideEffect
<1>2. UNCHANGED <<grant, lockGrants, removed, curGrants, acqGrants, writer, arg>>
  BY DEF Decide, grantVars, waitVars
<1>3. pc[t] = "scan" /\ Ungranting(t) = << >>
  BY <1>1 DEF DecideStep, Ungranting
<1>4. \A u \in Threads \ {t} : Ungranting(u)' = Ungranting(u)
  BY <1>1, <1>2 DEF DecideStep, StateInv, Shape, Ungranting, Lock
<1>5. pc'[t] # "ungrant"
  BY <1>1 DEF DecideStep, StateInv, Shape
<1>6. curGrants[t] \in Seq(LockGrants) /\ curGrants[t] # << >>
  BY <1>3 DEF StateInv, Shape, Requests, Request
<1>7. Head(curGrants[t]) \in Elements(curGrants[t])
  BY <1>6, HeadTailElements
<1>8. grant[Head(curGrants[t])].n = 1
  BY <1>3, <1>7 DEF StateInv, Requests, Request
<1>9. Ungranting(t)' # << >> => grant[Head(Ungranting(t)')].n = 1
  BY <1>2, <1>5, <1>8 DEF Ungranting
<1> QED BY <1>2, <1>3, <1>4, <1>9, ExactBegins

LEMMA ExactRelease ==
  ASSUME StateInv, Exact, NEW t \in Threads, NEW l \in Locks, Release(t, l)
  PROVE  Exact'
<1>1. ReleaseStep(t, l)
  BY ReleaseEffect
<1>2. UNCHANGED <<grant, lockGrants, removed, curGrants, acqGrants, writer>>
  BY DEF Release, grantVars, waitVars
<1>3. pc[t] = "idle" /\ Ungranting(t) = << >>
  BY <1>1 DEF ReleaseStep, Ungranting
<1>4. \A u \in Threads \ {t} : Ungranting(u)' = Ungranting(u)
  BY <1>1, <1>2 DEF ReleaseStep, StateInv, Shape, Ungranting, Lock
<1>5. ASSUME Ungranting(t)' # << >> PROVE grant[Head(Ungranting(t)')].n = 1
  <2>1. pc'[t] = "ungrant" /\ arg'[t] = <<l, NULL>>
    BY <1>1, <1>3, <1>5 DEF ReleaseStep, Ungranting, StateInv, Shape
  <2>2. Ungranting(t)' = acqGrants[l]
    BY <2>1, <1>2 DEF Ungranting, Lock
  <2>3. acqGrants[l] \in Seq(LockGrants) /\ Head(acqGrants[l]) \in Elements(acqGrants[l])
    BY <1>5, <2>2, HeadTailElements DEF StateInv, Shape
  <2>4. holder[l] = t
    BY <1>1, NullAssumption DEF ReleaseStep, StateInv, Mutex
  <2> QED BY <1>3, <2>2, <2>3, <2>4, HeldGrant
<1> QED BY <1>2, <1>3, <1>4, <1>5, ExactBegins

(* acquire() gives the lock the grants of the request. *)
LEMMA ExactAcquire ==
  ASSUME StateInv, Exact, Owned, NEW t \in Threads, Acquire(t)
  PROVE  Exact'
<1>1. UNCHANGED <<grant, lockGrants, removed, writer>>
  BY DEF Acquire, grantVars, waitVars
<1>2. /\ pc[t] = "acquired" /\ Lock(t) \in Locks
      /\ holder[Lock(t)] = t /\ owner[Lock(t)] = NULL
  BY DEF Acquire, StateInv, Args, WithArg, Granted, Lock, Mutex, Owning
<1>3. /\ curGrants' = [curGrants EXCEPT ![t] = << >>]
      /\ acqGrants' = [acqGrants EXCEPT ![Lock(t)] = curGrants[t]]
      /\ arg' = [arg EXCEPT ![t] = <<NULL, NULL>>]
      /\ pc' = [pc EXCEPT ![t] = "idle"]
  BY DEF Acquire, Goto
<1>4. acqGrants[Lock(t)] = << >>
  BY <1>2 DEF Owned
<1>5. ASSUME NEW g \in LockGrants, Belongs(g) PROVE Belongs(g)'
  <2>1. CASE g \in Elements(curGrants[Thread(g)]) /\ Thread(g) = t
    <3>1. acqGrants'[Lock(t)] = curGrants[t]
      BY <1>2, <1>3 DEF StateInv, Shape
    <3> QED BY <1>2, <2>1, <3>1 DEF Belongs
  <2>2. CASE g \in Elements(curGrants[Thread(g)]) /\ Thread(g) # t
    <3>1. curGrants'[Thread(g)] = curGrants[Thread(g)]
      BY <1>3, <2>2, ThreadOf DEF StateInv, Shape
    <3> QED BY <2>2, <3>1 DEF Belongs, Thread
  <2>3. CASE \E l \in Locks : g \in Elements(acqGrants[l])
    <3>1. PICK l \in Locks : g \in Elements(acqGrants[l])
      BY <2>3
    <3>2. l # Lock(t)
      BY <1>4, <3>1 DEF Elements
    <3>3. acqGrants'[l] = acqGrants[l]
      BY <1>3, <3>2 DEF StateInv, Shape
    <3> QED BY <3>1, <3>3 DEF Belongs
  <2> QED BY <1>5, <2>1, <2>2, <2>3 DEF Belongs
<1>6. ASSUME NEW u \in Threads PROVE Ungranting(u)' = Ungranting(u)
  <2>1. CASE u = t
    <3>1. pc'[t] = "idle"
      BY <1>3 DEF StateInv, Shape
    <3> QED BY <1>2, <2>1, <3>1 DEF Ungranting
  <2>2. CASE u # t
    <3>1. pc'[u] = pc[u] /\ arg'[u] = arg[u] /\ curGrants'[u] = curGrants[u]
      BY <1>3, <2>2 DEF StateInv, Shape
    <3>2. ASSUME pc[u] = "ungrant" PROVE acqGrants'[Lock(u)] = acqGrants[Lock(u)]
      <4>1. Lock(u) \in Locks /\ holder[Lock(u)] = u
        BY <3>2 DEF StateInv, Args, WithArg, Lock, Mutex, Owning
      <4>2. Lock(u) # Lock(t)
        BY <1>2, <2>2, <4>1
      <4> QED BY <1>3, <4>1, <4>2 DEF StateInv, Shape
    <3> QED BY <3>1, <3>2 DEF Ungranting, Lock
  <2> QED BY <2>1, <2>2
<1>7. ASSUME NEW u \in Threads PROVE Writing(u)'
  BY <1>1, <1>6 DEF Exact, Writers, Writing
<1> QED BY <1>1, <1>5, <1>7 DEF Exact, Listed, Recycled, InUse, Writers

LEMMA ExactWriteLock ==
  ASSUME StateInv, Exact, NEW t \in Threads, WriteLock(t)
  PROVE  Exact'
<1> DEFINE g == Head(Ungranting(t))
<1>1. /\ UNCHANGED <<pc, arg, grant, lockGrants, removed, curGrants, acqGrants>>
      /\ Ungranting(t) # << >> /\ writer' = [writer EXCEPT ![g] = TRUE]
  BY DEF WriteLock, grantVars
<1>2. g \in LockGrants /\ Thread(g) = t
  BY <1>1, UngrantingHead DEF TakesBack
<1>3. \A u : Ungranting(u)' = Ungranting(u)
  BY <1>1 DEF Ungranting, Lock
<1> HIDE DEF g
<1>4. writer' \in [LockGrants -> BOOLEAN]
  BY <1>1 DEF Exact, Writers
<1>5. \A h \in LockGrants : (writer[h] => writer'[h]) /\ (writer'[h] => writer[h] \/ h = g)
  BY <1>1 DEF Exact, Writers
<1>6. ASSUME NEW u \in Threads PROVE Writing(u)'
  <2>1. ASSUME NEW h \in LockGrants, Thread(h) = u, writer'[h]
        PROVE  Ungranting(u) # << >> /\ h = Head(Ungranting(u))
    <3>1. CASE writer[h]
      BY <2>1, <3>1 DEF Exact, Writers, Writing
    <3>2. CASE h = g
      BY <2>1, <3>2, <1>1, <1>2 DEF g
    <3> QED BY <2>1, <3>1, <3>2, <1>5
  <2>2. Ungranting(u) # << >> => Head(Ungranting(u)) \in LockGrants
    BY UngrantingHead DEF TakesBack
  <2>3. Ungranting(u) # << >> /\ grant[Head(Ungranting(u))].n = 0 =>
          writer[Head(Ungranting(u))]
    BY DEF Exact, Writers, Writing
  <2> QED BY <1>1, <1>3, <1>5, <2>1, <2>2, <2>3 DEF Writing, Thread
<1> QED BY <1>1, <1>4, <1>6 DEF Exact, Listed, Recycled, InUse, Belongs, Writers

LEMMA ExactUngrant ==
  ASSUME StateInv, Exact, NEW t \in Threads, Ungrant(t)
  PROVE  Exact'
<1> DEFINE g == Head(Ungranting(t))
           p == grant[g].pos
<1>1. UngrantStep(t, g)
  BY UngrantEffect
<1>2. writer' = writer /\ writer[g] /\ lockGrants' = [lockGrants EXCEPT ![p] = Without(@, g)]
  BY DEF Ungrant, waitVars
<1> HIDE DEF g, p
<1>3. /\ g \in LockGrants /\ Thread(g) = t /\ grant[g].n = 1
      /\ p \in Positions /\ lockGrants \in [Positions -> Seq(LockGrants)]
      /\ UNCHANGED <<pc, arg, curGrants, acqGrants>>
  BY <1>1 DEF UngrantStep, TakesBack, StateInv, Shape, p
<1>4. g \in Elements(lockGrants[p])
  BY <1>3 DEF StateInv, Pools, p
<1>5. lockGrants'[p] = Without(lockGrants[p], g)
  BY <1>2, <1>3
<1>6. /\ \A h \in LockGrants : h # g => grant'[h] = grant[h]
      /\ grant'[g].n = 0
  BY <1>1, <1>3 DEF UngrantStep, StateInv, Shape
<1>7. Listed'
  <2> SUFFICES ASSUME NEW q \in Positions
               PROVE  /\ Distinct(lockGrants'[q])
                      /\ \A h \in Elements(lockGrants'[q]) : grant'[h].n = 1 /\ grant'[h].pos = q
    BY DEF Listed
  <2>1. Distinct(lockGrants[q]) /\ \A h \in Elements(lockGrants[q]) :
          h \in LockGrants /\ grant[h].n = 1 /\ grant[h].pos = q
    BY <1>3, ElementsType DEF Exact, Listed
  <2>2. CASE q = p
    <3>1. Distinct(lockGrants'[p]) /\ \A h \in Elements(lockGrants'[p]) :
            h \in Elements(lockGrants[p]) /\ h # g
      BY <1>3, <1>4, <1>5, <2>1, <2>2, WithoutDistinct
    <3> QED BY <3>1, <1>6, <2>1, <2>2
  <2>3. CASE q # p
    <3>1. lockGrants'[q] = lockGrants[q]
      BY <1>2, <1>3, <2>3
    <3>2. g \notin Elements(lockGrants[q])
      BY <2>1, <2>3 DEF p
    <3> QED BY <3>1, <3>2, <1>6, <2>1
  <2> QED BY <2>2, <2>3
<1>8. Recycled'
  <2> SUFFICES ASSUME NEW h \in LockGrants
               PROVE  grant'[h].n \in {0, 1} /\ (grant'[h].n = 0 => h \in Elements(removed'[Thread(h)]))
    BY DEF Recycled, Thread
  <2>1. Elements(removed'[t]) = Elements(removed[t]) \cup {g}
    BY <1>1 DEF UngrantStep
  <2>2. CASE h = g
    BY <1>3, <1>6, <2>1, <2>2
  <2>3. CASE h # g
    <3>1. grant'[h].n = grant[h].n /\ grant[h].n \in {0, 1}
      BY <2>3, <1>6 DEF Exact, Recycled
    <3>2. grant[h].n = 0 => h \in Elements(removed[Thread(h)])
      BY DEF Exact, Recycled
    <3>3. Thread(h) # t => removed'[Thread(h)] = removed[Thread(h)]
      BY <1>1, ThreadOf DEF UngrantStep, StateInv, Shape
    <3> QED BY <2>1, <3>1, <3>2, <3>3
  <2> QED BY <2>2, <2>3
<1>9. InUse'
  BY <1>3, <1>6 DEF Exact, InUse, Belongs, Thread
<1>10. ASSUME NEW u \in Threads PROVE Writing(u)'
  <2>1. Ungranting(u)' = Ungranting(u)
    BY <1>3 DEF Ungranting, Lock
  <2>2. Ungranting(u) # << >> => Head(Ungranting(u)) \in LockGrants
    BY UngrantingHead DEF TakesBack
  <2> QED BY <1>2, <1>6, <2>1, <2>2 DEF Exact, Writers, Writing, Thread
<1> QED BY <1>2, <1>7, <1>8, <1>9, <1>10 DEF Exact, Writers

LEMMA ExactWakeUp ==
  ASSUME StateInv, Exact, NEW t \in Threads, WakeUp(t)
  PROVE  Exact'
<1> DEFINE g == Head(Ungranting(t))
           rest == Tail(Ungranting(t))
<1>1. WakeUpStep(t, g, rest)
  BY WakeUpEffect
<1>2. writer' = [writer EXCEPT ![g] = FALSE]
  BY DEF WakeUp
<1> HIDE DEF rest
<1>3. /\ g \in LockGrants /\ Thread(g) = t /\ grant[g].n = 0 /\ rest \in Seq(LockGrants)
      /\ UNCHANGED <<arg, grant, lockGrants, removed>>
      /\ pc[t] \in {"retract", "ungrant"}
  BY <1>1 DEF WakeUpStep, TakesBack
<1>4. ASSUME NEW h \in LockGrants, h # g, Belongs(h) PROVE Belongs(h)'
  <2>1. CASE pc[t] = "retract"
    <3>1. curGrants' = [curGrants EXCEPT ![t] = rest] /\ acqGrants' = acqGrants
          /\ Ungranting(t) = curGrants[t]
      BY <1>1, <2>1 DEF WakeUpStep, TakesBack
    <3>2. h \in Elements(curGrants[Thread(h)]) => h \in Elements(curGrants'[Thread(h)])
      <4>1. CASE Thread(h) = t
        <5>1. curGrants'[t] = rest
          BY <3>1 DEF StateInv, Shape
        <5> QED BY <1>1, <1>4, <3>1, <4>1, <5>1 DEF WakeUpStep
      <4>2. CASE Thread(h) # t
        <5>1. curGrants'[Thread(h)] = curGrants[Thread(h)]
          BY <3>1, <4>2, ThreadOf DEF StateInv, Shape
        <5> QED BY <5>1
      <4> QED BY <4>1, <4>2
    <3> QED BY <1>4, <3>1, <3>2 DEF Belongs, Thread
  <2>2. CASE pc[t] = "ungrant"
    <3>1. /\ acqGrants' = [acqGrants EXCEPT ![Lock(t)] = rest] /\ curGrants' = curGrants
          /\ Ungranting(t) = acqGrants[Lock(t)] /\ Lock(t) \in Locks
      BY <1>1, <2>2 DEF WakeUpStep, TakesBack
    <3>2. ASSUME NEW l \in Locks, h \in Elements(acqGrants[l])
          PROVE  h \in Elements(acqGrants'[l])
      <4>1. CASE l = Lock(t)
        <5>1. acqGrants'[l] = rest
          BY <3>1, <4>1 DEF StateInv, Shape
        <5> QED BY <1>1, <1>4, <3>1, <3>2, <4>1, <5>1 DEF WakeUpStep
      <4>2. CASE l # Lock(t)
        <5>1. acqGrants'[l] = acqGrants[l]
          BY <3>1, <4>2 DEF StateInv, Shape
        <5> QED BY <3>2, <5>1
      <4> QED BY <4>1, <4>2
    <3> QED BY <1>4, <3>1, <3>2 DEF Belongs, Thread
  <2> QED BY <1>3, <2>1, <2>2
<1>5. \A h \in LockGrants : h # g => writer'[h] = writer[h]
  BY <1>2 DEF Exact, Writers
<1>6. writer' \in [LockGrants -> BOOLEAN] /\ ~ writer'[g]
  BY <1>2, <1>3 DEF Exact, Writers
<1>7. Writing(t)'
  <2>1. \A h \in LockGrants : Thread(h) = t => ~ writer'[h]
    BY <1>5, <1>6 DEF Exact, Writers, Writing
  <2>2. ASSUME Ungranting(t)' # << >> PROVE grant[Head(Ungranting(t)')].n = 1
    <3>1. CASE pc[t] = "retract"
      <4>1. curGrants'[t] = rest /\ pc'[t] \in {"readlock", "retract"} /\ Ungranting(t) = curGrants[t]
        BY <1>1, <3>1 DEF WakeUpStep, TakesBack, StateInv, Shape
      <4>2. Ungranting(t)' = rest
        BY <2>2, <4>1 DEF Ungranting
      <4>3. Head(rest) \in Elements(rest)
        BY <1>3, <2>2, <4>2, HeadTailElements
      <4>4. Head(rest) \in Elements(curGrants[t]) /\ Head(rest) # g
        BY <1>1, <4>1, <4>3 DEF WakeUpStep
      <4>5. grant[Head(rest)].n = 1
        BY <4>1, <4>4 DEF StateInv, Requests, Request, g
      <4> QED BY <4>2, <4>5
    <3>2. CASE pc[t] = "ungrant"
      <4>1. /\ Lock(t) \in Locks /\ acqGrants'[Lock(t)] = rest
            /\ pc'[t] \in {"leaving", "ungrant"} /\ Ungranting(t) = acqGrants[Lock(t)]
        BY <1>1, <3>2 DEF WakeUpStep, TakesBack, StateInv, Shape
      <4>2. Ungranting(t)' = rest
        BY <1>3, <2>2, <4>1 DEF Ungranting, Lock
      <4>3. Head(rest) \in Elements(rest)
        BY <1>3, <2>2, <4>2, HeadTailElements
      <4>4. Head(rest) \in Elements(acqGrants[Lock(t)]) /\ Head(rest) # g
        BY <1>1, <4>1, <4>3 DEF WakeUpStep
      <4>5. grant[Head(rest)].n = 1
        BY <4>1, <4>4, HeldGrant DEF g
      <4> QED BY <4>2, <4>5
    <3> QED BY <1>3, <3>1, <3>2
  <2> QED BY <1>3, <2>1, <2>2 DEF Writing, Thread
<1>8. ASSUME NEW u \in Threads \ {t} PROVE Writing(u)'
  <2>1. pc'[u] = pc[u] \/ (pc[u] = "waiting" /\ pc'[u] = "grant")
    BY <1>1 DEF WakeUpStep
  <2>2. curGrants'[u] = curGrants[u]
    BY <1>1 DEF WakeUpStep, StateInv, Shape
  <2>3. ASSUME pc[u] = "ungrant" PROVE acqGrants'[Lock(u)] = acqGrants[Lock(u)]
    <3>1. Lock(u) \in Locks /\ holder[Lock(u)] = u
      BY <2>3 DEF StateInv, Args, WithArg, Lock, Mutex, Owning
    <3>2. CASE pc[t] = "ungrant"
      <4>1. holder[Lock(t)] = t
        BY <3>2 DEF StateInv, Mutex, Owning
      <4> QED BY <1>1, <3>1, <4>1 DEF WakeUpStep, StateInv, Shape
    <3>3. CASE pc[t] = "retract"
      BY <1>1, <3>3 DEF WakeUpStep
    <3> QED BY <1>3, <3>2, <3>3
  <2>4. Ungranting(u)' = Ungranting(u)
    BY <1>3, <2>1, <2>2, <2>3 DEF Ungranting, Lock
  <2>5. Ungranting(u) # << >> => Head(Ungranting(u)) \in LockGrants /\ Head(Ungranting(u)) # g
    BY <1>3, UngrantingHead DEF TakesBack
  <2> QED BY <1>3, <1>5, <2>4, <2>5 DEF Exact, Writers, Writing, Thread
<1>9. InUse'
  <2>1. \A h \in LockGrants : grant[h].n = 1 => Belongs(h) /\ h # g
    BY <1>3 DEF Exact, InUse
  <2> QED BY <1>3, <1>4, <2>1 DEF InUse
<1> QED BY <1>3, <1>6, <1>7, <1>8, <1>9 DEF Exact, Listed, Recycled, Writers, Thread

(* Every action keeps the grants exact. *)
LEMMA ExactStep == StateInv /\ Exact /\ Owned /\ [Next]_vars => Exact'
<1> SUFFICES ASSUME StateInv, Exact, Owned, [Next]_vars PROVE Exact'
  OBVIOUS
<1>0. CASE UNCHANGED vars
  BY <1>0, ExactStays DEF vars, grantVars, waitVars
<1>1. CASE CheckForYieldCycles
  BY <1>1, ExactStays DEF CheckForYieldCycles, grantVars, waitVars
<1>2. ASSUME NEW t \in Threads, NEW l \in Locks, NEW p \in Positions, Avoidance(t, l, p) PROVE Exact'
  BY <1>2, ExactStays DEF Avoidance, Goto, grantVars, waitVars, StateInv, Shape
<1>3. ASSUME NEW t \in Threads, NEW l \in Locks, Reenter(t, l) PROVE Exact'
  BY <1>3, ExactStays DEF Reenter, grantVars, waitVars, StateInv, Shape
<1>4. ASSUME NEW t \in Threads, Look(t) PROVE Exact'
  BY <1>4, ExactStays DEF Look, grantVars, waitVars, StateInv, Shape
<1>5. ASSUME NEW t \in Threads, Enter(t) PROVE Exact'
  BY <1>5, ExactStays DEF Enter, Goto, grantVars, waitVars, StateInv, Shape
<1>6. ASSUME NEW t \in Threads, Leave(t) PROVE Exact'
  BY <1>6, ExactStays DEF Leave, Goto, grantVars, waitVars, StateInv, Shape
<1>7. ASSUME NEW t \in Threads, ReadLock(t) PROVE Exact'
  BY <1>7, ExactStays DEF ReadLock, grantVars, waitVars, StateInv, Shape
<1>8. ASSUME NEW t \in Threads, Yield(t) PROVE Exact'
  BY <1>8, ExactStays DEF Yield, Goto, grantVars, waitVars, StateInv, Shape
<1>9. ASSUME NEW t \in Threads, SpuriousWakeup(t) PROVE Exact'
  BY <1>9, ExactStays DEF SpuriousWakeup, Goto, grantVars, waitVars, StateInv, Shape
<1>10. ASSUME NEW t \in Threads, BypassLivelock(t) PROVE Exact'
  BY <1>10, ExactStays DEF BypassLivelock, grantVars, waitVars, StateInv, Shape
<1>11. ASSUME NEW t \in Threads, NEW l \in Locks, Release(t, l) PROVE Exact'
  BY <1>11, ExactRelease
<1>12. ASSUME NEW t \in Threads, Grant(t) PROVE Exact'
  BY <1>12, ExactGrant
<1>13. ASSUME NEW t \in Threads, Decide(t) PROVE Exact'
  BY <1>13, ExactDecide
<1>14. ASSUME NEW t \in Threads, Acquire(t) PROVE Exact'
  BY <1>14, ExactAcquire
<1>15. ASSUME NEW t \in Threads, WriteLock(t) PROVE Exact'
  BY <1>15, ExactWriteLock
<1>16. ASSUME NEW t \in Threads, Ungrant(t) PROVE Exact'
  BY <1>16, ExactUngrant
<1>17. ASSUME NEW t \in Threads, WakeUp(t) PROVE Exact'
  BY <1>17, ExactWakeUp
<1>18. ASSUME NEW t \in Threads, NEW s, NEW i, SkipAvoidance(t, s, i) PROVE Exact'
  <2>0. SkipStep(t)
    BY <1>18, SkipEffect
  <2> QED BY <2>0, ExactStays DEF SkipStep, StateInv, Shape
<1> QED
  BY <1>0, <1>1, <1>2, <1>3, <1>4, <1>5, <1>6, <1>7, <1>8, <1>9, <1>10, <1>11, <1>12, <1>13, <1>14, <1>15, <1>16, <1>17, <1>18 DEF Next, Step

LEMMA HolderIsThread ==
  ASSUME StateInv, NEW l \in Locks, acqGrants[l] # << >>
  PROVE  holder[l] \in Threads
<1>1. acqGrants[l] \in Seq(LockGrants)
  BY DEF StateInv, Shape
<1>2. PICK g \in Elements(acqGrants[l]) : TRUE
  BY <1>1, HeadTailElements
<1> QED BY <1>2, HeldGrant

LEMMA OwnedStays ==
  ASSUME StateInv, Owned, acqGrants' = acqGrants,
         \A l \in Locks : acqGrants[l] # << >> =>
           holder'[l] = holder[l] /\ (owner'[l] = NULL => owner[l] = NULL),
         \A u \in Threads : pc[u] = "ungrant" => pc'[u] = "ungrant" /\ arg'[u] = arg[u]
  PROVE  Owned'
<1> SUFFICES ASSUME NEW l \in Locks, acqGrants[l] # << >>, owner'[l] = NULL
             PROVE  pc'[holder'[l]] = "ungrant" /\ arg'[holder'[l]][1] = l
  BY DEF Owned, Lock
<1>1. holder'[l] = holder[l] /\ pc[holder[l]] = "ungrant" /\ Lock(holder[l]) = l
  BY DEF Owned
<1>2. holder[l] \in Threads
  BY HolderIsThread
<1> QED BY <1>1, <1>2 DEF Lock

(* A lock is taken by a thread that has no grants left there to take back. *)
LEMMA OwnedStep == StateInv /\ Owned /\ [Next]_vars => Owned'
<1> SUFFICES ASSUME StateInv, Owned, [Next]_vars PROVE Owned'
  OBVIOUS
<1> USE DEF lockVars, grantVars, scanVars
<1>0. CASE UNCHANGED vars
  BY <1>0, OwnedStays DEF vars
<1>1. CASE CheckForYieldCycles
  BY <1>1, OwnedStays DEF CheckForYieldCycles
<1>2. ASSUME NEW t \in Threads, NEW l \in Locks, NEW p \in Positions, Avoidance(t, l, p) PROVE Owned'
  BY <1>2, OwnedStays DEF Avoidance, Goto, StateInv, Shape
<1>3. ASSUME NEW t \in Threads, NEW l \in Locks, Reenter(t, l) PROVE Owned'
  BY <1>3, OwnedStays DEF Reenter, StateInv, Shape
<1>4. ASSUME NEW t \in Threads, Look(t) PROVE Owned'
  BY <1>4, OwnedStays DEF Look, StateInv, Shape
<1>5. ASSUME NEW t \in Threads, Enter(t) PROVE Owned'
  <2>1. Lock(t) \in Locks
    BY <1>5 DEF Enter, StateInv, Args, WithArg, Granted, Lock
  <2>2. acqGrants[Lock(t)] = << >>
    BY <1>5, <2>1, HolderIsThread, NullAssumption DEF Enter
  <2>3. \A l \in Locks : l # Lock(t) => holder'[l] = holder[l]
    BY <1>5 DEF Enter, StateInv, Shape
  <2> QED BY <1>5, <2>2, <2>3, OwnedStays DEF Enter, Goto, StateInv, Shape
<1>6. ASSUME NEW t \in Threads, Leave(t) PROVE Owned'
  <2>1. acqGrants[Lock(t)] = << >>
    BY <1>6 DEF Leave, StateInv, Holdings
  <2>2. \A l \in Locks : l # Lock(t) => holder'[l] = holder[l]
    BY <1>6 DEF Leave, StateInv, Shape
  <2> QED BY <1>6, <2>1, <2>2, OwnedStays DEF Leave, Goto, StateInv, Shape
<1>7. ASSUME NEW t \in Threads, ReadLock(t) PROVE Owned'
  BY <1>7, OwnedStays DEF ReadLock, StateInv, Shape
<1>8. ASSUME NEW t \in Threads, Yield(t) PROVE Owned'
  BY <1>8, OwnedStays DEF Yield, Goto, StateInv, Shape
<1>9. ASSUME NEW t \in Threads, SpuriousWakeup(t) PROVE Owned'
  BY <1>9, OwnedStays DEF SpuriousWakeup, Goto, StateInv, Shape
<1>10. ASSUME NEW t \in Threads, BypassLivelock(t) PROVE Owned'
  BY <1>10, OwnedStays DEF BypassLivelock, StateInv, Shape
<1>11. ASSUME NEW t \in Threads, Grant(t) PROVE Owned'
  <2>1. PICK g, p : GrantStep(t, g, p)
    BY <1>11, GrantEffect
  <2> QED BY <2>1, OwnedStays DEF GrantStep, StateInv, Shape
<1>12. ASSUME NEW t \in Threads, Decide(t) PROVE Owned'
  <2>1. DecideStep(t)
    BY <1>12, DecideEffect
  <2> QED BY <2>1, OwnedStays DEF DecideStep, StateInv, Shape
<1>13. ASSUME NEW t \in Threads, WriteLock(t) PROVE Owned'
  BY <1>13, OwnedStays DEF WriteLock, StateInv, Shape
<1>14. ASSUME NEW t \in Threads, Ungrant(t) PROVE Owned'
  BY <1>14, OwnedStays DEF Ungrant, StateInv, Shape
<1>15. ASSUME NEW t \in Threads, NEW l \in Locks, Release(t, l) PROVE Owned'
  <2>1. ReleaseStep(t, l)
    BY <1>15, ReleaseEffect
  <2>2. CASE UNCHANGED <<owner, arg, pc>>
    BY <2>1, <2>2, OwnedStays DEF ReleaseStep
  <2>3. CASE ~ UNCHANGED <<owner, arg, pc>>
    <3> SUFFICES ASSUME NEW k \in Locks, acqGrants[k] # << >>, owner'[k] = NULL
                 PROVE  pc'[holder[k]] = "ungrant" /\ arg'[holder[k]][1] = k
      BY <2>1 DEF Owned, Lock, ReleaseStep
    <3>1. /\ pc[t] = "idle" /\ owner[l] = t /\ owner' = [owner EXCEPT ![l] = NULL]
          /\ arg' = [arg EXCEPT ![t] = <<l, NULL>>] /\ arg'[t] = <<l, NULL>>
          /\ pc' = [pc EXCEPT ![t] = pc'[t]]
          /\ acqGrants[l] # << >> => pc'[t] = "ungrant"
      BY <2>1, <2>3 DEF ReleaseStep
    <3>2. CASE k = l
      <4>1. holder[k] = t
        BY <3>1, <3>2, NullAssumption DEF StateInv, Mutex
      <4> QED BY <3>1, <3>2, <4>1
    <3>3. CASE k # l
      <4>1. owner[k] = NULL
        BY <3>1, <3>3 DEF StateInv, Shape
      <4>2. holder[k] \in Threads /\ pc[holder[k]] = "ungrant" /\ arg[holder[k]][1] = k
        BY <4>1, HolderIsThread DEF Owned, Lock
      <4> QED BY <3>1, <4>2 DEF StateInv, Shape
    <3> QED BY <3>2, <3>3
  <2> QED BY <2>2, <2>3
<1>16. ASSUME NEW t \in Threads, Acquire(t) PROVE Owned'
  <2>1. Lock(t) \in Locks /\ pc[t] = "acquired"
    BY <1>16 DEF Acquire, StateInv, Args, WithArg, Granted, Lock
  <2> SUFFICES ASSUME NEW k \in Locks, acqGrants'[k] # << >>, owner'[k] = NULL
               PROVE  pc'[holder[k]] = "ungrant" /\ arg'[holder[k]][1] = k
    BY <1>16 DEF Owned, Lock, Acquire
  <2>2. /\ owner' = [owner EXCEPT ![Lock(t)] = t] /\ arg' = [arg EXCEPT ![t] = <<NULL, NULL>>]
        /\ acqGrants' = [acqGrants EXCEPT ![Lock(t)] = curGrants[t]]
        /\ pc' = [pc EXCEPT ![t] = "idle"]
    BY <1>16 DEF Acquire, Goto
  <2>3. k # Lock(t)
    BY <2>1, <2>2, NullAssumption DEF StateInv, Shape
  <2>4. owner[k] = NULL /\ acqGrants[k] # << >>
    BY <2>2, <2>3 DEF StateInv, Shape
  <2>5. holder[k] \in Threads /\ pc[holder[k]] = "ungrant" /\ arg[holder[k]][1] = k
    BY <2>4, HolderIsThread DEF Owned, Lock
  <2> QED BY <2>1, <2>2, <2>5 DEF StateInv, Shape
<1>17. ASSUME NEW t \in Threads, WakeUp(t) PROVE Owned'
  <2>1. PICK g, rest : WakeUpStep(t, g, rest)
    BY <1>17, WakeUpEffect
  <2> SUFFICES ASSUME NEW k \in Locks, acqGrants'[k] # << >>, owner[k] = NULL
               PROVE  pc'[holder[k]] = "ungrant" /\ arg[holder[k]][1] = k
    BY <2>1 DEF Owned, Lock, WakeUpStep
  <2>2. acqGrants[k] # << >>
    <3>1. CASE acqGrants'[k] = acqGrants[k]
      BY <3>1
    <3>2. CASE acqGrants'[k] # acqGrants[k]
      <4>1. k = Lock(t) /\ Ungranting(t) = acqGrants[k] /\ Ungranting(t) # << >>
        BY <2>1, <3>2 DEF WakeUpStep, TakesBack, StateInv, Shape
      <4> QED BY <4>1
    <3> QED BY <3>1, <3>2
  <2>3. holder[k] \in Threads /\ pc[holder[k]] = "ungrant" /\ arg[holder[k]][1] = k
    BY <2>2, HolderIsThread DEF Owned, Lock
  <2>4. CASE holder[k] # t
    BY <2>1, <2>3, <2>4 DEF WakeUpStep
  <2>5. CASE holder[k] = t
    <3>1. acqGrants'[k] = rest /\ pc'[t] = IF rest = << >> THEN "leaving" ELSE "ungrant"
      BY <2>1, <2>3, <2>5 DEF WakeUpStep, Lock, StateInv, Shape
    <3> QED BY <2>3, <2>5, <3>1
  <2> QED BY <2>4, <2>5
<1>18. ASSUME NEW t \in Threads, NEW s, NEW i, SkipAvoidance(t, s, i) PROVE Owned'
  <2>0. SkipStep(t)
    BY <1>18, SkipEffect
  <2> QED BY <2>0, OwnedStays DEF SkipStep, StateInv, Shape
<1> QED
  BY <1>0, <1>1, <1>2, <1>3, <1>4, <1>5, <1>6, <1>7, <1>8, <1>9, <1>10, <1>11, <1>12, <1>13, <1>14, <1>15, <1>16, <1>17, <1>18 DEF Next, Step

LEMMA InitOwned == Init => Owned
  BY DEF Init, Owned

(* The number of the places of a grant in a list, and of its uses *)
LEMMA CountPlaces ==
  ASSUME NEW s, Distinct(s), NEW g
  PROVE  Cardinality(PlacesIn(g, s)) = IF g \in Elements(s) THEN 1 ELSE 0
<1>1. CASE g \in Elements(s)
  <2>1. PICK i : PlacesIn(g, s) = {i}
    BY <1>1, CountOnce
  <2> QED BY <1>1, <2>1, FS_Singleton
<1>2. CASE g \notin Elements(s)
  <2>1. PlacesIn(g, s) = {}
    BY <1>2, CountOnce
  <2> QED BY <1>2, <2>1, FS_EmptySet
<1> QED BY <1>1, <1>2

UsesOf(g) == ({NULL} \X PlacesIn(g, curGrants[Thread(g)]))
               \cup UNION {{l} \X PlacesIn(g, acqGrants[l]) : l \in Locks}

LEMMA CountUses ==
  ASSUME StateInv, Exact, NEW g \in LockGrants
  PROVE  Cardinality(UsesOf(g)) = IF writer[g] THEN 1 ELSE grant[g].n
<1> DEFINE t == Thread(g)
<1>1. t \in Threads
  BY ThreadOf
<1>2. \A u : u \in UsesOf(g) <=>
        \/ \E i \in PlacesIn(g, curGrants[t]) : u = <<NULL, i>>
        \/ \E l \in Locks : \E i \in PlacesIn(g, acqGrants[l]) : u = <<l, i>>
  BY DEF UsesOf
<1>3. ASSUME Belongs(g) PROVE \E u : UsesOf(g) = {u}
  <2>1. CASE g \in Elements(curGrants[t])
    <3>1. \A l \in Locks : PlacesIn(g, acqGrants[l]) = {}
      <4> SUFFICES ASSUME NEW l \in Locks, g \in Elements(acqGrants[l]) PROVE FALSE
        BY DEF PlacesIn, Elements
      <4> QED BY <2>1, HeldGrant
    <3>2. Distinct(curGrants[t])
      BY <1>1 DEF StateInv, Requests, Request
    <3>3. PICK i : PlacesIn(g, curGrants[t]) = {i}
      BY <2>1, <3>2, CountOnce
    <3>4. UsesOf(g) = {<<NULL, i>>}
      BY <1>2, <3>1, <3>3
    <3> QED BY <3>4
  <2>2. CASE \E l \in Locks : g \in Elements(acqGrants[l])
    <3>1. PICK l \in Locks : g \in Elements(acqGrants[l])
      BY <2>2
    <3>2. g \notin Elements(curGrants[t]) /\ \A k \in Locks \ {l} : g \notin Elements(acqGrants[k])
      BY <3>1, HeldGrant
    <3>3. PlacesIn(g, curGrants[t]) = {} /\ \A k \in Locks \ {l} : PlacesIn(g, acqGrants[k]) = {}
      BY <3>2 DEF PlacesIn, Elements
    <3>4. Distinct(acqGrants[l])
      BY DEF StateInv, Holdings, Holding
    <3>5. PICK i : PlacesIn(g, acqGrants[l]) = {i}
      BY <3>1, <3>4, CountOnce
    <3>6. UsesOf(g) = {<<l, i>>}
      BY <1>2, <3>3, <3>5
    <3> QED BY <3>6
  <2> QED BY <1>3, <2>1, <2>2 DEF Belongs
<1>4. ASSUME ~ Belongs(g) PROVE UsesOf(g) = {}
  <2>1. PlacesIn(g, curGrants[t]) = {} /\ \A l \in Locks : PlacesIn(g, acqGrants[l]) = {}
    BY <1>4 DEF Belongs, PlacesIn, Elements
  <2> QED BY <1>2, <2>1
<1>5. grant[g].n \in {0, 1} /\ (grant[g].n = 1 => Belongs(g))
  BY DEF Exact, Recycled, InUse
<1>6. ASSUME writer[g] PROVE Belongs(g)
  <2>1. Ungranting(t) # << >> /\ g = Head(Ungranting(t))
    BY <1>1, <1>6 DEF Exact, Writers, Writing
  <2> QED BY <1>1, <2>1, UngrantingHead DEF TakesBack, Belongs
<1>7. ASSUME Belongs(g), grant[g].n = 0 PROVE writer[g]
  <2>1. CASE g \in Elements(curGrants[t])
    <3>1. pc[t] = "retract" /\ g = Head(curGrants[t])
      BY <1>1, <1>7, <2>1 DEF StateInv, Requests, Request
    <3>2. Ungranting(t) = curGrants[t] /\ curGrants[t] # << >>
      BY <1>1, <2>1, <3>1 DEF Ungranting, Elements
    <3> QED BY <1>1, <1>7, <3>1, <3>2 DEF Exact, Writers, Writing
  <2>2. CASE \E l \in Locks : g \in Elements(acqGrants[l])
    <3>1. PICK l \in Locks : g \in Elements(acqGrants[l])
      BY <2>2
    <3>2. pc[t] = "ungrant" /\ Lock(t) = l /\ g = Head(acqGrants[l])
      BY <1>7, <3>1, HeldGrant
    <3>3. Ungranting(t) = acqGrants[l] /\ acqGrants[l] # << >>
      BY <3>1, <3>2 DEF Ungranting, Elements
    <3> QED BY <1>1, <1>7, <3>2, <3>3 DEF Exact, Writers, Writing
  <2> QED BY <1>7, <2>1, <2>2 DEF Belongs
<1>8. Cardinality(UsesOf(g)) = IF Belongs(g) THEN 1 ELSE 0
  BY <1>3, <1>4, FS_Singleton, FS_EmptySet
<1> QED BY <1>5, <1>6, <1>7, <1>8

LEMMA ExactCounts == StateInv /\ Exact => GrantsExact
<1> SUFFICES ASSUME StateInv, Exact, NEW g \in LockGrants
             PROVE  /\ \A p \in Positions : Cardinality(PlacesIn(g, lockGrants[p])) =
                          IF grant[g].n = 1 /\ grant[g].pos = p THEN 1 ELSE 0
                    /\ Cardinality(PlacesIn(g, removed[Thread(g)])) = 1 - grant[g].n
                    /\ Cardinality(UsesOf(g)) = IF writer[g] THEN 1 ELSE grant[g].n
  BY DEF GrantsExact, PlacesIn, UsesOf
<1>1. ASSUME NEW p \in Positions
      PROVE  Cardinality(PlacesIn(g, lockGrants[p])) =
               IF grant[g].n = 1 /\ grant[g].pos = p THEN 1 ELSE 0
  <2>1. g \in Elements(lockGrants[p]) <=> grant[g].n = 1 /\ grant[g].pos = p
    BY DEF StateInv, Pools, Exact, Listed
  <2>2. Distinct(lockGrants[p])
    BY DEF Exact, Listed
  <2> QED BY <2>1, <2>2, CountPlaces
<1>2. Cardinality(PlacesIn(g, removed[Thread(g)])) = 1 - grant[g].n
  <2>1. grant[g].n \in {0, 1} /\ (g \in Elements(removed[Thread(g)]) <=> grant[g].n = 0)
    BY ThreadOf DEF StateInv, Pools, Exact, Recycled
  <2>2. Distinct(removed[Thread(g)])
    BY ThreadOf DEF StateInv, Pools
  <2>3. Cardinality(PlacesIn(g, removed[Thread(g)])) =
          IF g \in Elements(removed[Thread(g)]) THEN 1 ELSE 0
    BY <2>2, CountPlaces
  <2> QED BY <2>1, <2>3
<1> QED BY <1>1, <1>2, CountUses

(* At any time each LockGrant is either in use once, listed once at its    *)
(* position, or waits once to be recycled (grant, ungrant and acquire).    *)
THEOREM GrantsAreExact == Spec => []GrantsExact
<1>1. Init => StateInv /\ Exact /\ Owned
  BY InitState, InitExact, InitOwned
<1>2. StateInv /\ Exact /\ Owned /\ [Next]_vars => (StateInv /\ Exact /\ Owned)'
  BY StateStep, ExactStep, OwnedStep
<1>3. StateInv /\ Exact /\ Owned => GrantsExact
  BY ExactCounts
<1> QED BY <1>1, <1>2, <1>3, PTL DEF Spec

(***************************************************************************)
(* Types                                                                   *)
(***************************************************************************)

ThreadTypes ==
  /\ pc \in [Threads -> PCs]
  /\ arg \in [Threads -> (Locks \cup {NULL}) \X (Positions \cup {NULL})]
  /\ through \in SUBSET LockGrants

(* LockNode::nlck says how often the owner has entered the monitor. *)
LockTypes ==
  /\ holder \in [Locks -> Threads \cup {NULL}]
  /\ owner \in [Locks -> Threads \cup {NULL}]
  /\ nlck = [l \in Locks |-> nlck[l]]
  /\ skip \in [Locks -> BOOLEAN]
  /\ \A l \in Locks : nlck[l] \in 0..MaxDepth[l] /\ (owner[l] = NULL <=> nlck[l] = 0)

GrantTypes ==
  /\ \A g \in LockGrants :
       grant[g].lock \in Locks \cup {NULL} /\ grant[g].pos \in Positions \cup {NULL}
  /\ yielders \in [LockGrants -> SUBSET Threads]
  /\ readers \in [LockGrants -> SUBSET Threads]

(* pc, arg and the set of excused grants *)
LEMMA ThreadTypesStep == StateInv /\ ThreadTypes /\ [Next]_vars => ThreadTypes'
<1> SUFFICES ASSUME StateInv, ThreadTypes, [Next]_vars PROVE ThreadTypes'
  OBVIOUS
<1> USE DEF ThreadTypes, PCs, Goto
<1>0. CASE UNCHANGED vars
  BY <1>0 DEF vars
<1>1. CASE CheckForYieldCycles
  BY <1>1 DEF CheckForYieldCycles
<1>2. ASSUME NEW t \in Threads, NEW l \in Locks, NEW p \in Positions, Avoidance(t, l, p) PROVE ThreadTypes'
  BY <1>2 DEF Avoidance
<1>3. ASSUME NEW t \in Threads, NEW l \in Locks, Reenter(t, l) PROVE ThreadTypes'
  BY <1>3 DEF Reenter
<1>4. ASSUME NEW t \in Threads, NEW l \in Locks, Release(t, l) PROVE ThreadTypes'
  BY <1>4 DEF Release
<1>5. ASSUME NEW t \in Threads, Grant(t) PROVE ThreadTypes'
  BY <1>5 DEF Grant
<1>6. ASSUME NEW t \in Threads, Look(t) PROVE ThreadTypes'
  BY <1>6 DEF Look
<1>7. ASSUME NEW t \in Threads, Decide(t) PROVE ThreadTypes'
  <2>1. curGrants[t] \in Seq(LockGrants)
    BY DEF StateInv, Shape
  <2>2. Elements(curGrants[t]) \in SUBSET LockGrants
    BY <2>1, ElementsType
  <2>3. through' \in SUBSET LockGrants
    BY <1>7, <2>2 DEF Decide
  <2> QED BY <1>7, <2>3 DEF Decide
<1>8. ASSUME NEW t \in Threads, Enter(t) PROVE ThreadTypes'
  BY <1>8 DEF Enter
<1>9. ASSUME NEW t \in Threads, Acquire(t) PROVE ThreadTypes'
  BY <1>9 DEF Acquire
<1>10. ASSUME NEW t \in Threads, Leave(t) PROVE ThreadTypes'
  BY <1>10 DEF Leave
<1>11. ASSUME NEW t \in Threads, WriteLock(t) PROVE ThreadTypes'
  BY <1>11 DEF WriteLock
<1>12. ASSUME NEW t \in Threads, Ungrant(t) PROVE ThreadTypes'
  BY <1>12 DEF Ungrant
<1>13. ASSUME NEW t \in Threads, WakeUp(t) PROVE ThreadTypes'
  BY <1>13 DEF WakeUp
<1>14. ASSUME NEW t \in Threads, ReadLock(t) PROVE ThreadTypes'
  BY <1>14 DEF ReadLock
<1>15. ASSUME NEW t \in Threads, Yield(t) PROVE ThreadTypes'
  BY <1>15 DEF Yield
<1>16. ASSUME NEW t \in Threads, SpuriousWakeup(t) PROVE ThreadTypes'
  BY <1>16 DEF SpuriousWakeup
<1>17. ASSUME NEW t \in Threads, BypassLivelock(t) PROVE ThreadTypes'
  BY <1>17 DEF BypassLivelock
<1>18. ASSUME NEW t \in Threads, NEW s, NEW i, SkipAvoidance(t, s, i) PROVE ThreadTypes'
  <2>0. SkipStep(t)
    BY <1>18, SkipEffect
  <2> QED BY <2>0 DEF SkipStep
<1> QED
  BY <1>0, <1>1, <1>2, <1>3, <1>4, <1>5, <1>6, <1>7, <1>8, <1>9, <1>10, <1>11, <1>12, <1>13, <1>14, <1>15, <1>16, <1>17, <1>18 DEF Next, Step

(* The monitors *)
LEMMA LockTypesStep == StateInv /\ LockTypes /\ [Next]_vars => LockTypes'
<1> SUFFICES ASSUME StateInv, LockTypes, [Next]_vars PROVE LockTypes'
  OBVIOUS
<1> USE DEF LockTypes, lockVars
<1>0. CASE UNCHANGED vars
  BY <1>0 DEF vars
<1>1. CASE CheckForYieldCycles
  BY <1>1 DEF CheckForYieldCycles
<1>2. ASSUME NEW t \in Threads, NEW l \in Locks, NEW p \in Positions, Avoidance(t, l, p) PROVE LockTypes'
  BY <1>2 DEF Avoidance
<1>3. ASSUME NEW t \in Threads, NEW l \in Locks, Reenter(t, l) PROVE LockTypes'
  <2>1. nlck[l] \in 0..MaxDepth[l] /\ nlck[l] # 0 /\ MaxDepth[l] \in Nat
    BY <1>3, NullAssumption, DepthAssumption DEF Reenter
  <2>2. nlck' = [nlck EXCEPT ![l] = nlck[l] + 1] /\ nlck[l] < MaxDepth[l] /\ owner' = owner
    BY <1>3 DEF Reenter
  <2>3. nlck'[l] = nlck[l] + 1 /\ \A k \in Locks : k # l => nlck'[k] = nlck[k]
    BY <2>2
  <2>4. nlck'[l] \in 0..MaxDepth[l] /\ nlck'[l] # 0
    BY <2>1, <2>2, <2>3
  <2>5. nlck' = [k \in Locks |-> nlck'[k]]
    BY <2>2
  <2>6. owner[l] # NULL /\ holder' = holder /\ skip' = skip
    BY <1>3, NullAssumption DEF Reenter
  <2> QED BY <2>2, <2>3, <2>4, <2>5, <2>6
<1>4. ASSUME NEW t \in Threads, NEW l \in Locks, Release(t, l) PROVE LockTypes'
  <2>1. nlck[l] \in 0..MaxDepth[l] /\ nlck[l] # 0 /\ MaxDepth[l] \in Nat
    BY <1>4, NullAssumption, DepthAssumption DEF Release
  <2>2. nlck' = [nlck EXCEPT ![l] = nlck[l] - 1] /\ holder' = holder /\ owner[l] = t /\ t # NULL
    BY <1>4, NullAssumption DEF Release
  <2>3. nlck'[l] = nlck[l] - 1 /\ \A k \in Locks : k # l => nlck'[k] = nlck[k]
    BY <2>2
  <2>4. nlck'[l] \in 0..MaxDepth[l]
    BY <2>1, <2>3
  <2>5. nlck' = [k \in Locks |-> nlck'[k]]
    BY <2>2
  <2>6. owner' = [owner EXCEPT ![l] = IF nlck[l] = 1 THEN NULL ELSE t]
    BY <1>4, <2>2 DEF Release
  <2>7. owner'[l] = NULL <=> nlck'[l] = 0
    BY <2>1, <2>2, <2>3, <2>6
  <2>8. owner' \in [Locks -> Threads \cup {NULL}] /\ \A k \in Locks : k # l => owner'[k] = owner[k]
    BY <2>6
  <2>9. skip' \in [Locks -> BOOLEAN]
    BY <1>4 DEF Release
  <2> QED BY <2>2, <2>3, <2>4, <2>5, <2>7, <2>8, <2>9
<1>5. ASSUME NEW t \in Threads, Grant(t) PROVE LockTypes'
  BY <1>5 DEF Grant
<1>6. ASSUME NEW t \in Threads, Look(t) PROVE LockTypes'
  BY <1>6 DEF Look
<1>7. ASSUME NEW t \in Threads, Decide(t) PROVE LockTypes'
  BY <1>7 DEF Decide
<1>8. ASSUME NEW t \in Threads, Enter(t) PROVE LockTypes'
  BY <1>8 DEF Enter
<1>9. ASSUME NEW t \in Threads, Acquire(t) PROVE LockTypes'
  <2> DEFINE l == Lock(t)
  <2>1. l \in Locks /\ owner[l] = NULL
    BY <1>9 DEF Acquire, StateInv, Args, WithArg, Granted, Lock, Mutex, Owning
  <2>2. nlck[l] = 0 /\ MaxDepth[l] \in Nat \ {0} /\ t # NULL
    BY <2>1, NullAssumption, DepthAssumption
  <2>3. nlck' = [nlck EXCEPT ![l] = nlck[l] + 1] /\ owner' = [owner EXCEPT ![l] = t]
        /\ holder' = holder /\ skip' = skip
    BY <1>9 DEF Acquire
  <2> HIDE DEF l
  <2>4. /\ nlck'[l] = 1 /\ owner'[l] = t
        /\ \A k \in Locks : k # l => nlck'[k] = nlck[k] /\ owner'[k] = owner[k]
    BY <2>1, <2>2, <2>3
  <2>5. nlck'[l] \in 0..MaxDepth[l] /\ nlck'[l] # 0
    BY <2>2, <2>4
  <2>6. nlck' = [k \in Locks |-> nlck'[k]] /\ owner' \in [Locks -> Threads \cup {NULL}]
    BY <2>3
  <2> QED BY <2>2, <2>3, <2>4, <2>5, <2>6
<1>10. ASSUME NEW t \in Threads, Leave(t) PROVE LockTypes'
  BY <1>10 DEF Leave
<1>11. ASSUME NEW t \in Threads, WriteLock(t) PROVE LockTypes'
  BY <1>11 DEF WriteLock
<1>12. ASSUME NEW t \in Threads, Ungrant(t) PROVE LockTypes'
  BY <1>12 DEF Ungrant
<1>13. ASSUME NEW t \in Threads, WakeUp(t) PROVE LockTypes'
  BY <1>13 DEF WakeUp
<1>14. ASSUME NEW t \in Threads, ReadLock(t) PROVE LockTypes'
  BY <1>14 DEF ReadLock
<1>15. ASSUME NEW t \in Threads, Yield(t) PROVE LockTypes'
  BY <1>15 DEF Yield
<1>16. ASSUME NEW t \in Threads, SpuriousWakeup(t) PROVE LockTypes'
  BY <1>16 DEF SpuriousWakeup
<1>17. ASSUME NEW t \in Threads, BypassLivelock(t) PROVE LockTypes'
  BY <1>17 DEF BypassLivelock
<1>18. ASSUME NEW t \in Threads, NEW s, NEW i, SkipAvoidance(t, s, i) PROVE LockTypes'
  <2>0. SkipStep(t)
    BY <1>18, SkipEffect
  <2>1. skip' \in [Locks -> BOOLEAN]
    <3>1. \A l \in Locks : \A x : (skip[l] \/ l \in x) \in BOOLEAN
      OBVIOUS
    <3> QED BY <1>18, <3>1 DEF SkipAvoidance
  <2> QED BY <2>0, <2>1 DEF SkipStep
<1> QED
  BY <1>0, <1>1, <1>2, <1>3, <1>4, <1>5, <1>6, <1>7, <1>8, <1>9, <1>10, <1>11, <1>12, <1>13, <1>14, <1>15, <1>16, <1>17, <1>18 DEF Next, Step

(* The grants, their yielders and readers *)
LEMMA GrantTypesStep == StateInv /\ GrantTypes /\ [Next]_vars => GrantTypes'
<1> SUFFICES ASSUME StateInv, GrantTypes, [Next]_vars PROVE GrantTypes'
  OBVIOUS
<1> USE DEF GrantTypes, grantVars, waitVars
<1>0. CASE UNCHANGED vars
  BY <1>0 DEF vars
<1>1. CASE CheckForYieldCycles
  BY <1>1 DEF CheckForYieldCycles
<1>2. ASSUME NEW t \in Threads, NEW l \in Locks, NEW p \in Positions, Avoidance(t, l, p) PROVE GrantTypes'
  BY <1>2 DEF Avoidance
<1>3. ASSUME NEW t \in Threads, NEW l \in Locks, Reenter(t, l) PROVE GrantTypes'
  BY <1>3 DEF Reenter
<1>4. ASSUME NEW t \in Threads, NEW l \in Locks, Release(t, l) PROVE GrantTypes'
  BY <1>4 DEF Release
<1>5. ASSUME NEW t \in Threads, Grant(t) PROVE GrantTypes'
  <2>1. PICK g, p : GrantStep(t, g, p)
    BY <1>5, GrantEffect
  <2>2. /\ grant'[g].lock \in Locks /\ grant'[g].pos \in Positions
        /\ \A h \in LockGrants : h # g => grant'[h] = grant[h]
    BY <2>1 DEF GrantStep, StateInv, Shape
  <2> QED BY <1>5, <2>2 DEF Grant
<1>6. ASSUME NEW t \in Threads, Look(t) PROVE GrantTypes'
  BY <1>6 DEF Look
<1>7. ASSUME NEW t \in Threads, Decide(t) PROVE GrantTypes'
  BY <1>7 DEF Decide
<1>8. ASSUME NEW t \in Threads, Enter(t) PROVE GrantTypes'
  BY <1>8 DEF Enter
<1>9. ASSUME NEW t \in Threads, Acquire(t) PROVE GrantTypes'
  BY <1>9 DEF Acquire
<1>10. ASSUME NEW t \in Threads, Leave(t) PROVE GrantTypes'
  BY <1>10 DEF Leave
<1>11. ASSUME NEW t \in Threads, WriteLock(t) PROVE GrantTypes'
  BY <1>11 DEF WriteLock
<1>12. ASSUME NEW t \in Threads, Ungrant(t) PROVE GrantTypes'
  BY <1>12 DEF Ungrant
<1>13. ASSUME NEW t \in Threads, WakeUp(t) PROVE GrantTypes'
  BY <1>13 DEF WakeUp
<1>14. ASSUME NEW t \in Threads, ReadLock(t) PROVE GrantTypes'
  <2>1. \A g \in LockGrants : readers[g] \cup {t} \in SUBSET Threads
    OBVIOUS
  <2>2. \E g : g \in LockGrants /\ readers' = [readers EXCEPT ![g] = readers[g] \cup {t}]
    BY <1>14 DEF ReadLock, Others
  <2>3. readers' \in [LockGrants -> SUBSET Threads]
    BY <2>1, <2>2
  <2> QED BY <1>14, <2>3 DEF ReadLock
<1>15. ASSUME NEW t \in Threads, Yield(t) PROVE GrantTypes'
  BY <1>15 DEF Yield
<1>16. ASSUME NEW t \in Threads, SpuriousWakeup(t) PROVE GrantTypes'
  BY <1>16 DEF SpuriousWakeup
<1>17. ASSUME NEW t \in Threads, BypassLivelock(t) PROVE GrantTypes'
  BY <1>17 DEF BypassLivelock
<1>18. ASSUME NEW t \in Threads, NEW s, NEW i, SkipAvoidance(t, s, i) PROVE GrantTypes'
  <2>0. SkipStep(t)
    BY <1>18, SkipEffect
  <2> QED BY <2>0 DEF SkipStep
<1> QED
  BY <1>0, <1>1, <1>2, <1>3, <1>4, <1>5, <1>6, <1>7, <1>8, <1>9, <1>10, <1>11, <1>12, <1>13, <1>14, <1>15, <1>16, <1>17, <1>18 DEF Next, Step

(* The search finds an instance: there is a lexicographically least one.   *)

SameTo(f, h, k)   == \A j \in 1..k : f[j] = h[j]
LessWithin(f, h, k) == \E i \in 1..k : f[i] < h[i] /\ SameTo(f, h, i - 1)
LeastTo(fs, k) == \E f \in fs : \A h \in fs : SameTo(f, h, k) \/ LessWithin(f, h, k)

LEMMA LeastStep ==
  ASSUME NEW n \in Nat, NEW fs \in SUBSET [1..n -> Nat], NEW k \in Nat, k < n, LeastTo(fs, k)
  PROVE  LeastTo(fs, k + 1)
<1>1. PICK f \in fs : \A h \in fs : SameTo(f, h, k) \/ LessWithin(f, h, k)
  BY DEF LeastTo
<1> DEFINE hs == {h \in fs : SameTo(f, h, k)}
           V  == {h[k + 1] : h \in hs}
<1>2. k + 1 \in 1..n
  OBVIOUS
<1>3. f \in hs
  BY DEF SameTo
<1>4. V \in SUBSET Nat /\ V # {}
  BY <1>2, <1>3
<1>5. PICK m \in V : \A v \in V : m <= v
  BY <1>4, MinNat
<1>6. PICK g \in hs : g[k + 1] = m
  OBVIOUS
<1>7. SameTo(f, g, k)
  OBVIOUS
<1>8. ASSUME NEW h \in fs PROVE SameTo(g, h, k + 1) \/ LessWithin(g, h, k + 1)
  <2>1. CASE SameTo(f, h, k)
    <3>1. SameTo(g, h, k)
      BY <1>7, <2>1 DEF SameTo
    <3>2. h \in hs /\ g[k + 1] <= h[k + 1]
      BY <1>5, <1>6, <2>1
    <3>3. g[k + 1] \in Nat /\ h[k + 1] \in Nat
      BY <1>2
    <3>4. CASE g[k + 1] = h[k + 1]
      <4>1. SameTo(g, h, k + 1)
        BY <3>1, <3>4 DEF SameTo
      <4> QED BY <4>1
    <3>5. CASE g[k + 1] < h[k + 1]
      <4>1. k + 1 \in 1..(k + 1) /\ k + 1 - 1 = k
        OBVIOUS
      <4>2. LessWithin(g, h, k + 1)
        BY <3>1, <3>5, <4>1 DEF LessWithin
      <4> QED BY <4>2
    <3> QED BY <3>2, <3>3, <3>4, <3>5
  <2>2. CASE LessWithin(f, h, k)
    <3>1. PICK i \in 1..k : f[i] < h[i] /\ SameTo(f, h, i - 1)
      BY <2>2 DEF LessWithin
    <3>2. g[i] = f[i]
      BY <1>7 DEF SameTo
    <3>3. SameTo(g, h, i - 1)
      BY <1>7, <3>1 DEF SameTo
    <3>4. i \in 1..(k + 1)
      OBVIOUS
    <3> QED BY <3>1, <3>2, <3>3, <3>4 DEF LessWithin
  <2> QED BY <1>1, <2>1, <2>2
<1> QED BY <1>8 DEF LeastTo

LEMMA LeastAll ==
  ASSUME NEW n \in Nat, NEW fs \in SUBSET [1..n -> Nat], fs # {}
  PROVE  LeastTo(fs, n)
<1> DEFINE B == {k \in 0..n : ~ LeastTo(fs, k)}
<1>1. SUFFICES ASSUME B # {} PROVE FALSE
  OBVIOUS
<1>2. B \in SUBSET Nat
  OBVIOUS
<1>3. PICK m \in B : \A k \in B : m <= k
  BY <1>1, <1>2, MinNat
<1>4. LeastTo(fs, 0)
  <2>1. \A f, h \in fs : SameTo(f, h, 0)
    BY DEF SameTo
  <2> QED BY <2>1 DEF LeastTo
<1>5. m # 0
  BY <1>4
<1>6. m - 1 \in 0..n /\ m - 1 \in Nat /\ m - 1 < n /\ m - 1 + 1 = m
  BY <1>5
<1>7. LeastTo(fs, m - 1)
  BY <1>3, <1>6
<1>8. LeastTo(fs, m - 1 + 1)
  BY <1>6, <1>7, LeastStep
<1> QED BY <1>6, <1>8

LEMMA FirstIsIn ==
  ASSUME NEW n \in Nat, NEW fs \in SUBSET [1..n -> Nat], fs # {}
  PROVE  First(fs) \in fs
<1>1. PICK f \in fs : \A h \in fs : SameTo(f, h, n) \/ LessWithin(f, h, n)
  BY LeastAll DEF LeastTo
<1>2. ASSUME NEW h \in fs \ {f}
      PROVE  \E i \in DOMAIN f : f[i] < h[i] /\ \A j \in 1..(i - 1) : f[j] = h[j]
  <2>1. ~ SameTo(f, h, n)
    <3>1. f \in [1..n -> Nat] /\ h \in [1..n -> Nat] /\ f # h
      OBVIOUS
    <3> QED BY <3>1 DEF SameTo
  <2>2. DOMAIN f = 1..n
    OBVIOUS
  <2> QED BY <1>1, <2>1, <2>2 DEF LessWithin, SameTo
<1> QED BY <1>1, <1>2 DEF First

(* What the scans and the detector keep *)
HasInstance(t) ==
  pc[t] \in {"retract", "readlock", "waiting"} \/ t \in found =>
    curInstance[t].sig \in DOMAIN History
ScanTypes ==
  /\ \A t \in Threads : scan[t].left \subseteq (DOMAIN History) \X Nat
  /\ curInstance \in [Threads -> Instance]
  /\ toSkip = [t \in Threads |-> toSkip[t]]
  /\ \A t \in Threads : \A s \in toSkip[t] : s.sig \in DOMAIN History
  /\ \A t \in Threads : HasInstance(t)
  /\ found \in SUBSET Threads

LEMMA MatchingInHistory == \A p : MatchingPositions(p) \subseteq (DOMAIN History) \X Nat
<1> SUFFICES ASSUME NEW p, NEW x \in MatchingPositions(p) PROVE x \in (DOMAIN History) \X Nat
  OBVIOUS
<1>1. PICK s \in DOMAIN History : \E i \in DOMAIN History[s] : x = <<s, i>>
  BY MatchingIs
<1>2. PICK i \in DOMAIN History[s] : x = <<s, i>>
  BY <1>1
<1> QED BY <1>2, HistoryShape

(* What the scan finds is a sequence of grants. *)
LEMMA FoundInstance ==
  ASSUME NEW seen \in Seq(Seq(Entries)), Instances(seen) # {}
  PROVE  [i \in DOMAIN seen |-> seen[i][First(Instances(seen))[i]]] \in Seq(LockGrants)
<1> DEFINE fs == Instances(seen)
           n  == Len(seen)
<1>1. n \in Nat /\ DOMAIN seen = 1..n /\ \A i \in 1..n : seen[i] \in Seq(Entries)
  OBVIOUS
<1>2. UNION {DOMAIN seen[i] : i \in 1..n} \in SUBSET Nat
  <2>1. ASSUME NEW i \in 1..n PROVE DOMAIN seen[i] \in SUBSET Nat
    <3>1. seen[i] \in Seq(Entries)
      BY <1>1
    <3> QED BY <3>1
  <2> QED BY <2>1
<1>3. fs \in SUBSET [1..n -> Nat]
  <2>1. fs \in SUBSET [1..n -> UNION {DOMAIN seen[i] : i \in 1..n}]
    BY <1>1 DEF Instances
  <2> QED BY <1>2, <2>1
<1>4. First(fs) \in fs
  BY <1>1, <1>3, FirstIsIn
<1>5. \A i \in 1..n : First(fs)[i] \in DOMAIN seen[i] /\ seen[i][First(fs)[i]] # NULL
  <2>1. \A f \in fs : \A i \in DOMAIN f : f[i] \in DOMAIN seen[i] /\ seen[i][f[i]] # NULL
    BY DEF Instances
  <2>2. DOMAIN First(fs) = 1..n
    BY <1>3, <1>4
  <2> QED BY <1>4, <2>1, <2>2
<1>6. ASSUME NEW i \in 1..n PROVE seen[i][First(fs)[i]] \in LockGrants
  <2>1. seen[i] \in Seq(Entries) /\ First(fs)[i] \in DOMAIN seen[i]
    BY <1>1, <1>5
  <2>2. seen[i][First(fs)[i]] \in Entries
    BY <2>1
  <2> QED BY <1>5, <2>2 DEF Entries
<1> HIDE DEF fs
<1>7. PICK f : f = [i \in 1..n |-> seen[i][First(fs)[i]]]
  OBVIOUS
<1>8. f \in [1..n -> LockGrants]
  BY <1>6, <1>7
<1>9. f \in Seq(LockGrants)
  BY ONLY <1>1, <1>8
<1> QED BY <1>1, <1>7, <1>9 DEF fs

LEMMA ScanTypesStay ==
  ASSUME ScanTypes, UNCHANGED <<curInstance, toSkip, found>>,
         \A u \in Threads : scan'[u].left \subseteq (DOMAIN History) \X Nat,
         \A u \in Threads : pc'[u] \in {"retract", "readlock", "waiting"} =>
                             pc[u] \in {"retract", "readlock", "waiting"}
  PROVE  ScanTypes'
<1>1. ASSUME NEW u \in Threads PROVE HasInstance(u)'
  BY DEF ScanTypes, HasInstance
<1> QED BY <1>1 DEF ScanTypes

LEMMA ScanTypesStep == StateInv /\ ScanTypes /\ [Next]_vars => ScanTypes'
<1> SUFFICES ASSUME StateInv, ScanTypes, [Next]_vars PROVE ScanTypes'
  OBVIOUS
<1>0. CASE UNCHANGED vars
  BY <1>0, ScanTypesStay DEF vars, scanVars, ScanTypes
<1>1. CASE CheckForYieldCycles
  <2>1. /\ UNCHANGED <<pc, scan, curInstance, toSkip>>
        /\ \E n : \E c : found' = {t \in Elements(c) : pc[t] = "waiting"}
                      /\ c \in [1..n -> Stuck]
    BY <1>1 DEF CheckForYieldCycles, scanVars
  <2>2. PICK n, c : found' = {t \in Elements(c) : pc[t] = "waiting"} /\ c \in [1..n -> Stuck]
    BY <2>1
  <2>3. Elements(c) \subseteq Threads
    BY <2>2 DEF Elements, Stuck
  <2>4. ASSUME NEW u \in Threads PROVE HasInstance(u)'
    BY <2>1, <2>2 DEF ScanTypes, HasInstance
  <2> QED BY <2>1, <2>2, <2>3, <2>4 DEF ScanTypes
<1>2. ASSUME NEW t \in Threads, NEW l \in Locks, NEW p \in Positions, Avoidance(t, l, p) PROVE ScanTypes'
  BY <1>2, ScanTypesStay DEF Avoidance, Goto, scanVars, ScanTypes, StateInv, Shape
<1>3. ASSUME NEW t \in Threads, NEW l \in Locks, Reenter(t, l) PROVE ScanTypes'
  BY <1>3, ScanTypesStay DEF Reenter, scanVars, ScanTypes, StateInv, Shape
<1>4. ASSUME NEW t \in Threads, NEW l \in Locks, Release(t, l) PROVE ScanTypes'
  BY <1>4, ScanTypesStay DEF Release, Goto, scanVars, ScanTypes, StateInv, Shape
<1>5. ASSUME NEW t \in Threads, Grant(t) PROVE ScanTypes'
  <2>1. PICK g, p : GrantStep(t, g, p)
    BY <1>5, GrantEffect
  <2>2. UNCHANGED <<curInstance, toSkip, found>>
    BY <1>5 DEF Grant
  <2>3. ASSUME NEW u \in Threads PROVE scan'[u].left \subseteq (DOMAIN History) \X Nat
    <3>1. scan[u].left \subseteq (DOMAIN History) \X Nat /\ scan = [v \in Threads |-> scan[v]]
      BY DEF ScanTypes, StateInv, Shape
    <3>2. scan' = scan \/ scan' = [scan EXCEPT ![t] = ScanOf(MatchingPositions(p))]
      BY <2>1 DEF GrantStep
    <3>3. ScanOf(MatchingPositions(p)).left \subseteq (DOMAIN History) \X Nat
      BY MatchingInHistory DEF ScanOf
    <3> QED BY <3>1, <3>2, <3>3
  <2> QED BY <2>1, <2>2, <2>3, ScanTypesStay DEF GrantStep, StateInv, Shape
<1>6. ASSUME NEW t \in Threads, Look(t) PROVE ScanTypes'
  <2>1. PICK k : LookStep(t, k)
    BY <1>6, LookEffect
  <2>2. UNCHANGED <<curInstance, toSkip, found>>
    BY <1>6 DEF Look, scanVars
  <2>3. ASSUME NEW u \in Threads PROVE scan'[u].left \subseteq (DOMAIN History) \X Nat
    BY <2>1 DEF LookStep, ScanTypes, StateInv, Shape
  <2> QED BY <2>1, <2>2, <2>3, ScanTypesStay DEF LookStep
<1>7. ASSUME NEW t \in Threads, Decide(t) PROVE ScanTypes'
  <2> DEFINE inst == [sig |-> At(t)[1], grants |-> [i \in DOMAIN scan[t].seen |->
                        scan[t].seen[i][First(Instances(scan[t].seen))[i]]]]
  <2>1. /\ pc[t] = "scan" /\ found' = found
        /\ \/ /\ Instances(scan[t].seen) # {} /\ toSkip' = toSkip
              /\ curInstance' = [curInstance EXCEPT ![t] = inst]
              /\ scan' = [scan EXCEPT ![t] = ScanOf({})]
              /\ pc' = [pc EXCEPT ![t] = "retract"]
           \/ /\ pc' = pc /\ curInstance' = curInstance /\ toSkip' = toSkip
              /\ \E cut : scan' = [scan EXCEPT ![t] = [left |-> scan[t].left \ {At(t)},
                                                       seen |-> << >>, cut |-> cut]]
           \/ /\ pc' = [pc EXCEPT ![t] = "entering"]
              /\ toSkip' = [toSkip EXCEPT ![t] = {}]
              /\ scan' = [scan EXCEPT ![t] = ScanOf({})]
              /\ curInstance' = IF t \in found THEN curInstance
                                ELSE [curInstance EXCEPT ![t] = NoInstance]
    BY <1>7 DEF Decide, Goto
  <2>2. /\ scan[t].seen \in Seq(Seq(Entries)) /\ At(t)[1] \in DOMAIN History
    BY <2>1, ScanFacts
  <2>3. Instances(scan[t].seen) # {} => inst \in Instance /\ inst.sig = At(t)[1]
    BY <2>2, FoundInstance DEF Instance
  <2>4. NoInstance \in Instance
    BY DEF Instance
  <2> HIDE DEF inst
  <2>5. ASSUME NEW u \in Threads PROVE scan'[u].left \subseteq (DOMAIN History) \X Nat
    <3>1. scan[u].left \subseteq (DOMAIN History) \X Nat /\ scan = [v \in Threads |-> scan[v]]
      BY DEF ScanTypes, StateInv, Shape
    <3>2. CASE u # t
      BY <2>1, <3>1, <3>2
    <3>3. CASE u = t
      BY <2>1, <3>1, <3>3 DEF ScanOf
    <3> QED BY <3>2, <3>3
  <2>6. curInstance' \in [Threads -> Instance]
    BY <2>1, <2>3, <2>4 DEF ScanTypes
  <2>7. /\ toSkip' = [u \in Threads |-> toSkip'[u]]
        /\ \A u \in Threads : \A s \in toSkip'[u] : s.sig \in DOMAIN History
    BY <2>1 DEF ScanTypes
  <2>8. ASSUME NEW u \in Threads PROVE HasInstance(u)'
    <3>1. CASE u # t
      BY <2>1, <3>1 DEF ScanTypes, HasInstance, StateInv, Shape
    <3>2. CASE u = t
      BY <2>1, <2>2, <2>3, <3>2 DEF ScanTypes, HasInstance, StateInv, Shape
    <3> QED BY <3>1, <3>2
  <2> QED BY <2>1, <2>5, <2>6, <2>7, <2>8 DEF ScanTypes
<1>8. ASSUME NEW t \in Threads, Enter(t) PROVE ScanTypes'
  BY <1>8, ScanTypesStay DEF Enter, Goto, scanVars, ScanTypes, StateInv, Shape
<1>9. ASSUME NEW t \in Threads, Acquire(t) PROVE ScanTypes'
  BY <1>9, ScanTypesStay DEF Acquire, Goto, scanVars, ScanTypes, StateInv, Shape
<1>10. ASSUME NEW t \in Threads, Leave(t) PROVE ScanTypes'
  BY <1>10, ScanTypesStay DEF Leave, Goto, scanVars, ScanTypes, StateInv, Shape
<1>11. ASSUME NEW t \in Threads, WriteLock(t) PROVE ScanTypes'
  BY <1>11, ScanTypesStay DEF WriteLock, scanVars, ScanTypes, StateInv, Shape
<1>12. ASSUME NEW t \in Threads, Ungrant(t) PROVE ScanTypes'
  BY <1>12, ScanTypesStay DEF Ungrant, scanVars, ScanTypes, StateInv, Shape
<1>13. ASSUME NEW t \in Threads, WakeUp(t) PROVE ScanTypes'
  <2>1. PICK g, rest : WakeUpStep(t, g, rest)
    BY <1>13, WakeUpEffect
  <2>2. UNCHANGED <<scan, curInstance, toSkip, found>>
    BY <1>13 DEF WakeUp, scanVars
  <2>3. \A u \in Threads : pc'[u] \in {"retract", "readlock", "waiting"} =>
                            pc[u] \in {"retract", "readlock", "waiting"}
    BY <2>1 DEF WakeUpStep
  <2> QED BY <2>2, <2>3, ScanTypesStay DEF ScanTypes
<1>14. ASSUME NEW t \in Threads, ReadLock(t) PROVE ScanTypes'
  BY <1>14, ScanTypesStay DEF ReadLock, scanVars, ScanTypes, StateInv, Shape
<1>15. ASSUME NEW t \in Threads, Yield(t) PROVE ScanTypes'
  BY <1>15, ScanTypesStay DEF Yield, Goto, scanVars, ScanTypes, StateInv, Shape
<1>16. ASSUME NEW t \in Threads, SpuriousWakeup(t) PROVE ScanTypes'
  BY <1>16, ScanTypesStay DEF SpuriousWakeup, Goto, scanVars, ScanTypes, StateInv, Shape
<1>17. ASSUME NEW t \in Threads, BypassLivelock(t) PROVE ScanTypes'
  <2>1. /\ t \in found /\ found' = found \ {t} /\ UNCHANGED <<scan, curInstance>>
        /\ toSkip' = [toSkip EXCEPT ![t] = toSkip[t] \cup {Clone(curInstance[t])}]
        /\ pc' = pc \/ pc' = [pc EXCEPT ![t] = "grant"]
    BY <1>17 DEF BypassLivelock, scanVars
  <2>2. Clone(curInstance[t]).sig \in DOMAIN History
    BY <2>1 DEF ScanTypes, HasInstance, Clone
  <2>3. /\ toSkip' = [u \in Threads |-> toSkip'[u]]
        /\ \A u \in Threads : \A s \in toSkip'[u] : s.sig \in DOMAIN History
    BY <2>1, <2>2 DEF ScanTypes
  <2>4. ASSUME NEW u \in Threads PROVE HasInstance(u)'
    BY <2>1 DEF ScanTypes, HasInstance, StateInv, Shape
  <2> QED BY <2>1, <2>3, <2>4 DEF ScanTypes
<1>18. ASSUME NEW t \in Threads, NEW s, NEW i, SkipAvoidance(t, s, i) PROVE ScanTypes'
  <2>0. SkipStep(t)
    BY <1>18, SkipEffect
  <2> QED BY <2>0, ScanTypesStay DEF SkipStep, ScanTypes, StateInv, Shape
<1> QED
  BY <1>0, <1>1, <1>2, <1>3, <1>4, <1>5, <1>6, <1>7, <1>8, <1>9, <1>10, <1>11, <1>12, <1>13, <1>14, <1>15, <1>16, <1>17, <1>18 DEF Next, Step

TypeInv == ThreadTypes /\ LockTypes /\ GrantTypes /\ ScanTypes

LEMMA InitTypes == Init => TypeInv
<1> SUFFICES ASSUME Init PROVE TypeInv
  OBVIOUS
<1>1. ThreadTypes
  BY DEF Init, ThreadTypes, PCs
<1>2. LockTypes
  <2>1. \A l \in Locks : 0 \in 0..MaxDepth[l]
    BY DepthAssumption
  <2> QED BY <2>1 DEF Init, LockTypes
<1>3. GrantTypes
  BY DEF Init, GrantTypes, Unused
<1>4. ScanTypes
  BY DEF Init, ScanTypes, ScanOf, Instance, HasInstance
<1> QED BY <1>1, <1>2, <1>3, <1>4 DEF TypeInv

LEMMA TypesHold == StateInv /\ Exact /\ TypeInv => TypeOK
<1> SUFFICES ASSUME StateInv, Exact, TypeInv PROVE TypeOK
  OBVIOUS
<1>1. grant \in [LockGrants -> [lock : Locks \cup {NULL}, pos : Positions \cup {NULL}, n : 0..1]]
  <2>1. ASSUME NEW g \in LockGrants
        PROVE  grant[g] \in [lock : Locks \cup {NULL}, pos : Positions \cup {NULL}, n : 0..1]
    <3>1. grant[g] = [lock |-> grant[g].lock, pos |-> grant[g].pos, n |-> grant[g].n]
      BY DEF StateInv, Shape
    <3>2. /\ grant[g].lock \in Locks \cup {NULL} /\ grant[g].pos \in Positions \cup {NULL}
          /\ grant[g].n \in 0..1
      BY DEF TypeInv, GrantTypes, Exact, Recycled
    <3> QED BY <3>1, <3>2
  <2>2. grant = [g \in LockGrants |-> grant[g]]
    BY DEF StateInv, Shape
  <2> QED BY <2>1, <2>2
<1>2. \A t \in Threads : scan[t].seen \in Seq(Seq(LockGrants \cup {NULL}))
  BY DEF StateInv, Shape, Scans, Entries
<1>3. /\ acqGrants \in [Locks -> Seq(LockGrants)]
      /\ lockGrants \in [Positions -> Seq(LockGrants)]
      /\ removed \in [Threads -> Seq(LockGrants)]
      /\ curGrants \in [Threads -> Seq(LockGrants)]
  BY DEF StateInv, Shape
<1>4. writer \in [LockGrants -> BOOLEAN]
  BY DEF Exact, Writers
<1> QED
  BY <1>1, <1>2, <1>3, <1>4 DEF TypeInv, ThreadTypes, LockTypes, GrantTypes, ScanTypes, TypeOK

(* Every variable keeps its type; in particular LockNode::nlck never goes  *)
(* below 0, and an instance is there whenever a thread is to yield to it   *)
(* or the detector is to add it to instancesToSkip.                        *)
THEOREM TypeCorrect == Spec => []TypeOK
<1> DEFINE Inv == StateInv /\ Exact /\ Owned /\ TypeInv
<1>1. Init => Inv
  BY InitState, InitExact, InitOwned, InitTypes
<1>2. Inv /\ [Next]_vars => Inv'
  BY StateStep, ExactStep, OwnedStep, ThreadTypesStep, LockTypesStep, GrantTypesStep,
     ScanTypesStep DEF TypeInv
<1>3. Inv => TypeOK
  BY TypesHold
<1> HIDE DEF Inv
<1> QED BY <1>1, <1>2, <1>3, PTL DEF Spec
=============================================================================
