---------------------------- MODULE DalvikProofs -----------------------------
(***************************************************************************)
(* The Dalvik port, for any number of threads, monitors, positions and     *)
(* templates, over any number of restarts.                                 *)
(*                                                                         *)
(* First, whatever the cycle detection finds, as long as it only appends   *)
(* to the history: the grants are exact, no known template is ever         *)
(* occupied, a deadlock known at the start does not happen again, and no   *)
(* wake-up is lost.  Then, with what DalvikRagProofs shows of the search:  *)
(* every variable keeps its type, every deadlock of two threads is         *)
(* recorded, and the port implements Memory.                               *)
(***************************************************************************)
EXTENDS Dalvik, DalvikRagProofs

(* The lists of grantees *)

LEMMA AppendListed ==
  ASSUME NEW S, NEW s, s \in Seq(S), NEW e
  PROVE  Elements(Append(s, e)) = Elements(s) \cup {e} /\ Append(s, e) \in Seq(S \cup {e})
<1>1. s \in Seq(S \cup {e}) /\ e \in S \cup {e}
  BY SeqMonotonic
<1>2. /\ Append(s, e) \in Seq(S \cup {e})
      /\ Len(s) \in Nat /\ DOMAIN s = 1..Len(s)
      /\ DOMAIN Append(s, e) = 1..(Len(s) + 1)
      /\ \A i \in 1..Len(s) : Append(s, e)[i] = s[i]
      /\ Append(s, e)[Len(s) + 1] = e
  BY <1>1
<1> QED BY <1>2 DEF Elements

LEMMA MinNat ==
  ASSUME NEW S \in SUBSET Nat, S # {}
  PROVE  Min(S) \in S
<1>1. PICK R : R = OpToRel(<, Nat)
  OBVIOUS
<1>2. PICK m \in S : \A k \in S : ~ (<<k, m>> \in R)
  BY <1>1, NatLessThanWellFounded, WFMin
<1>3. R = {x \in Nat \X Nat : x[1] < x[2]}
  BY <1>1, Zenon DEF OpToRel
<1>4. \A k \in S : ~ (k < m)
  BY <1>2, <1>3
<1>5. \A k \in S : m <= k
  BY <1>4
<1> QED BY <1>5 DEF Min

(* s without its element at index i *)
Cut(s, i) == [j \in 1..(Len(s) - 1) |-> IF j < i THEN s[j] ELSE s[j + 1]]

LEMMA RemoveAtIsCut ==
  ASSUME NEW S, NEW s \in Seq(S), NEW i \in 1..Len(s)
  PROVE  RemoveAt(s, i) = Cut(s, i) /\ Cut(s, i) \in Seq(S)
<1> DEFINE a == SubSeq(s, 1, i - 1)
           b == SubSeq(s, i + 1, Len(s))
<1>1. Len(s) \in Nat /\ \A j \in 1..Len(s) : s[j] \in S
  OBVIOUS
<1>2. a \in Seq(S) /\ Len(a) = i - 1 /\ \A j \in 1..(i - 1) : a[j] = s[j]
  <2>1. \A j \in 1..(i - 1) : s[j] \in S
    BY <1>1
  <2>2. /\ a \in Seq(S)
        /\ Len(a) = IF 1 <= i - 1 THEN (i - 1) - 1 + 1 ELSE 0
        /\ \A j \in 1..((i - 1) - 1 + 1) : a[j] = s[1 + j - 1]
    BY <2>1, SubSeqProperties
  <2> HIDE DEF a
  <2> QED BY <2>2
<1>3. b \in Seq(S) /\ Len(b) = Len(s) - i /\ \A j \in 1..(Len(s) - i) : b[j] = s[i + j]
  <2>1. \A j \in (i + 1)..Len(s) : s[j] \in S
    BY <1>1
  <2>2. /\ b \in Seq(S)
        /\ Len(b) = IF i + 1 <= Len(s) THEN Len(s) - (i + 1) + 1 ELSE 0
        /\ \A j \in 1..(Len(s) - (i + 1) + 1) : b[j] = s[(i + 1) + j - 1]
    BY <1>1, <2>1, SubSeqProperties
  <2> HIDE DEF b
  <2>3. \A j \in 1..(Len(s) - i) : b[j] = s[i + j]
    <3> TAKE j \in 1..(Len(s) - i)
    <3>1. j \in 1..(Len(s) - (i + 1) + 1) /\ (i + 1) + j - 1 = i + j
      BY <1>1
    <3> QED BY <2>2, <3>1
  <2> QED BY <1>1, <2>2, <2>3
<1> HIDE DEF a, b
<1>4. /\ a \o b \in Seq(S) /\ Len(a \o b) = Len(s) - 1
      /\ \A j \in 1..(Len(s) - 1) : (a \o b)[j] = IF j <= i - 1 THEN a[j] ELSE b[j - (i - 1)]
  <2>1. /\ a \o b \in Seq(S) /\ Len(a \o b) = Len(a) + Len(b)
        /\ \A j \in 1..(Len(a) + Len(b)) :
             (a \o b)[j] = IF j <= Len(a) THEN a[j] ELSE b[j - Len(a)]
    BY <1>2, <1>3, ConcatProperties
  <2>2. Len(a) + Len(b) = Len(s) - 1
    BY <1>1, <1>2, <1>3
  <2> QED BY <1>2, <2>1, <2>2
<1>5. \A j \in 1..(Len(s) - 1) : (a \o b)[j] = Cut(s, i)[j]
  <2> TAKE j \in 1..(Len(s) - 1)
  <2>1. CASE j < i
    BY <1>1, <1>2, <1>4, <2>1 DEF Cut
  <2>2. CASE ~ (j < i)
    <3>1. j - (i - 1) \in 1..(Len(s) - i) /\ i + (j - (i - 1)) = j + 1
      BY <1>1, <2>2
    <3>2. b[j - (i - 1)] = s[j + 1]
      BY <1>3, <3>1
    <3> QED BY <1>1, <1>4, <2>2, <3>2 DEF Cut
  <2> QED BY <2>1, <2>2
<1>6. Cut(s, i) \in [1..(Len(s) - 1) -> S]
  BY <1>1 DEF Cut
<1>7. Cut(s, i) \in Seq(S) /\ Len(Cut(s, i)) = Len(s) - 1
  BY <1>1, <1>6
<1>8. a \o b = Cut(s, i)
  BY <1>4, <1>5, <1>7, SeqEqual
<1> QED BY <1>7, <1>8 DEF RemoveAt, a, b

LEMMA RemoveFirstIsCut ==
  ASSUME NEW S, NEW s \in Seq(S), NEW e \in Elements(s)
  PROVE  \E i \in 1..Len(s) : s[i] = e /\ RemoveFirst(s, e) = Cut(s, i) /\ Cut(s, i) \in Seq(S)
<1> DEFINE I == {i \in 1..Len(s) : s[i] = e}
<1>1. I # {} /\ I \in SUBSET Nat
  BY DEF Elements
<1>2. Min(I) \in I
  BY <1>1, MinNat
<1>3. RemoveFirst(s, e) = RemoveAt(s, Min(I))
  BY <1>1 DEF RemoveFirst, SelectInSeq
<1> QED BY <1>2, <1>3, RemoveAtIsCut

(* How often a thread is in a list *)
Places(s, t) == {i \in DOMAIN s : s[i] = t}
Count(s, t) == Cardinality(Places(s, t))

LEMMA PlacesFinite ==
  ASSUME NEW S, NEW s \in Seq(S), NEW t
  PROVE  IsFiniteSet(Places(s, t)) /\ Count(s, t) \in Nat
<1>1. Places(s, t) \in SUBSET (1..Len(s)) /\ Len(s) \in Nat
  BY DEF Places
<1>2. IsFiniteSet(1..Len(s))
  BY <1>1, FS_Interval
<1>3. IsFiniteSet(Places(s, t))
  BY <1>1, <1>2, FS_Subset
<1> QED BY <1>3, FS_CardinalityType DEF Count

LEMMA CountEmpty == \A t : Count(<<>>, t) = 0
  BY FS_EmptySet DEF Count, Places

LEMMA CountAppend ==
  ASSUME NEW S, NEW s \in Seq(S), NEW e
  PROVE  \A t : Count(Append(s, e), t) = Count(s, t) + (IF t = e THEN 1 ELSE 0)
<1> TAKE t
<1>1. IsFiniteSet(Places(s, t)) /\ Count(s, t) \in Nat
  BY PlacesFinite
<1>2. /\ Len(s) \in Nat /\ DOMAIN s = 1..Len(s)
      /\ DOMAIN Append(s, e) = 1..(Len(s) + 1)
      /\ \A i \in 1..Len(s) : Append(s, e)[i] = s[i]
      /\ Append(s, e)[Len(s) + 1] = e
  BY AppendElements
<1>3. CASE t = e
  <2>1. Places(Append(s, e), t) = Places(s, t) \cup {Len(s) + 1} /\ Len(s) + 1 \notin Places(s, t)
    BY <1>2, <1>3 DEF Places
  <2> QED BY <1>1, <1>3, <2>1, FS_AddElement DEF Count
<1>4. CASE t # e
  <2>1. Places(Append(s, e), t) = Places(s, t)
    BY <1>2, <1>4 DEF Places
  <2> QED BY <1>1, <1>4, <2>1 DEF Count
<1> QED BY <1>3, <1>4

LEMMA CountCut ==
  ASSUME NEW S, NEW s \in Seq(S), NEW i \in 1..Len(s), NEW t
  PROVE  Count(Cut(s, i), t) = Count(s, t) - (IF t = s[i] THEN 1 ELSE 0)
<1> DEFINE A == Places(s, t) \ {i}
           B == Places(Cut(s, i), t)
           f == [j \in A |-> IF j < i THEN j ELSE j - 1]
<1>1. /\ Len(s) \in Nat /\ DOMAIN s = 1..Len(s)
      /\ DOMAIN Cut(s, i) = 1..(Len(s) - 1)
      /\ \A j \in 1..(Len(s) - 1) : Cut(s, i)[j] = IF j < i THEN s[j] ELSE s[j + 1]
  BY DEF Cut
<1>2. IsFiniteSet(Places(s, t)) /\ Count(s, t) \in Nat
  BY PlacesFinite
<1>3. \A j \in A : j \in 1..Len(s) /\ j # i /\ s[j] = t
  BY <1>1 DEF Places
<1>4. f \in [A -> B]
  <2> SUFFICES ASSUME NEW j \in A PROVE f[j] \in B
    OBVIOUS
  <2>1. CASE j < i
    BY <1>1, <1>3, <2>1 DEF Places
  <2>2. CASE ~ (j < i)
    <3>1. j - 1 \in 1..(Len(s) - 1) /\ ~ (j - 1 < i) /\ (j - 1) + 1 = j
      BY <1>1, <1>3, <2>2
    <3> QED BY <1>1, <1>3, <2>2, <3>1 DEF Places
  <2> QED BY <2>1, <2>2
<1>5. \A j, k \in A : f[j] = f[k] => j = k
  BY <1>1, <1>3
<1>6. ASSUME NEW k \in B PROVE \E j \in A : f[j] = k
  <2>1. k \in 1..(Len(s) - 1) /\ Cut(s, i)[k] = t
    BY <1>1 DEF Places
  <2>2. CASE k < i
    <3>1. k \in A
      BY <1>1, <2>1, <2>2 DEF Places
    <3> QED BY <2>2, <3>1
  <2>3. CASE ~ (k < i)
    <3>1. k + 1 \in A /\ ~ (k + 1 < i) /\ (k + 1) - 1 = k
      BY <1>1, <2>1, <2>3 DEF Places
    <3> QED BY <3>1
  <2> QED BY <2>2, <2>3
<1> HIDE DEF A, B, f
<1>7. f \in Bijection(A, B)
  BY <1>4, <1>5, <1>6 DEF Bijection, Injection, Surjection, IsInjective
<1>8. IsFiniteSet(A) /\ Cardinality(A) = IF i \in Places(s, t) THEN Count(s, t) - 1 ELSE Count(s, t)
  BY <1>2, FS_RemoveElement DEF A, Count
<1>9. Cardinality(B) = Cardinality(A)
  BY <1>7, <1>8, FS_Bijection DEF ExistsBijection
<1>10. i \in Places(s, t) <=> t = s[i]
  BY <1>1 DEF Places
<1> QED BY <1>2, <1>8, <1>9, <1>10 DEF B, Count

(* A thread whose grant is taken back has one less, the others as many. *)
LEMMA RemoveFirstFacts ==
  ASSUME NEW S, NEW s \in Seq(S), NEW e
  PROVE  /\ RemoveFirst(s, e) \in Seq(S)
         /\ Elements(RemoveFirst(s, e)) \subseteq Elements(s)
         /\ \A t : Count(RemoveFirst(s, e), t)
                    = Count(s, t) - (IF t = e /\ e \in Elements(s) THEN 1 ELSE 0)
<1>1. CASE e \notin Elements(s)
  <2>1. RemoveFirst(s, e) = s
    BY <1>1 DEF RemoveFirst, Elements
  <2>2. \A t : Count(s, t) \in Nat
    BY PlacesFinite
  <2> QED BY <1>1, <2>1, <2>2
<1>2. CASE e \in Elements(s)
  <2>1. PICK i \in 1..Len(s) : s[i] = e /\ RemoveFirst(s, e) = Cut(s, i) /\ Cut(s, i) \in Seq(S)
    BY <1>2, RemoveFirstIsCut
  <2>2. Elements(Cut(s, i)) \subseteq Elements(s)
    BY DEF Cut, Elements
  <2>3. \A t : Count(Cut(s, i), t) = Count(s, t) - (IF t = s[i] THEN 1 ELSE 0)
    BY CountCut
  <2> QED BY <1>2, <2>1, <2>2, <2>3
<1> QED BY <1>1, <1>2

LEMMA CountedIsListed ==
  ASSUME NEW S, NEW s \in Seq(S), NEW t
  PROVE  t \in Elements(s) <=> Count(s, t) > 0
<1>1. IsFiniteSet(Places(s, t)) /\ Count(s, t) \in Nat
  BY PlacesFinite
<1>2. Count(s, t) = 0 <=> Places(s, t) = {}
  BY <1>1, FS_EmptySet DEF Count
<1>3. t \in Elements(s) <=> Places(s, t) # {}
  BY DEF Elements, Places
<1> QED BY <1>1, <1>2, <1>3

(* Asking and giving up again changes nothing. *)
LEMMA AskAndUngrant ==
  ASSUME NEW S, NEW s \in Seq(S), NEW e \in S
  PROVE  LET r == RemoveFirst(Append(s, e), e) IN
         /\ r \in Seq(S)
         /\ \A t : Count(r, t) = Count(s, t)
         /\ Elements(r) = Elements(s)
<1> DEFINE a == Append(s, e)
           r == RemoveFirst(a, e)
<1>1. a \in Seq(S) /\ e \in Elements(a)
  BY AppendElements
<1>2. \A t : Count(a, t) = Count(s, t) + (IF t = e THEN 1 ELSE 0)
  BY CountAppend
<1> HIDE DEF a
<1>3. r \in Seq(S) /\ \A t : Count(r, t) = Count(a, t) - (IF t = e THEN 1 ELSE 0)
  BY <1>1, RemoveFirstFacts
<1> HIDE DEF r
<1>4. \A t : Count(r, t) = Count(s, t)
  <2> TAKE t
  <2>1. Count(s, t) \in Nat
    BY PlacesFinite
  <2>2. CASE t = e
    BY <1>2, <1>3, <2>1, <2>2
  <2>3. CASE t # e
    BY <1>2, <1>3, <2>1, <2>3
  <2> QED BY <2>2, <2>3
<1>5. ASSUME NEW t PROVE t \in Elements(r) <=> t \in Elements(s)
  BY <1>3, <1>4, CountedIsListed
<1> QED BY <1>3, <1>4, <1>5 DEF a, r

(* Instances of templates, by threads instead of by indices *)

Occupants(T, g) ==
  {f \in [DOMAIN T -> Threads] :
     /\ \A i \in DOMAIN T : T[i] \in Positions /\ f[i] \in Elements(g[T[i]])
     /\ \A i, j \in DOMAIN T : f[i] = f[j] => i = j}

Lists == [Positions -> Seq(Threads)]

LEMMA InstanceIs ==
  ASSUME NEW T, NEW g \in Lists
  PROVE  Instance(T, g) <=> Occupants(T, g) # {}
<1> DEFINE longest == UNION {DOMAIN g[T[i]] : i \in {i \in DOMAIN T : T[i] \in Positions}}
<1>1. ASSUME NEW h \in Picks(T, g) PROVE Occupants(T, g) # {}
  <2>1. /\ \A i \in DOMAIN T : T[i] \in Positions /\ h[i] \in DOMAIN g[T[i]]
        /\ \A i, j \in DOMAIN T : g[T[i]][h[i]] = g[T[j]][h[j]] => i = j
    BY DEF Picks
  <2> DEFINE f == [i \in DOMAIN T |-> g[T[i]][h[i]]]
  <2>2. \A i \in DOMAIN T : g[T[i]] \in Seq(Threads)
    BY <2>1 DEF Lists
  <2>3. \A i \in DOMAIN T : f[i] \in Threads /\ f[i] \in Elements(g[T[i]])
    BY <2>1, <2>2 DEF Elements
  <2>4. f \in Occupants(T, g)
    BY <2>1, <2>3 DEF Occupants
  <2> QED BY <2>4
<1>2. ASSUME NEW f \in Occupants(T, g) PROVE Picks(T, g) # {}
  <2>1. /\ \A i \in DOMAIN T : T[i] \in Positions /\ f[i] \in Elements(g[T[i]])
        /\ \A i, j \in DOMAIN T : f[i] = f[j] => i = j
    BY DEF Occupants
  <2> DEFINE h == [i \in DOMAIN T |-> CHOOSE j \in DOMAIN g[T[i]] : g[T[i]][j] = f[i]]
  <2>2. \A i \in DOMAIN T : h[i] \in DOMAIN g[T[i]] /\ g[T[i]][h[i]] = f[i]
    BY <2>1 DEF Elements
  <2>3. h \in [DOMAIN T -> longest]
    <3>1. ASSUME NEW i \in DOMAIN T PROVE h[i] \in longest
      <4>1. DOMAIN g[T[i]] \in {DOMAIN g[T[j]] : j \in {j \in DOMAIN T : T[j] \in Positions}}
        BY <2>1
      <4> QED BY <2>2, <4>1
    <3> HIDE DEF longest
    <3> QED BY <3>1
  <2> HIDE DEF h
  <2>4. h \in Picks(T, g)
    BY <2>1, <2>2, <2>3 DEF Picks
  <2> QED BY <2>4
<1> QED BY <1>1, <1>2 DEF Instance

(* More grants have at least the instances fewer have. *)
LEMMA InstanceStays ==
  ASSUME NEW T, NEW g \in Lists, NEW h \in Lists,
         \A i \in DOMAIN T : T[i] \in Positions => Elements(g[T[i]]) \subseteq Elements(h[T[i]]),
         Instance(T, g)
  PROVE  Instance(T, h)
<1>1. PICK f : f \in Occupants(T, g)
  BY InstanceIs
<1>2. f \in Occupants(T, h)
  BY <1>1 DEF Occupants
<1> QED BY <1>2, InstanceIs

-----------------------------------------------------------------------------
(* The invariant *)

Args == [mon : Monitors \cup {NULL}, pos : Positions \cup {NULL}, depth : Nat]

Shape ==
  /\ pc \in [Threads -> PCs]
  /\ arg \in [Threads -> Args]
  /\ holder \in [Monitors -> Threads \cup {NULL}]
  /\ lockCount \in [Monitors -> Nat]
  /\ next \in [Nodes -> Nodes \cup {NULL}]
  /\ acqPos \in [Monitors -> Positions \cup {NULL}]
  /\ grantees \in Lists
  /\ history \in Seq(Elements(history))
  /\ loaded \in 0..Len(history)
  /\ waitsOn \in [Threads -> Nat]

(* What a thread that has started an operation is about. *)
OpOK(t) ==
  /\ pc[t] # "idle" => arg[t].mon \in Monitors
  /\ pc[t] \in {"entered", "leaving", "waitleaving"} =>
       holder[arg[t].mon] = t /\ next[arg[t].mon] = NULL
  /\ pc[t] \in {"asleep", "woken"} => arg[t].pos \in Positions
  /\ pc[t] \in {"waitleaving", "waiting"} => arg[t].pos = NULL

(* Node::owner and Node::acqPos come and go together, and never name a     *)
(* thread that is not in the monitor.                                      *)
MonOK(m) ==
  /\ acqPos[m] = NULL <=> next[m] = NULL
  /\ next[m] # NULL => next[m] = holder[m]

(* Nothing happens before the history is read. *)
Loading ==
  unread # <<>> =>
    /\ loaded = Len(history)
    /\ \A t \in Threads : pc[t] = "idle"
    /\ \A m \in Monitors : holder[m] = NULL
    /\ \A p \in Positions : grantees[p] = <<>>

(* The positions of a known template are known to be in one. *)
KnownInHist == \A k \in 1..loaded : Elements(history[k]) \subseteq inHist \cup {NULL}

(* A thread that sleeps has been seen to complete what it sleeps on. *)
Waiting ==
  \A t \in Threads : pc[t] = "asleep" =>
    /\ waitsOn[t] \in 1..Len(history)
    /\ Instance(history[waitsOn[t]], [grantees EXCEPT ![arg[t].pos] = Append(@, t)])

(* The monitors t is in that it entered at p, and the one it is entering *)
In(t, p) == {m \in Monitors : next[m] = t /\ acqPos[m] = p}
Entering(t, p) == IF pc[t] \in {"entering", "entered"} /\ arg[t].pos = p THEN 1 ELSE 0
Due(t, p) == IF p \notin inHist THEN 0 ELSE Cardinality(In(t, p)) + Entering(t, p)

Counts == \A t \in Threads, p \in Positions : Count(grantees[p], t) = Due(t, p)

Ops  == \A t \in Threads : OpOK(t)
Mons == \A m \in Monitors : MonOK(m)

Inv == Shape /\ Ops /\ Mons /\ Loading /\ KnownInHist /\ NoOccupation /\ Waiting /\ Counts

LEMMA InFinite == \A t, p : IsFiniteSet(In(t, p)) /\ Cardinality(In(t, p)) \in Nat
<1> TAKE t, p
<1>1. In(t, p) \in SUBSET Monitors
  BY DEF In
<1> QED BY <1>1, NodesAssumption, FS_Subset, FS_CardinalityType

(* What a start sets, whatever the file holds. *)
Fresh ==
  /\ pc = [t \in Threads |-> "idle"]
  /\ arg = [t \in Threads |-> NoArg]
  /\ holder = [m \in Monitors |-> NULL]
  /\ lockCount = [m \in Monitors |-> 0]
  /\ next = [n \in Nodes |-> NULL]
  /\ acqPos = [m \in Monitors |-> NULL]
  /\ grantees = [p \in Positions |-> <<>>]
  /\ history = <<>> /\ loaded = 0 /\ inHist = {}
  /\ waitsOn = [t \in Threads |-> 0]

LEMMA FreshInv == Fresh => Inv
<1> SUFFICES ASSUME Fresh PROVE Inv
  OBVIOUS
<1> USE NodeFacts DEF Fresh
<1>1. Shape
  <2>1. NoArg \in Args
    BY DEF NoArg, Args
  <2>2. grantees \in Lists
    BY DEF Lists
  <2>3. history \in Seq(Elements(history)) /\ Len(history) = 0
    OBVIOUS
  <2> QED BY <2>1, <2>2, <2>3 DEF Shape, PCs
<1>2. Ops /\ Mons
  BY DEF Ops, OpOK, Mons, MonOK
<1>3. Loading /\ KnownInHist /\ NoOccupation /\ Waiting
  BY DEF Loading, KnownInHist, NoOccupation, Waiting
<1>4. ASSUME NEW t \in Threads, NEW p \in Positions PROVE Count(grantees[p], t) = Due(t, p)
  BY CountEmpty DEF Due
<1> QED BY <1>1, <1>2, <1>3, <1>4 DEF Inv, Counts

LEMMA RestartInv == Restart => Inv'
<1>1. Restart => Fresh'
  BY DEF Restart, Fresh
<1>2. Fresh' => Inv'
  BY FreshInv, PTL
<1> QED BY <1>1, <1>2

-----------------------------------------------------------------------------
(* The history only grows. *)

Grows(h, g) == g = h \/ \E T : g = Append(h, T)

LEMMA GrowsKeeps ==
  ASSUME NEW h, h \in Seq(Elements(h)), NEW g, Grows(h, g)
  PROVE  /\ g \in Seq(Elements(g))
         /\ Len(g) \in Nat /\ Len(h) \in Nat /\ Len(h) <= Len(g)
         /\ DOMAIN g = 1..Len(g) /\ DOMAIN h = 1..Len(h)
         /\ \A k \in 1..Len(h) : g[k] = h[k]
<1>1. CASE g = h
  BY <1>1
<1>2. CASE \E T : g = Append(h, T)
  <2>1. PICK T : g = Append(h, T)
    BY <1>2
  <2>0. /\ Elements(Append(h, T)) = Elements(h) \cup {T}
        /\ Append(h, T) \in Seq(Elements(h) \cup {T})
    <3>1. PICK S : S = Elements(h)
      OBVIOUS
    <3>2. h \in Seq(S)
      BY <3>1
    <3>3. Elements(Append(h, T)) = Elements(h) \cup {T} /\ Append(h, T) \in Seq(S \cup {T})
      BY <3>2, AppendListed
    <3> QED BY <3>1, <3>3
  <2>2. Elements(g) = Elements(h) \cup {T} /\ g \in Seq(Elements(h) \cup {T})
    BY <2>0, <2>1
  <2>3. /\ Len(h) \in Nat /\ DOMAIN h = 1..Len(h) /\ DOMAIN g = 1..(Len(h) + 1)
        /\ \A k \in 1..Len(h) : g[k] = h[k]
    BY <2>1, AppendElements
  <2>4. DOMAIN g = 1..Len(g) /\ Len(g) \in Nat
    BY <2>2
  <2>5. Len(h) <= Len(g)
    BY <2>3, <2>4
  <2> QED BY <2>2, <2>3, <2>4, <2>5
<1> QED BY <1>1, <1>2 DEF Grows

LEMMA CheckedGrows ==
  ASSUME NEW h, NEW f, NEW u, NEW b, NEW G, NEW t, NEW o
  PROVE  Grows(h, Checked([history |-> h, file |-> f, unsaved |-> u, found |-> b], G, t, o).history)
BY DEF Checked, Grows

(* Grows twice is at most two more; all that is used of it is this. *)
Extends(h, g) ==
  /\ g \in Seq(Elements(g))
  /\ Len(g) \in Nat /\ Len(h) \in Nat /\ Len(h) <= Len(g)
  /\ DOMAIN g = 1..Len(g) /\ DOMAIN h = 1..Len(h)
  /\ \A k \in 1..Len(h) : g[k] = h[k]

LEMMA ExtendsTransitive ==
  ASSUME NEW f, NEW g, NEW h, Extends(f, g), Extends(g, h)
  PROVE  Extends(f, h)
<1>1. 1..Len(f) \subseteq 1..Len(g)
  BY DEF Extends
<1> QED BY <1>1 DEF Extends

LEMMA GrowsExtends ==
  ASSUME NEW h, h \in Seq(Elements(h)), NEW g, Grows(h, g)
  PROVE  Extends(h, g)
BY GrowsKeeps DEF Extends

-----------------------------------------------------------------------------
(* What a request does *)

Asked(t, p) == [grantees EXCEPT ![p] = Append(@, t)]

(* A thread that goes ahead without a grant, with one, or has to wait. *)
Unasked(t, p) ==
  /\ p \notin inHist
  /\ pc' = [pc EXCEPT ![t] = "entering"]
  /\ UNCHANGED <<grantees, waitsOn>>
Granted(t, p) ==
  /\ p \in inHist
  /\ \A k \in DOMAIN history : Has(history[k], p) => ~Instance(history[k], Asked(t, p))
  /\ grantees' = Asked(t, p)
  /\ pc' = [pc EXCEPT ![t] = "entering"]
  /\ UNCHANGED waitsOn
Yielding(t, p) ==
  /\ grantees' = Ungrant(Asked(t, p), p, t)
  /\ pc' = [pc EXCEPT ![t] = "asleep"]
  /\ \E k \in DOMAIN history' :
       waitsOn' = [waitsOn EXCEPT ![t] = k] /\ Instance(history'[k], Asked(t, p))

LEMMA RequestEffect ==
  ASSUME history \in Seq(Elements(history)),
         NEW t, NEW m, NEW p, NEW first \in BOOLEAN, NEW o1, NEW o2,
         Request(t, m, p, first, o1, o2)
  PROVE  /\ UNCHANGED <<holder, lockCount, acqPos, inHist, loaded, unread>>
         /\ next' = [next EXCEPT ![t] = m] \/ next' = next
         /\ Extends(history, history')
         /\ Unasked(t, p) \/ Granted(t, p) \/ Yielding(t, p)
<1> DEFINE next1  == IF first THEN [next EXCEPT ![t] = m] ELSE next
           Graph(y) == [next |-> next1, acqPos |-> acqPos, yields |-> y]
           M0     == [history |-> history, file |-> file, unsaved |-> unsaved, found |-> found]
           M1     == IF first THEN Checked(M0, Graph(yields), t, o1) ELSE M0
           M2     == Checked(M1, Graph(yields'), t, o2)
<1>1. M1 = [history |-> M1.history, file |-> M1.file, unsaved |-> M1.unsaved, found |-> M1.found]
  BY DEF Checked
<1>2. Extends(history, M1.history)
  <2>1. CASE first
    <3>1. Grows(history, Checked(M0, Graph(yields), t, o1).history)
      BY CheckedGrows
    <3> QED BY <2>1, <3>1, GrowsExtends
  <2>2. CASE ~first
    BY <2>2, GrowsExtends DEF Grows
  <2> QED BY <2>1, <2>2
<1>3. Extends(M1.history, M2.history)
  <2>1. Grows(M1.history, M2.history)
    BY <1>1, CheckedGrows
  <2> QED BY <1>2, <2>1, GrowsExtends DEF Extends
<1>4. Extends(history, M2.history)
  BY <1>2, <1>3, ExtendsTransitive
<1> DEFINE ks == Matching(M1.history, Asked(t, p), p)
<1> HIDE DEF M1, M2, Graph, next1
<1>5. /\ next' = next1
      /\ \/ /\ p \notin inHist
            /\ Keep(M1)
            /\ Goto(t, "entering")
            /\ UNCHANGED <<grantees, yields, waitsOn>>
         \/ /\ p \in inHist /\ ks = {}
            /\ Keep(M1)
            /\ grantees' = Asked(t, p)
            /\ Goto(t, "entering")
            /\ UNCHANGED waitsOn
         \/ \E k \in ks :
            /\ grantees' = Ungrant(Asked(t, p), p, t)
            /\ Keep(M2)
            /\ waitsOn' = [waitsOn EXCEPT ![t] = k]
            /\ Goto(t, "asleep")
      /\ UNCHANGED <<monVars, acqPos, inHist, loaded, unread>>
  BY DEF Request, M1, M2, Graph, next1, Asked
<1>6. next' = [next EXCEPT ![t] = m] \/ next' = next
  BY <1>5 DEF next1
<1>7. CASE p \notin inHist /\ Keep(M1) /\ Goto(t, "entering") /\ UNCHANGED <<grantees, yields, waitsOn>>
  BY <1>2, <1>5, <1>6, <1>7 DEF Keep, Goto, Unasked, monVars
<1>8. CASE /\ p \in inHist /\ ks = {}
           /\ Keep(M1)
           /\ grantees' = Asked(t, p)
           /\ Goto(t, "entering")
           /\ UNCHANGED waitsOn
  <2>1. \A k \in DOMAIN M1.history :
          Has(M1.history[k], p) => ~Instance(M1.history[k], Asked(t, p))
    BY <1>8 DEF Matching
  <2>2. \A k \in DOMAIN history : k \in DOMAIN M1.history /\ M1.history[k] = history[k]
    BY <1>2 DEF Extends
  <2>3. Granted(t, p)
    BY <1>8, <2>1, <2>2 DEF Granted, Goto
  <2> QED BY <1>2, <1>5, <1>6, <1>8, <2>3 DEF Keep, monVars
<1>9. CASE \E k \in ks :
            /\ grantees' = Ungrant(Asked(t, p), p, t)
            /\ Keep(M2)
            /\ waitsOn' = [waitsOn EXCEPT ![t] = k]
            /\ Goto(t, "asleep")
  <2>1. PICK k \in ks :
            /\ grantees' = Ungrant(Asked(t, p), p, t)
            /\ Keep(M2)
            /\ waitsOn' = [waitsOn EXCEPT ![t] = k]
            /\ Goto(t, "asleep")
    BY <1>9
  <2>2. k \in DOMAIN M1.history /\ Instance(M1.history[k], Asked(t, p))
    BY DEF Matching
  <2>3. history' = M2.history
    BY <2>1 DEF Keep
  <2>4. k \in DOMAIN history' /\ history'[k] = M1.history[k]
    BY <1>3, <2>2, <2>3 DEF Extends
  <2>5. Yielding(t, p)
    BY <2>1, <2>2, <2>4 DEF Yielding, Goto
  <2> QED BY <1>4, <1>5, <1>6, <2>3, <2>5 DEF monVars
<1> QED BY <1>5, <1>7, <1>8, <1>9

-----------------------------------------------------------------------------
(* The actions, by what they do to the invariant *)

(* Steps that leave the requests and grants alone *)
Local(t) ==
  /\ UNCHANGED <<next, acqPos, yields, grantees, inHist, history, loaded, unread, file, unsaved, found>>
  /\ \A u \in Threads \ {t} : pc'[u] = pc[u] /\ arg'[u] = arg[u] /\ waitsOn'[u] = waitsOn[u]
  /\ pc'[t] # "asleep"
  /\ \A p \in Positions : Entering(t, p)' = Entering(t, p)

(* Thread t asks for m at p, for the first time or again. *)
Asks(t, m, p) ==
  /\ pc[t] \in {"idle", "woken"}
  /\ arg' \in [Threads -> Args] /\ arg'[t].mon = m /\ arg'[t].pos = p
  /\ \A u \in Threads \ {t} : arg'[u] = arg[u]
  /\ UNCHANGED <<holder, lockCount, acqPos, inHist, loaded, unread>>
  /\ next' \in [Nodes -> Nodes \cup {NULL}] /\ \A n \in Monitors : next'[n] = next[n]
  /\ Extends(history, history')
  /\ Unasked(t, p) \/ Granted(t, p) \/ Yielding(t, p)

(* Thread t gives m up. *)
Leaves(t, m) ==
  /\ pc[t] = "idle"
  /\ holder[m] = t
  /\ arg' \in [Threads -> Args] /\ arg'[t].mon = m
  /\ \A u \in Threads \ {t} : arg'[u] = arg[u]
  /\ lockCount' \in [Monitors -> Nat]
  /\ \E l \in {"leaving", "waitleaving"} :
       BeforeUnlock(t, m, l) /\ (l = "waitleaving" => arg'[t].pos = NULL)

Inside(t, m) ==
  \/ Reenter(t, m) \/ EnterFiltered(t, m) \/ ExitNested(t, m)
Alone(t) == RealLock(t) \/ RealUnlock(t) \/ WaitEnds(t) \/ SpuriousWakeup(t)

LEMMA InsideIsLocal ==
  ASSUME Inv, NEW t \in Threads, NEW m \in Monitors, Inside(t, m)
  PROVE  Local(t) /\ Shape' /\ Ops' /\ Mons'
<1> USE NodeFacts DEF Inv, Shape
<1>1. CASE Reenter(t, m)
  BY <1>1 DEF Reenter, ragVars, histVars, Local, Entering, Ops, OpOK, Mons, MonOK
<1>2. CASE ExitNested(t, m)
  BY <1>2 DEF ExitNested, ragVars, histVars, Local, Entering, Ops, OpOK, Mons, MonOK
<1>3. CASE EnterFiltered(t, m)
  <2>1. [NoArg EXCEPT !.mon = m] \in Args /\ [NoArg EXCEPT !.mon = m].pos = NULL
        /\ [NoArg EXCEPT !.mon = m].mon = m
    BY DEF NoArg, Args
  <2>2. /\ pc[t] = "idle"
        /\ arg' = [arg EXCEPT ![t] = [NoArg EXCEPT !.mon = m]]
        /\ pc' = [pc EXCEPT ![t] = "entering"]
        /\ UNCHANGED <<holder, lockCount, next, acqPos, grantees, inHist, history, loaded, unread, yields, file, unsaved, found, waitsOn>>
    BY <1>3 DEF EnterFiltered, MayEnter, Goto, monVars, ragVars, histVars
  <2>3. Shape'
    BY <2>1, <2>2 DEF PCs
  <2>4. Local(t)
    BY <2>1, <2>2 DEF Local, Entering
  <2>5. Ops' /\ Mons'
    BY <2>1, <2>2 DEF Ops, OpOK, Mons, MonOK
  <2> QED BY <2>3, <2>4, <2>5
<1> QED BY <1>1, <1>2, <1>3 DEF Inside

LEMMA AloneIsLocal ==
  ASSUME Inv, NEW t \in Threads, Alone(t)
  PROVE  Local(t) /\ Shape' /\ Ops' /\ Mons'
<1> USE NodeFacts DEF Inv, Shape
<1>1. OpOK(t) /\ \A u \in Threads : OpOK(u)
  BY DEF Ops
<1>2. \A m \in Monitors : MonOK(m)
  BY DEF Mons
<1>3. CASE SpuriousWakeup(t)
  <2>1. /\ pc[t] = "asleep"
        /\ pc' = [pc EXCEPT ![t] = "woken"]
        /\ waitsOn' = [waitsOn EXCEPT ![t] = 0]
        /\ UNCHANGED <<arg, holder, lockCount, next, acqPos, grantees, inHist, history, loaded, unread, yields, file, unsaved, found>>
    BY <1>3 DEF SpuriousWakeup, Goto, monVars, ragVars, histVars
  <2>2. Shape'
    BY <2>1 DEF PCs
  <2>3. Local(t)
    BY <2>1 DEF Local, Entering
  <2>4. Ops' /\ Mons'
    BY <1>1, <1>2, <2>1 DEF Ops, OpOK, Mons, MonOK
  <2> QED BY <2>2, <2>3, <2>4
<1>4. CASE WaitEnds(t)
  <2>1. /\ pc[t] = "waiting"
        /\ pc' = [pc EXCEPT ![t] = "entering"]
        /\ UNCHANGED <<arg, holder, lockCount, next, acqPos, grantees, inHist, history, loaded, unread, yields, file, unsaved, found, waitsOn>>
    BY <1>4 DEF WaitEnds, Goto, monVars, ragVars, histVars
  <2>2. Shape'
    BY <2>1 DEF PCs
  <2>3. Local(t)
    BY <1>1, <2>1 DEF Local, Entering, OpOK
  <2>4. Ops' /\ Mons'
    BY <1>1, <1>2, <2>1 DEF Ops, OpOK, Mons, MonOK
  <2> QED BY <2>2, <2>3, <2>4
<1>5. CASE RealLock(t)
  <2> DEFINE m == arg[t].mon
  <2>1. /\ pc[t] = "entering"
        /\ holder[m] = NULL
        /\ holder' = [holder EXCEPT ![m] = t]
        /\ pc' = [pc EXCEPT ![t] = "entered"]
        /\ UNCHANGED <<arg, lockCount, next, acqPos, grantees, inHist, history, loaded, unread, yields, file, unsaved, found, waitsOn>>
    BY <1>5 DEF RealLock, Goto, monVars, ragVars, histVars
  <2>2. m \in Monitors
    BY <1>1, <2>1 DEF OpOK
  <2> HIDE DEF m
  <2>3. next[m] = NULL
    BY <1>2, <2>1, <2>2 DEF MonOK
  <2>4. Shape'
    BY <2>1 DEF PCs
  <2>5. Local(t)
    BY <2>1 DEF Local, Entering
  <2>6. Mons'
    BY <1>2, <2>1, <2>3 DEF Mons, MonOK
  <2>7. ASSUME NEW u \in Threads PROVE OpOK(u)'
    BY <1>1, <2>1, <2>2, <2>3 DEF OpOK, m
  <2> QED BY <2>4, <2>5, <2>6, <2>7 DEF Ops
<1>6. CASE RealUnlock(t)
  <2> DEFINE m == arg[t].mon
  <2>1. /\ pc[t] \in {"leaving", "waitleaving"}
        /\ holder' = [holder EXCEPT ![m] = NULL]
        /\ UNCHANGED <<lockCount, next, acqPos, grantees, inHist, history, loaded, unread, yields, file, unsaved, found, waitsOn>>
        /\ \/ pc[t] = "leaving" /\ pc' = [pc EXCEPT ![t] = "idle"]
              /\ arg' = [arg EXCEPT ![t] = NoArg]
           \/ pc[t] = "waitleaving" /\ pc' = [pc EXCEPT ![t] = "waiting"] /\ arg' = arg
    BY <1>6 DEF RealUnlock, Goto, Return, monVars, ragVars, histVars
  <2>2. m \in Monitors /\ holder[m] = t /\ next[m] = NULL
    BY <1>1, <2>1 DEF OpOK
  <2> HIDE DEF m
  <2>3. NoArg \in Args
    BY DEF NoArg, Args
  <2>8. pc' \in [Threads -> PCs] /\ arg' \in [Threads -> Args]
    <3>1. pc \in [Threads -> PCs] /\ arg \in [Threads -> Args]
      OBVIOUS
    <3>2. CASE pc' = [pc EXCEPT ![t] = "idle"] /\ arg' = [arg EXCEPT ![t] = NoArg]
      <4>1. \A a : a = [arg EXCEPT ![t] = NoArg] => a \in [Threads -> Args]
        BY ONLY <2>3, <3>1
      <4>2. pc' \in [Threads -> PCs]
        BY ONLY <3>1, <3>2 DEF PCs
      <4> QED BY <3>2, <4>1, <4>2
    <3>3. CASE pc' = [pc EXCEPT ![t] = "waiting"] /\ arg' = arg
      <4>1. pc' \in [Threads -> PCs]
        BY ONLY <3>1, <3>3 DEF PCs
      <4> QED BY ONLY <3>1, <3>3, <4>1
    <3> QED BY <2>1, <3>2, <3>3
  <2>4. Shape'
    BY <2>1, <2>2, <2>8
  <2>5. Local(t)
    BY <2>1 DEF Local, Entering
  <2>6. Mons'
    BY <1>2, <2>1, <2>2 DEF Mons, MonOK
  <2>7. ASSUME NEW u \in Threads PROVE OpOK(u)'
    <3>1. CASE u = t
      BY <1>1, <2>1, <2>2, <3>1 DEF OpOK
    <3>2. CASE u # t
      <4>1. pc'[u] = pc[u] /\ arg'[u] = arg[u]
        BY <2>1, <3>2
      <4>2. pc[u] \in {"entered", "leaving", "waitleaving"} => arg[u].mon # m
        BY <1>1, <2>2, <3>2 DEF OpOK
      <4> QED BY <1>1, <2>1, <2>2, <4>1, <4>2 DEF OpOK
    <3> QED BY <3>1, <3>2
  <2> QED BY <2>4, <2>5, <2>6, <2>7 DEF Ops
<1> QED BY <1>3, <1>4, <1>5, <1>6 DEF Alone

LEMMA LocalKeeps ==
  ASSUME Inv, Shape', NEW t \in Threads, Local(t)
  PROVE  KnownInHist' /\ NoOccupation' /\ Waiting' /\ Counts'
<1>1. UNCHANGED <<next, acqPos, grantees, inHist, history, loaded>>
  BY DEF Local
<1>2. KnownInHist' /\ NoOccupation'
  BY <1>1 DEF Inv, KnownInHist, NoOccupation
<1>3. Waiting'
  <2> SUFFICES ASSUME NEW u \in Threads, pc'[u] = "asleep"
               PROVE  /\ waitsOn'[u] \in 1..Len(history)
                      /\ Instance(history[waitsOn'[u]], [grantees EXCEPT ![arg'[u].pos] = Append(@, u)])
    BY <1>1 DEF Waiting
  <2>1. u # t
    BY DEF Local
  <2>2. pc[u] = "asleep" /\ arg'[u] = arg[u] /\ waitsOn'[u] = waitsOn[u]
    BY <2>1 DEF Local
  <2> QED BY <2>2 DEF Inv, Waiting
<1>4. Counts'
  <2> SUFFICES ASSUME NEW u \in Threads, NEW p \in Positions
               PROVE  Count(grantees[p], u) = Due(u, p)'
    BY <1>1 DEF Counts
  <2>1. Entering(u, p)' = Entering(u, p)
    BY DEF Local, Entering
  <2>2. In(u, p)' = In(u, p)
    BY <1>1 DEF In
  <2> QED BY <1>1, <2>1, <2>2 DEF Inv, Counts, Due
<1> QED BY <1>2, <1>3, <1>4

LEMMA RequestAsks ==
  ASSUME Inv, NEW t \in Threads, NEW m \in Monitors, NEW p \in Positions,
         Enter(t, m, p) \/ (Retry(t) /\ m = arg[t].mon /\ p = arg[t].pos)
  PROVE  Asks(t, m, p)
<1>1. Shape /\ history \in Seq(Elements(history))
  BY DEF Inv, Shape
<1>2. PICK first \in BOOLEAN : \E o1, o2 \in Opens : Request(t, m, p, first, o1, o2)
  BY DEF Enter, Retry
<1>6. PICK o1 : \E o2 \in Opens : Request(t, m, p, first, o1, o2)
  BY <1>2
<1>7. PICK o2 : Request(t, m, p, first, o1, o2)
  BY <1>6
<1>3. /\ UNCHANGED <<holder, lockCount, acqPos, inHist, loaded, unread>>
      /\ next' = [next EXCEPT ![t] = m] \/ next' = next
      /\ Extends(history, history')
      /\ Unasked(t, p) \/ Granted(t, p) \/ Yielding(t, p)
  BY <1>1, <1>7, RequestEffect
<1>4. /\ pc[t] \in {"idle", "woken"}
      /\ arg' \in [Threads -> Args] /\ arg'[t].mon = m /\ arg'[t].pos = p
      /\ \A u \in Threads \ {t} : arg'[u] = arg[u]
  <2>1. CASE Enter(t, m, p)
    <3>1. pc[t] = "idle" /\ arg' = [arg EXCEPT ![t] = [mon |-> m, pos |-> p, depth |-> 0]]
      BY <2>1 DEF Enter, MayEnter
    <3>2. [mon |-> m, pos |-> p, depth |-> 0] \in Args
      BY DEF Args
    <3> QED BY <1>1, <3>1, <3>2 DEF Shape
  <2>2. CASE Retry(t) /\ m = arg[t].mon /\ p = arg[t].pos
    BY <1>1, <2>2 DEF Retry, Shape
  <2> QED BY <2>1, <2>2
<1>5. next' \in [Nodes -> Nodes \cup {NULL}] /\ \A n \in Monitors : next'[n] = next[n]
  <2>1. t \in Nodes /\ m \in Nodes /\ t \notin Monitors /\ Monitors \subseteq Nodes
    BY NodeFacts
  <2>2. next \in [Nodes -> Nodes \cup {NULL}]
    BY <1>1 DEF Shape
  <2>3. CASE next' = next
    BY ONLY <2>2, <2>3
  <2>4. CASE next' = [next EXCEPT ![t] = m]
    BY ONLY <2>1, <2>2, <2>4
  <2> QED BY <1>3, <2>3, <2>4
<1> QED BY <1>3, <1>4, <1>5 DEF Asks

LEMMA ExitLeaves ==
  ASSUME Inv, NEW t \in Threads, NEW m \in Monitors, Exit(t, m) \/ Wait(t, m)
  PROVE  Leaves(t, m)
<1>1. Shape
  BY DEF Inv
<1>2. CASE Exit(t, m)
  <2>1. [NoArg EXCEPT !.mon = m] \in Args /\ [NoArg EXCEPT !.mon = m].mon = m
    BY DEF NoArg, Args
  <2> QED BY <1>1, <1>2, <2>1 DEF Exit, Leaves, Shape
<1>3. CASE Wait(t, m)
  <2>1. [mon |-> m, pos |-> NULL, depth |-> lockCount[m]] \in Args
    BY <1>1 DEF Shape, Args
  <2> QED BY <1>1, <1>3, <2>1 DEF Wait, Leaves, Shape
<1> QED BY <1>2, <1>3

(* A list of grantees with t at its end has t and those of the list. *)
LEMMA ListWith ==
  ASSUME NEW g \in Lists, NEW p \in Positions, NEW t \in Threads
  PROVE  LET h == [g EXCEPT ![p] = Append(@, t)] IN
         /\ h \in Lists
         /\ \A q \in Positions : Elements(h[q]) = Elements(g[q]) \cup (IF q = p THEN {t} ELSE {})
         /\ \A q \in Positions, u \in Threads :
              Count(h[q], u) = Count(g[q], u) + (IF q = p /\ u = t THEN 1 ELSE 0)
<1> DEFINE h == [g EXCEPT ![p] = Append(@, t)]
<1>1. g[p] \in Seq(Threads) /\ \A q \in Positions : g[q] \in Seq(Threads)
  BY DEF Lists
<1>2. Append(g[p], t) \in Seq(Threads) /\ Elements(Append(g[p], t)) = Elements(g[p]) \cup {t}
  BY <1>1, AppendElements, AppendListed
<1>3. \A u : Count(Append(g[p], t), u) = Count(g[p], u) + (IF u = t THEN 1 ELSE 0)
  BY <1>1, CountAppend
<1>4. h[p] = Append(g[p], t) /\ \A q \in Positions \ {p} : h[q] = g[q]
  BY DEF Lists
<1>5. h \in Lists
  BY <1>2 DEF Lists
<1>6. \A q \in Positions, u \in Threads : Count(g[q], u) \in Nat
  BY <1>1, PlacesFinite
<1> HIDE DEF h
<1>7. \A q \in Positions : Elements(h[q]) = Elements(g[q]) \cup (IF q = p THEN {t} ELSE {})
  BY <1>2, <1>4
<1>8. ASSUME NEW q \in Positions, NEW u \in Threads
      PROVE  Count(h[q], u) = Count(g[q], u) + (IF q = p /\ u = t THEN 1 ELSE 0)
  <2>1. CASE q = p
    BY <1>3, <1>4, <2>1
  <2>2. CASE q # p
    BY <1>4, <1>6, <2>2
  <2> QED BY <2>1, <2>2
<1> QED BY <1>5, <1>7, <1>8 DEF h

LEMMA ListWithout ==
  ASSUME NEW g \in Lists, NEW p \in Positions, NEW t \in Threads
  PROVE  LET h == Ungrant(g, p, t) IN
         /\ h \in Lists
         /\ \A q \in Positions : Elements(h[q]) \subseteq Elements(g[q])
         /\ \A q \in Positions \ {p} : h[q] = g[q]
         /\ \A q \in Positions, u \in Threads :
              Count(h[q], u) = Count(g[q], u)
                - (IF q = p /\ u = t /\ Count(g[q], u) > 0 THEN 1 ELSE 0)
<1> DEFINE h == Ungrant(g, p, t)
<1>1. g[p] \in Seq(Threads) /\ \A q \in Positions : g[q] \in Seq(Threads)
  BY DEF Lists
<1>2. /\ RemoveFirst(g[p], t) \in Seq(Threads)
      /\ Elements(RemoveFirst(g[p], t)) \subseteq Elements(g[p])
      /\ \A u : Count(RemoveFirst(g[p], t), u)
                 = Count(g[p], u) - (IF u = t /\ t \in Elements(g[p]) THEN 1 ELSE 0)
  BY <1>1, RemoveFirstFacts
<1>3. t \in Elements(g[p]) <=> Count(g[p], t) > 0
  BY <1>1, CountedIsListed
<1>4. h[p] = RemoveFirst(g[p], t) /\ \A q \in Positions \ {p} : h[q] = g[q]
  BY DEF Lists, Ungrant
<1>5. h \in Lists
  BY <1>2 DEF Lists, Ungrant
<1>6. \A q \in Positions, u \in Threads : Count(g[q], u) \in Nat
  BY <1>1, PlacesFinite
<1> HIDE DEF h
<1>7. \A q \in Positions : Elements(h[q]) \subseteq Elements(g[q])
  BY <1>2, <1>4
<1>8. ASSUME NEW q \in Positions, NEW u \in Threads
      PROVE  Count(h[q], u) = Count(g[q], u)
                - (IF q = p /\ u = t /\ Count(g[q], u) > 0 THEN 1 ELSE 0)
  <2>1. CASE q = p
    <3>1. Count(h[q], u) = Count(g[q], u) - (IF u = t /\ t \in Elements(g[p]) THEN 1 ELSE 0)
      BY <1>2, <1>4, <2>1
    <3> QED BY <1>3, <2>1, <3>1
  <2>2. CASE q # p
    BY <1>4, <1>6, <2>2
  <2> QED BY <2>1, <2>2
<1> QED BY <1>4, <1>5, <1>7, <1>8 DEF h

LEMMA ListMonotone ==
  ASSUME NEW g \in Lists, NEW h \in Lists, NEW p \in Positions, NEW t \in Threads,
         \A q \in Positions : Elements(g[q]) \subseteq Elements(h[q]),
         NEW q \in Positions
  PROVE  /\ Elements(g[q]) \subseteq Elements([g EXCEPT ![p] = Append(@, t)][q])
         /\ Elements([g EXCEPT ![p] = Append(@, t)][q])
              \subseteq Elements([h EXCEPT ![p] = Append(@, t)][q])
<1>1. g[p] \in Seq(Threads) /\ h[p] \in Seq(Threads)
  BY DEF Lists
<1>2. Elements(Append(g[p], t)) = Elements(g[p]) \cup {t}
  BY <1>1, AppendListed
<1>3. Elements(Append(h[p], t)) = Elements(h[p]) \cup {t}
  BY <1>1, AppendListed
<1>4. CASE q = p
  <2>1. [g EXCEPT ![p] = Append(@, t)][q] = Append(g[p], t) /\ [h EXCEPT ![p] = Append(@, t)][q] = Append(h[p], t)
    BY <1>4 DEF Lists
  <2>2. Elements(g[p]) \subseteq Elements(h[p])
    OBVIOUS
  <2> QED BY <1>2, <1>3, <1>4, <2>1, <2>2
<1>5. CASE q # p
  <2>1. [g EXCEPT ![p] = Append(@, t)][q] = g[q] /\ [h EXCEPT ![p] = Append(@, t)][q] = h[q]
    BY <1>5 DEF Lists
  <2> QED BY <2>1
<1> QED BY <1>4, <1>5

(* Asking and giving up again leaves all lists as they were, but for order. *)
LEMMA ListSame ==
  ASSUME NEW g \in Lists, NEW p \in Positions, NEW t \in Threads
  PROVE  LET h == Ungrant([g EXCEPT ![p] = Append(@, t)], p, t) IN
         /\ h \in Lists
         /\ \A q \in Positions : Elements(h[q]) = Elements(g[q])
         /\ \A q \in Positions, u \in Threads : Count(h[q], u) = Count(g[q], u)
<1> DEFINE h == Ungrant([g EXCEPT ![p] = Append(@, t)], p, t)
           r == RemoveFirst(Append(g[p], t), t)
<1>1. g[p] \in Seq(Threads)
  BY DEF Lists
<1>2. /\ r \in Seq(Threads)
      /\ \A u : Count(r, u) = Count(g[p], u)
      /\ Elements(r) = Elements(g[p])
  BY <1>1, AskAndUngrant
<1>3. h = [g EXCEPT ![p] = r]
  BY DEF Lists, Ungrant
<1> HIDE DEF h, r
<1>4. h[p] = r /\ h \in Lists /\ \A q \in Positions \ {p} : h[q] = g[q]
  BY <1>2, <1>3 DEF Lists
<1> QED BY <1>2, <1>4 DEF h

-----------------------------------------------------------------------------
(* A request keeps the invariant. *)

LEMMA AsksShape ==
  ASSUME Inv, NEW t \in Threads, NEW m \in Monitors, NEW p \in Positions, Asks(t, m, p)
  PROVE  Shape' /\ Ops' /\ Mons'
<1>1. Shape /\ Ops /\ Mons
  BY DEF Inv
<1>2. /\ pc[t] \in {"idle", "woken"}
      /\ arg' \in [Threads -> Args] /\ arg'[t].mon = m /\ arg'[t].pos = p
      /\ \A u \in Threads \ {t} : arg'[u] = arg[u]
      /\ UNCHANGED <<holder, lockCount, acqPos, inHist, loaded, unread>>
      /\ next' \in [Nodes -> Nodes \cup {NULL}] /\ \A n \in Monitors : next'[n] = next[n]
  BY DEF Asks
<1>3. history' \in Seq(Elements(history')) /\ loaded' \in 0..Len(history')
  BY <1>1, <1>2 DEF Asks, Extends, Shape
<1>4. \E l \in {"entering", "asleep"} : pc' = [pc EXCEPT ![t] = l]
  BY DEF Asks, Unasked, Granted, Yielding
<1>5. grantees' \in Lists
  <2>1. grantees \in Lists
    BY <1>1 DEF Shape
  <2>2. Asked(t, p) \in Lists /\ Ungrant(Asked(t, p), p, t) \in Lists
    BY <2>1, ListWith, ListSame DEF Asked
  <2> QED BY <2>1, <2>2 DEF Asks, Unasked, Granted, Yielding
<1>6. waitsOn' \in [Threads -> Nat]
  <2>1. waitsOn \in [Threads -> Nat] /\ DOMAIN history' \subseteq Nat
    BY <1>1 DEF Shape, Asks, Extends
  <2> QED BY <2>1 DEF Asks, Unasked, Granted, Yielding
<1>7. Shape'
  BY <1>1, <1>2, <1>3, <1>4, <1>5, <1>6 DEF Shape, PCs
<1>8. Ops'
  <2> SUFFICES ASSUME NEW u \in Threads PROVE OpOK(u)'
    BY DEF Ops
  <2>1. CASE u = t
    BY <1>1, <1>2, <1>4, <2>1 DEF OpOK, Shape
  <2>2. CASE u # t
    <3>1. pc'[u] = pc[u] /\ arg'[u] = arg[u] /\ OpOK(u)
      BY <1>1, <1>2, <1>4, <2>2 DEF Shape, Ops
    <3> QED BY <1>2, <3>1 DEF OpOK
  <2> QED BY <2>1, <2>2
<1>9. Mons'
  BY <1>1, <1>2 DEF Mons, MonOK
<1> QED BY <1>7, <1>8, <1>9

LEMMA AsksHistory ==
  ASSUME Inv, NEW t \in Threads, NEW m \in Monitors, NEW p \in Positions, Asks(t, m, p)
  PROVE  KnownInHist' /\ NoOccupation'
<1>1. Shape /\ KnownInHist /\ NoOccupation
  BY DEF Inv
<1>2. grantees \in Lists /\ grantees' \in Lists /\ loaded \in 0..Len(history)
  BY <1>1, AsksShape DEF Shape
<1>3. /\ loaded' = loaded /\ inHist' = inHist
      /\ Extends(history, history')
  BY DEF Asks
<1>4. ASSUME NEW k \in 1..loaded
      PROVE  k \in DOMAIN history /\ history'[k] = history[k]
  <2>1. k \in 1..Len(history)
    BY <1>2, <1>3 DEF Extends
  <2> QED BY <1>3, <2>1 DEF Extends
<1>5. KnownInHist'
  BY <1>1, <1>3, <1>4 DEF KnownInHist
<1>6. ASSUME NEW k \in 1..loaded PROVE ~Instance(history[k], grantees')
  <2> DEFINE T == history[k]
  <2>1. ~Instance(T, grantees)
    BY <1>1 DEF NoOccupation
  <2> HIDE DEF T
  <2>2. CASE Unasked(t, p)
    BY <2>1, <2>2 DEF Unasked, T
  <2>3. CASE Granted(t, p)
    <3>1. CASE Has(T, p)
      BY <1>4, <2>3, <3>1 DEF Granted, T
    <3>2. CASE ~Has(T, p)
      <4>1. \A i \in DOMAIN T : T[i] # p
        BY <3>2 DEF Has, Elements
      <4>2. \A q \in Positions \ {p} : Elements(grantees'[q]) \subseteq Elements(grantees[q])
        BY <1>2, <2>3, ListWith DEF Granted, Asked
      <4>3. \A i \in DOMAIN T : T[i] \in Positions =>
              Elements(grantees'[T[i]]) \subseteq Elements(grantees[T[i]])
        BY <4>1, <4>2
      <4>4. Instance(T, grantees') => Instance(T, grantees)
        BY <1>2, <4>3, InstanceStays
      <4> QED BY <2>1, <4>4 DEF T
    <3> QED BY <3>1, <3>2
  <2>4. CASE Yielding(t, p)
    <3>1. \A q \in Positions : Elements(grantees'[q]) = Elements(grantees[q])
      BY <1>2, <2>4, ListSame DEF Yielding, Asked
    <3>2. Instance(T, grantees') => Instance(T, grantees)
      BY <1>2, <3>1, InstanceStays
    <3> QED BY <2>1, <3>2 DEF T
  <2> QED BY <2>2, <2>3, <2>4 DEF Asks
<1>7. NoOccupation'
  BY <1>3, <1>4, <1>6 DEF NoOccupation
<1> QED BY <1>5, <1>7

LEMMA AsksWaiting ==
  ASSUME Inv, NEW t \in Threads, NEW m \in Monitors, NEW p \in Positions, Asks(t, m, p)
  PROVE  Waiting'
<1>1. Shape /\ Ops /\ Waiting
  BY DEF Inv
<1>2. grantees \in Lists /\ grantees' \in Lists /\ pc \in [Threads -> PCs] /\ waitsOn \in [Threads -> Nat]
  BY <1>1, AsksShape DEF Shape
<1>3. Extends(history, history') /\ arg'[t].pos = p
  BY DEF Asks
<1>4. \A q \in Positions : Elements(grantees[q]) \subseteq Elements(grantees'[q])
  <2>1. CASE Unasked(t, p)
    BY <2>1 DEF Unasked
  <2>2. CASE Granted(t, p)
    BY <1>2, <2>2, ListMonotone DEF Granted, Asked
  <2>3. CASE Yielding(t, p)
    BY <1>2, <2>3, ListSame DEF Yielding, Asked
  <2> QED BY <2>1, <2>2, <2>3 DEF Asks
<1> SUFFICES ASSUME NEW u \in Threads, pc'[u] = "asleep"
             PROVE  /\ waitsOn'[u] \in 1..Len(history')
                    /\ Instance(history'[waitsOn'[u]],
                                [grantees' EXCEPT ![arg'[u].pos] = Append(@, u)])
  BY DEF Waiting
<1>5. CASE u # t
  <2>1. pc[u] = "asleep" /\ arg'[u] = arg[u] /\ waitsOn'[u] = waitsOn[u]
    BY <1>2, <1>5 DEF Asks, Unasked, Granted, Yielding
  <2> DEFINE q == arg[u].pos
             k == waitsOn[u]
             g == [grantees EXCEPT ![q] = Append(@, u)]
             h == [grantees' EXCEPT ![q] = Append(@, u)]
  <2>2. q \in Positions
    BY <1>1, <2>1 DEF Ops, OpOK
  <2>3. k \in 1..Len(history) /\ Instance(history[k], g)
    BY <1>1, <2>1 DEF Waiting
  <2>4. k \in 1..Len(history') /\ history'[k] = history[k]
    BY <1>3, <2>3 DEF Extends
  <2> HIDE DEF q, k
  <2>5. g \in Lists /\ h \in Lists
    BY <1>2, <2>2, ListWith
  <2>7. \A r \in Positions : Elements(g[r]) \subseteq Elements(h[r])
    BY <1>2, <1>4, <2>2, ListMonotone
  <2> HIDE DEF g, h
  <2>8. Instance(history[k], h)
    BY <2>3, <2>5, <2>7, InstanceStays
  <2> QED BY <2>1, <2>4, <2>8 DEF q, k, h
<1>6. CASE u = t
  <2>1. Yielding(t, p)
    BY <1>2, <1>6 DEF Asks, Unasked, Granted
  <2>2. PICK k \in DOMAIN history' :
          waitsOn' = [waitsOn EXCEPT ![t] = k] /\ Instance(history'[k], Asked(t, p))
    BY <2>1 DEF Yielding
  <2> DEFINE h == [grantees' EXCEPT ![p] = Append(@, t)]
  <2>3. k \in 1..Len(history') /\ waitsOn'[u] = k
    BY <1>2, <1>3, <1>6, <2>2 DEF Extends
  <2>4. \A q \in Positions : Elements(grantees'[q]) = Elements(grantees[q])
    BY <1>2, <2>1, ListSame DEF Yielding, Asked
  <2>5. Asked(t, p) \in Lists /\ h \in Lists
    BY <1>2, ListWith DEF Asked
  <2>6. \A q \in Positions : Elements(Asked(t, p)[q]) \subseteq Elements(h[q])
    <3>1. \A q \in Positions : Elements(grantees[q]) \subseteq Elements(grantees'[q])
      BY <2>4
    <3> QED BY <1>2, <3>1, ListMonotone DEF Asked
  <2> HIDE DEF h
  <2>7. Instance(history'[k], h)
    BY <2>2, <2>5, <2>6, InstanceStays
  <2> QED BY <1>3, <1>6, <2>3, <2>7 DEF h
<1> QED BY <1>5, <1>6

LEMMA AsksCounts ==
  ASSUME Inv, NEW t \in Threads, NEW m \in Monitors, NEW p \in Positions, Asks(t, m, p)
  PROVE  Counts'
<1>1. Shape /\ Counts
  BY DEF Inv
<1>2. grantees \in Lists /\ pc \in [Threads -> PCs]
  BY <1>1 DEF Shape
<1>3. /\ pc[t] \in {"idle", "woken"} /\ arg'[t].pos = p
      /\ \A u \in Threads \ {t} : arg'[u] = arg[u]
      /\ acqPos' = acqPos /\ inHist' = inHist
      /\ \A n \in Monitors : next'[n] = next[n]
  BY DEF Asks
<1> SUFFICES ASSUME NEW u \in Threads, NEW q \in Positions
             PROVE  Count(grantees'[q], u) = Due(u, q)'
  BY DEF Counts
<1>4. Count(grantees[q], u) = Due(u, q)
  BY <1>1 DEF Counts
<1>5. In(u, q)' = In(u, q) /\ Cardinality(In(u, q)) \in Nat
  <2>1. In(u, q)' = In(u, q)
    BY <1>3 DEF In
  <2> QED BY <2>1, InFinite
<1>6. CASE Unasked(t, p)
  <2>1. grantees' = grantees /\ pc' = [pc EXCEPT ![t] = "entering"] /\ p \notin inHist
    BY <1>6 DEF Unasked
  <2>2. q \in inHist => Entering(u, q)' = Entering(u, q)
    BY <1>2, <1>3, <2>1 DEF Entering
  <2> QED BY <1>3, <1>4, <1>5, <2>1, <2>2 DEF Due
<1>7. CASE Granted(t, p)
  <2>1. grantees' = Asked(t, p) /\ pc' = [pc EXCEPT ![t] = "entering"] /\ p \in inHist
    BY <1>7 DEF Granted
  <2>2. Count(grantees'[q], u) = Count(grantees[q], u) + (IF q = p /\ u = t THEN 1 ELSE 0)
    BY <1>2, <2>1, ListWith DEF Asked
  <2>3. Entering(u, q)' = Entering(u, q) + (IF q = p /\ u = t THEN 1 ELSE 0)
    BY <1>2, <1>3, <2>1 DEF Entering
  <2>4. Entering(u, q) \in Nat
    BY DEF Entering
  <2>5. CASE q = p /\ u = t
    BY <1>3, <1>4, <1>5, <2>1, <2>2, <2>3, <2>4, <2>5 DEF Due
  <2>6. CASE ~(q = p /\ u = t)
    BY <1>3, <1>4, <1>5, <2>1, <2>2, <2>3, <2>4, <2>6 DEF Due
  <2> QED BY <2>5, <2>6
<1>8. CASE Yielding(t, p)
  <2>1. Count(grantees'[q], u) = Count(grantees[q], u)
    BY <1>2, <1>8, ListSame DEF Yielding, Asked
  <2>2. Entering(u, q)' = Entering(u, q)
    BY <1>2, <1>3, <1>8 DEF Entering, Yielding
  <2> QED BY <1>3, <1>4, <1>5, <2>1, <2>2 DEF Due
<1> QED BY <1>6, <1>7, <1>8 DEF Asks

-----------------------------------------------------------------------------
(* Giving a monitor up keeps the invariant. *)

(* What beforeUnlock does, with the position p of the monitor. *)
LEMMA LeavesEffect ==
  ASSUME Inv, NEW t \in Threads, NEW m \in Monitors, Leaves(t, m)
  PROVE  LET p == acqPos[m]
             tracked == p # NULL /\ p \in inHist
             ws == IF tracked THEN Woken(p) ELSE {} IN
         /\ UNCHANGED <<holder, inHist, history, loaded, unread>>
         /\ acqPos' = [acqPos EXCEPT ![m] = NULL]
         /\ next' = IF p = NULL THEN next ELSE [next EXCEPT ![m] = NULL]
         /\ grantees' = IF tracked THEN Ungrant(grantees, p, t) ELSE grantees
         /\ pc[t] = "idle" /\ holder[m] = t
         /\ pc'[t] \in {"leaving", "waitleaving"} /\ pc' \in [Threads -> PCs]
         /\ pc'[t] = "waitleaving" => arg'[t].pos = NULL
         /\ \A u \in Threads \ {t} : pc'[u] = IF u \in ws THEN "woken" ELSE pc[u]
         /\ waitsOn' = [u \in Threads |-> IF u \in ws THEN 0 ELSE waitsOn[u]]
<1>1. PICK l \in {"leaving", "waitleaving"} :
         BeforeUnlock(t, m, l) /\ (l = "waitleaving" => arg'[t].pos = NULL)
  BY DEF Leaves
<1>2. pc \in [Threads -> PCs]
  BY DEF Inv, Shape
<1> QED BY <1>1, <1>2 DEF BeforeUnlock, Leaves, histVars, PCs

LEMMA LeavesShape ==
  ASSUME Inv, NEW t \in Threads, NEW m \in Monitors, Leaves(t, m)
  PROVE  Shape' /\ Ops' /\ Mons'
<1> DEFINE p == acqPos[m]
           tracked == p # NULL /\ p \in inHist
           ws == IF tracked THEN Woken(p) ELSE {}
<1>1. Shape /\ Ops /\ Mons
  BY DEF Inv
<1>2. /\ UNCHANGED <<holder, inHist, history, loaded, unread>>
      /\ acqPos' = [acqPos EXCEPT ![m] = NULL]
      /\ next' = IF p = NULL THEN next ELSE [next EXCEPT ![m] = NULL]
      /\ grantees' = IF tracked THEN Ungrant(grantees, p, t) ELSE grantees
      /\ pc[t] = "idle" /\ holder[m] = t
      /\ pc'[t] \in {"leaving", "waitleaving"} /\ pc' \in [Threads -> PCs]
      /\ pc'[t] = "waitleaving" => arg'[t].pos = NULL
      /\ \A u \in Threads \ {t} : pc'[u] = IF u \in ws THEN "woken" ELSE pc[u]
      /\ waitsOn' = [u \in Threads |-> IF u \in ws THEN 0 ELSE waitsOn[u]]
  BY LeavesEffect
<1>3. /\ arg' \in [Threads -> Args] /\ arg'[t].mon = m
      /\ \A u \in Threads \ {t} : arg'[u] = arg[u]
      /\ lockCount' \in [Monitors -> Nat]
  BY DEF Leaves
<1>4. p \in Positions \cup {NULL}
  BY <1>1 DEF Shape
<1>5. ws \subseteq {u \in Threads : pc[u] = "asleep"}
  BY DEF Woken
<1> HIDE DEF p, ws
<1>6. grantees' \in Lists
  BY <1>1, <1>2, <1>4, ListWithout DEF Shape
<1>7. waitsOn' \in [Threads -> Nat]
  BY <1>1, <1>2 DEF Shape
<1>8. next' \in [Nodes -> Nodes \cup {NULL}] /\ acqPos' \in [Monitors -> Positions \cup {NULL}]
  BY <1>1, <1>2 DEF Shape
<1>9. Shape'
  BY <1>1, <1>2, <1>3, <1>6, <1>7, <1>8 DEF Shape
<1>10. next'[m] = NULL /\ \A n \in Monitors \ {m} : next'[n] = next[n] /\ acqPos'[n] = acqPos[n]
  <2>1. p = NULL => next[m] = NULL
    BY <1>1 DEF Mons, MonOK, p
  <2> QED BY <1>1, <1>2, <2>1, NodeFacts DEF Shape
<1>11. acqPos'[m] = NULL
  BY <1>1, <1>2 DEF Shape
<1>12. Mons'
  BY <1>1, <1>2, <1>10, <1>11 DEF Mons, MonOK
<1>13. ASSUME NEW u \in Threads PROVE OpOK(u)'
  <2>1. CASE u = t
    BY <1>2, <1>3, <1>10, <2>1 DEF OpOK
  <2>2. CASE u # t
    <3>1. pc'[u] = pc[u] \/ (pc[u] = "asleep" /\ pc'[u] = "woken")
      BY <1>2, <1>5, <2>2
    <3>2. arg'[u] = arg[u] /\ OpOK(u)
      BY <1>1, <1>3, <2>2 DEF Ops
    <3>3. pc[u] # "idle" => arg[u].mon \in Monitors
      BY <3>2 DEF OpOK
    <3>4. pc[u] \in {"entered", "leaving", "waitleaving"} => next'[arg[u].mon] = NULL
      BY <1>10, <3>2, <3>3 DEF OpOK
    <3> QED BY <1>2, <3>1, <3>2, <3>4 DEF OpOK
  <2> QED BY <2>1, <2>2
<1> QED BY <1>9, <1>12, <1>13 DEF Ops

LEMMA LeavesKeeps ==
  ASSUME Inv, NEW t \in Threads, NEW m \in Monitors, Leaves(t, m)
  PROVE  KnownInHist' /\ NoOccupation' /\ Waiting'
<1> DEFINE p == acqPos[m]
           tracked == p # NULL /\ p \in inHist
           ws == IF tracked THEN Woken(p) ELSE {}
<1>1. Shape /\ Ops /\ Waiting /\ KnownInHist /\ NoOccupation
  BY DEF Inv
<1>2. /\ UNCHANGED <<inHist, history, loaded>>
      /\ grantees' = IF tracked THEN Ungrant(grantees, p, t) ELSE grantees
      /\ pc'[t] \in {"leaving", "waitleaving"}
      /\ \A u \in Threads \ {t} : pc'[u] = IF u \in ws THEN "woken" ELSE pc[u]
      /\ waitsOn' = [u \in Threads |-> IF u \in ws THEN 0 ELSE waitsOn[u]]
  BY LeavesEffect
<1>3. \A u \in Threads \ {t} : arg'[u] = arg[u]
  BY DEF Leaves
<1>4. p \in Positions \cup {NULL} /\ grantees \in Lists /\ grantees' \in Lists
  BY <1>1, LeavesShape DEF Shape
<1>5. KnownInHist'
  BY <1>1, <1>2 DEF KnownInHist
<1>6. /\ \A q \in Positions : Elements(grantees'[q]) \subseteq Elements(grantees[q])
      /\ ~tracked => grantees' = grantees
      /\ tracked => \A q \in Positions \ {p} : grantees'[q] = grantees[q]
  <2> HIDE DEF p
  <2>1. CASE tracked
    <3>1. p \in Positions /\ grantees' = Ungrant(grantees, p, t)
      BY <1>2, <1>4, <2>1
    <3>2. /\ \A q \in Positions : Elements(Ungrant(grantees, p, t)[q]) \subseteq Elements(grantees[q])
          /\ \A q \in Positions \ {p} : Ungrant(grantees, p, t)[q] = grantees[q]
      BY ONLY <1>4, <3>1, ListWithout
    <3> QED BY <2>1, <3>1, <3>2
  <2>2. CASE ~tracked
    BY <1>2, <2>2
  <2> QED BY <2>1, <2>2
<1> HIDE DEF p
<1>7. ASSUME NEW k \in 1..loaded PROVE ~Instance(history[k], grantees')
  <2>1. Instance(history[k], grantees') => Instance(history[k], grantees)
    BY <1>4, <1>6, InstanceStays
  <2> QED BY <1>1, <2>1 DEF NoOccupation
<1>8. NoOccupation'
  BY <1>2, <1>7 DEF NoOccupation
<1>9. ASSUME NEW u \in Threads, pc'[u] = "asleep"
      PROVE  /\ waitsOn'[u] \in 1..Len(history)
             /\ Instance(history[waitsOn'[u]], [grantees' EXCEPT ![arg'[u].pos] = Append(@, u)])
  <2>1. u # t /\ u \notin ws /\ pc[u] = "asleep"
    BY <1>2, <1>9
  <2>2. arg'[u] = arg[u] /\ waitsOn'[u] = waitsOn[u]
    BY <1>2, <1>3, <2>1
  <2> DEFINE q == arg[u].pos
             T == history[waitsOn[u]]
             g == [grantees EXCEPT ![q] = Append(@, u)]
             h == [grantees' EXCEPT ![q] = Append(@, u)]
  <2>3. q \in Positions
    BY <1>1, <2>1 DEF Ops, OpOK
  <2>4. waitsOn[u] \in 1..Len(history) /\ Instance(T, g)
    BY <1>1, <2>1 DEF Waiting
  <2>5. tracked => ~Has(T, p)
    BY <2>1 DEF Woken
  <2> HIDE DEF q, T
  <2>6. ASSUME NEW i \in DOMAIN T, T[i] \in Positions PROVE g[T[i]] = h[T[i]]
    <3>1. grantees'[T[i]] = grantees[T[i]]
      BY <1>6, <2>5, <2>6 DEF Has, Elements
    <3> QED BY <1>4, <2>3, <2>6, <3>1 DEF Lists
  <2>7. g \in Lists /\ h \in Lists
    BY <1>4, <2>3, ListWith
  <2> HIDE DEF g, h
  <2>8. Instance(T, h)
    BY <2>4, <2>6, <2>7, InstanceStays
  <2> QED BY <2>2, <2>4, <2>8 DEF q, T, h
<1>10. Waiting'
  BY <1>2, <1>9 DEF Waiting
<1> QED BY <1>5, <1>8, <1>10

LEMMA LeavesCounts ==
  ASSUME Inv, NEW t \in Threads, NEW m \in Monitors, Leaves(t, m)
  PROVE  Counts'
<1> DEFINE p == acqPos[m]
           tracked == p # NULL /\ p \in inHist
           ws == IF tracked THEN Woken(p) ELSE {}
<1>1. Shape /\ Mons /\ Counts
  BY DEF Inv
<1>2. /\ inHist' = inHist
      /\ acqPos' = [acqPos EXCEPT ![m] = NULL]
      /\ next' = IF p = NULL THEN next ELSE [next EXCEPT ![m] = NULL]
      /\ grantees' = IF tracked THEN Ungrant(grantees, p, t) ELSE grantees
      /\ pc[t] = "idle" /\ holder[m] = t
      /\ pc'[t] \in {"leaving", "waitleaving"}
      /\ \A u \in Threads \ {t} : pc'[u] = IF u \in ws THEN "woken" ELSE pc[u]
  BY LeavesEffect
<1>3. \A u \in Threads \ {t} : arg'[u] = arg[u]
  BY DEF Leaves
<1>4. ws \subseteq {u \in Threads : pc[u] = "asleep"}
  BY DEF Woken
<1>5. p \in Positions \cup {NULL} /\ grantees \in Lists
      /\ next \in [Nodes -> Nodes \cup {NULL}] /\ acqPos \in [Monitors -> Positions \cup {NULL}]
  BY <1>1 DEF Shape
<1>6. acqPos[m] = p /\ (p = NULL => next[m] = NULL) /\ (p # NULL => next[m] = t)
  BY <1>1, <1>2 DEF Mons, MonOK
<1> SUFFICES ASSUME NEW u \in Threads, NEW q \in Positions
             PROVE  Count(grantees'[q], u) = Due(u, q)'
  BY DEF Counts
<1>7. Count(grantees[q], u) = Due(u, q)
  BY <1>1 DEF Counts
<1> HIDE DEF p
<1>8. Entering(u, q)' = Entering(u, q)
  BY <1>2, <1>3, <1>4 DEF Entering
<1>9. next'[m] = NULL /\ \A n \in Monitors \ {m} : next'[n] = next[n] /\ acqPos'[n] = acqPos[n]
  BY <1>2, <1>5, <1>6, NodeFacts
<1>10. In(u, q)' = In(u, q) \ {m}
  BY <1>9, NodeFacts, NullAssumption DEF In
<1>11. m \in In(u, q) <=> (u = t /\ q = p)
  BY <1>5, <1>6, NodeFacts, NullAssumption DEF In
<1>12. IsFiniteSet(In(u, q)) /\ Cardinality(In(u, q)) \in Nat
  BY InFinite
<1>13. Cardinality(In(u, q)') = Cardinality(In(u, q)) - (IF u = t /\ q = p THEN 1 ELSE 0)
  <2>1. Cardinality(In(u, q) \ {m}) = IF m \in In(u, q) THEN Cardinality(In(u, q)) - 1
                                      ELSE Cardinality(In(u, q))
    BY <1>12, FS_RemoveElement
  <2> QED BY <1>10, <1>11, <1>12, <2>1
<1>14. Cardinality(In(u, q)') \in Nat
  BY <1>10, <1>12, FS_Subset, FS_CardinalityType
<1>15. Entering(u, q) \in Nat
  BY DEF Entering
<1>16. CASE tracked
  <2>1. Count(grantees'[q], u) = Count(grantees[q], u)
            - (IF q = p /\ u = t /\ Count(grantees[q], u) > 0 THEN 1 ELSE 0)
    BY <1>2, <1>5, <1>16, ListWithout
  <2>2. CASE u = t /\ q = p
    <3>1. Due(u, q) = Cardinality(In(u, q)) + Entering(u, q)
      BY <1>16, <2>2 DEF Due
    <3>2. Count(grantees[q], u) > 0
      BY <1>7, <1>12, <1>13, <1>14, <1>15, <2>2, <3>1
    <3>3. Due(u, q)' = Cardinality(In(u, q)') + Entering(u, q)
      BY <1>2, <1>8, <1>16, <2>2 DEF Due
    <3> QED BY <1>7, <1>12, <1>13, <1>15, <2>1, <2>2, <3>1, <3>2, <3>3
  <2>3. CASE ~(u = t /\ q = p)
    <3>1. Cardinality(In(u, q)') = Cardinality(In(u, q))
      BY <1>12, <1>13, <2>3
    <3>2. Due(u, q)' = Due(u, q)
      BY <1>2, <1>8, <3>1 DEF Due
    <3>3. Count(grantees[q], u) \in Nat
      BY <1>7, <1>12, <1>15 DEF Due
    <3> QED BY <1>7, <2>1, <2>3, <3>2, <3>3
  <2> QED BY <2>2, <2>3
<1>17. CASE ~tracked
  <2>1. grantees' = grantees
    BY <1>2, <1>17
  <2>2. q \in inHist => ~(u = t /\ q = p)
    BY <1>17, NodeFacts
  <2>3. q \in inHist => Cardinality(In(u, q)') = Cardinality(In(u, q))
    BY <1>12, <1>13, <2>2
  <2>4. Due(u, q)' = Due(u, q)
    BY <1>2, <1>8, <2>3 DEF Due
  <2> QED BY <1>7, <2>1, <2>4
<1> QED BY <1>16, <1>17

-----------------------------------------------------------------------------
(* Having entered a monitor, and reading the history, keep the invariant. *)

LEMMA AfterKeeps ==
  ASSUME Inv, NEW t \in Threads, After(t)
  PROVE  Inv'
<1> DEFINE m == arg[t].mon
           p == arg[t].pos
<1>1. Shape /\ Ops /\ Mons /\ Loading /\ KnownInHist /\ NoOccupation /\ Waiting /\ Counts
  BY DEF Inv
<1>2. /\ pc[t] = "entered"
      /\ acqPos' = [acqPos EXCEPT ![m] = p]
      /\ next' = IF p = NULL THEN next ELSE [next EXCEPT ![m] = t, ![t] = NULL]
      /\ lockCount' = [lockCount EXCEPT ![m] = arg[t].depth]
      /\ pc' = [pc EXCEPT ![t] = "idle"] /\ arg' = [arg EXCEPT ![t] = NoArg]
      /\ UNCHANGED <<holder, grantees, inHist, history, loaded, unread, waitsOn>>
  BY DEF After, Acquired, Return, Goto, histVars
<1>3. m \in Monitors /\ holder[m] = t /\ next[m] = NULL
  BY <1>1, <1>2 DEF Ops, OpOK
<1>4. p \in Positions \cup {NULL} /\ arg[t].depth \in Nat
  BY <1>1 DEF Shape, Args
<1> HIDE DEF m, p
<1>5. /\ next' \in [Nodes -> Nodes \cup {NULL}]
      /\ next'[m] = (IF p = NULL THEN NULL ELSE t)
      /\ \A n \in Monitors \ {m} : next'[n] = next[n]
  BY <1>1, <1>2, <1>3, NodeFacts DEF Shape
<1>6. acqPos' \in [Monitors -> Positions \cup {NULL}]
      /\ acqPos'[m] = p /\ \A n \in Monitors \ {m} : acqPos'[n] = acqPos[n]
  BY <1>1, <1>2, <1>3, <1>4 DEF Shape
<1>7. /\ pc' \in [Threads -> PCs] /\ arg' \in [Threads -> Args] /\ pc'[t] = "idle"
      /\ \A u \in Threads \ {t} : pc'[u] = pc[u] /\ arg'[u] = arg[u]
  <2>1. NoArg \in Args
    BY DEF NoArg, Args
  <2> QED BY <1>1, <1>2, <2>1 DEF Shape, PCs
<1>8. Shape'
  <2>1. lockCount' \in [Monitors -> Nat]
    BY <1>1, <1>2, <1>4 DEF Shape
  <2> QED BY <1>1, <1>2, <1>5, <1>6, <1>7, <2>1 DEF Shape
<1>9. ASSUME NEW u \in Threads PROVE OpOK(u)'
  <2>1. CASE u = t
    BY <1>7, <2>1 DEF OpOK
  <2>2. CASE u # t
    <3>1. OpOK(u) /\ pc'[u] = pc[u] /\ arg'[u] = arg[u]
      BY <1>1, <1>7, <2>2 DEF Ops
    <3>2. pc[u] \in {"entered", "leaving", "waitleaving"} => arg[u].mon \in Monitors \ {m}
      BY <1>3, <2>2, <3>1 DEF OpOK
    <3> QED BY <1>2, <1>5, <3>1, <3>2 DEF OpOK
  <2> QED BY <2>1, <2>2
<1>10. Mons'
  BY <1>1, <1>2, <1>3, <1>5, <1>6, NodeFacts, NullAssumption DEF Mons, MonOK
<1>11. Loading'
  BY <1>1, <1>2 DEF Loading
<1>12. KnownInHist' /\ NoOccupation'
  BY <1>1, <1>2 DEF KnownInHist, NoOccupation
<1>13. Waiting'
  <2> SUFFICES ASSUME NEW u \in Threads, pc'[u] = "asleep"
               PROVE  /\ waitsOn[u] \in 1..Len(history)
                      /\ Instance(history[waitsOn[u]], [grantees EXCEPT ![arg'[u].pos] = Append(@, u)])
    BY <1>2 DEF Waiting
  <2>1. pc[u] = "asleep" /\ arg'[u] = arg[u]
    BY <1>7
  <2> QED BY <1>1, <2>1 DEF Waiting
<1>14. ASSUME NEW u \in Threads, NEW q \in Positions
       PROVE  Count(grantees[q], u) = Due(u, q)'
  <2>1. Count(grantees[q], u) = Due(u, q)
    BY <1>1 DEF Counts
  <2>2. IsFiniteSet(In(u, q)) /\ Cardinality(In(u, q)) \in Nat
    BY InFinite
  <2>3. CASE u = t /\ q = p
    <3>1. m \notin In(u, q) /\ In(u, q)' = In(u, q) \cup {m}
      BY <1>3, <1>5, <1>6, <2>3, NodeFacts, NullAssumption DEF In
    <3>2. Cardinality(In(u, q)') = Cardinality(In(u, q)) + 1
      BY <2>2, <3>1, FS_AddElement
    <3>3. Entering(u, q) = 1 /\ Entering(u, q)' = 0
      BY <1>2, <1>7, <2>3 DEF Entering, p
    <3> QED BY <1>2, <2>1, <2>2, <3>2, <3>3 DEF Due
  <2>4. CASE ~(u = t /\ q = p)
    <3>1. In(u, q)' = In(u, q)
      BY <1>3, <1>5, <1>6, <2>4, NodeFacts, NullAssumption DEF In
    <3>2. Entering(u, q)' = Entering(u, q)
      BY <1>7, <2>4 DEF Entering, p
    <3> QED BY <1>2, <2>1, <3>1, <3>2 DEF Due
  <2> QED BY <2>3, <2>4
<1>15. Counts'
  BY <1>2, <1>14 DEF Counts
<1> QED BY <1>8, <1>9, <1>10, <1>11, <1>12, <1>13, <1>15 DEF Inv, Ops

LEMMA LoadLineKeeps ==
  ASSUME Inv, LoadLine
  PROVE  Inv'
<1> DEFINE T == Head(unread)
           R == ReadBack(T)
<1>1. Shape /\ Ops /\ Mons /\ Loading /\ KnownInHist /\ NoOccupation /\ Waiting /\ Counts
  BY DEF Inv
<1>2. /\ unread # <<>>
      /\ \/ history' = history
         \/ history' = Append(history, R) /\ Elements(T) # {}
      /\ inHist' = inHist \cup (Elements(T) \ Native)
      /\ loaded' = Len(history')
      /\ UNCHANGED <<pc, arg, holder, lockCount, next, acqPos, grantees, waitsOn>>
  BY DEF LoadLine, AddToHistory, monVars, ragVars
<1>3. /\ loaded = Len(history)
      /\ \A t \in Threads : pc[t] = "idle"
      /\ \A m \in Monitors : holder[m] = NULL
      /\ \A p \in Positions : grantees[p] = <<>>
  BY <1>1, <1>2 DEF Loading
<1>4. DOMAIN R = DOMAIN T /\ \A i \in DOMAIN R : R[i] = IF T[i] \in Native THEN NULL ELSE T[i]
  BY DEF ReadBack
<1>5. Elements(R) \subseteq (Elements(T) \ Native) \cup {NULL}
  BY <1>4 DEF Elements
<1>6. Elements(T) # {} => DOMAIN R # {}
  BY <1>4 DEF Elements
<1> HIDE DEF T, R
<1>7. Extends(history, history')
  <2>1. Grows(history, history')
    BY <1>2 DEF Grows
  <2>2. history \in Seq(Elements(history))
    BY <1>1 DEF Shape
  <2> QED BY <2>1, <2>2, GrowsExtends
<1>8. Shape'
  <2>1. loaded' \in 0..Len(history') /\ history' \in Seq(Elements(history'))
    BY <1>2, <1>7 DEF Extends
  <2> QED BY <1>1, <1>2, <2>1 DEF Shape
<1>9. ASSUME NEW k \in 1..Len(history')
      PROVE  \/ k \in 1..loaded /\ history'[k] = history[k]
             \/ history'[k] = R /\ Elements(T) # {}
  <2>1. CASE history' = history
    BY <1>3, <2>1
  <2>2. CASE history' = Append(history, R) /\ Elements(T) # {}
    <3>1. history \in Seq(Elements(history))
      BY <1>1 DEF Shape
    <3>2. /\ Len(history) \in Nat /\ DOMAIN history' = 1..(Len(history) + 1)
          /\ \A i \in 1..Len(history) : history'[i] = history[i]
          /\ history'[Len(history) + 1] = R
      BY <2>2, <3>1, AppendElements
    <3>3. k \in 1..(Len(history) + 1)
      BY <1>7, <3>2 DEF Extends
    <3> QED BY <1>3, <2>2, <3>2, <3>3
  <2> QED BY <1>2, <2>1, <2>2
<1>10. ASSUME NEW k \in 1..Len(history')
       PROVE  Elements(history'[k]) \subseteq inHist' \cup {NULL}
  <2>1. CASE k \in 1..loaded /\ history'[k] = history[k]
    BY <1>1, <1>2, <2>1 DEF KnownInHist
  <2>2. CASE history'[k] = R
    BY <1>2, <1>5, <2>2
  <2> QED BY <1>9, <2>1, <2>2
<1>11. ASSUME NEW k \in 1..Len(history') PROVE ~Instance(history'[k], grantees)
  <2>1. CASE k \in 1..loaded /\ history'[k] = history[k]
    BY <1>1, <2>1 DEF NoOccupation
  <2>2. CASE history'[k] = R /\ Elements(T) # {}
    <3>1. PICK i \in DOMAIN R : TRUE
      BY <1>6, <2>2
    <3>2. \A q \in Positions : Elements(grantees[q]) = {}
      BY <1>3 DEF Elements
    <3>3. Occupants(R, grantees) = {}
      BY <3>1, <3>2 DEF Occupants
    <3> QED BY <1>1, <2>2, <3>3, InstanceIs DEF Shape
  <2> QED BY <1>9, <2>1, <2>2
<1>12. KnownInHist' /\ NoOccupation'
  BY <1>2, <1>10, <1>11 DEF KnownInHist, NoOccupation
<1>13. Ops' /\ Mons' /\ Waiting' /\ Loading'
  BY <1>1, <1>2, <1>3 DEF Ops, OpOK, Mons, MonOK, Waiting, Loading
<1>14. ASSUME NEW u \in Threads, NEW q \in Positions
       PROVE  Count(grantees[q], u) = Due(u, q)'
  <2>1. Count(grantees[q], u) = 0
    BY <1>3, CountEmpty
  <2>2. In(u, q)' = {}
    BY <1>1, <1>2, <1>3, NullAssumption DEF In, Mons, MonOK
  <2>3. Cardinality(In(u, q)') = 0
    BY <2>2, FS_EmptySet
  <2>4. Entering(u, q)' = 0
    BY <1>2, <1>3 DEF Entering
  <2> QED BY <2>1, <2>3, <2>4 DEF Due
<1>15. Counts'
  BY <1>2, <1>14 DEF Counts
<1> QED BY <1>8, <1>12, <1>13, <1>15 DEF Inv

(* Nothing but the reading happens before it is through. *)
LEMMA ReadsFirst ==
  ASSUME Inv, unread # <<>>, NEW t \in Threads
  PROVE  /\ ~Step(t) /\ ~SpuriousWakeup(t)
         /\ \A m \in Monitors : ~Inside(t, m) /\ ~Exit(t, m) /\ ~Wait(t, m)
         /\ \A m, p : ~Enter(t, m, p)
<1>1. pc[t] = "idle" /\ \A m \in Monitors : holder[m] = NULL
  BY DEF Inv, Loading
<1>2. ~Step(t) /\ ~SpuriousWakeup(t)
  BY <1>1 DEF Step, Retry, RealLock, After, RealUnlock, WaitEnds, SpuriousWakeup
<1>3. ASSUME NEW m \in Monitors PROVE ~Inside(t, m) /\ ~Exit(t, m) /\ ~Wait(t, m)
  BY <1>1, NullAssumption DEF Inside, Reenter, EnterFiltered, ExitNested, Exit, Wait, MayEnter
<1>4. \A m, p : ~Enter(t, m, p)
  BY DEF Enter, MayEnter
<1> QED BY <1>2, <1>3, <1>4

LEMMA StepKeeps == Inv /\ [Next]_vars => Inv'
<1> SUFFICES ASSUME Inv, [Next]_vars PROVE Inv'
  OBVIOUS
<1>1. CASE UNCHANGED vars
  <2>1. UNCHANGED <<pc, arg, holder, lockCount, next, acqPos, grantees, inHist, history,
                    loaded, unread, waitsOn>>
    BY <1>1 DEF vars, monVars, ragVars, histVars
  <2>2. Shape' /\ Ops' /\ Mons'
    BY <2>1 DEF Inv, Shape, Ops, OpOK, Mons, MonOK
  <2>3. Loading' /\ KnownInHist' /\ NoOccupation'
    BY <2>1 DEF Inv, Loading, KnownInHist, NoOccupation
  <2>4. Waiting'
    BY <2>1 DEF Inv, Waiting
  <2>5. Counts'
    BY <2>1 DEF Inv, Counts, Due, In, Entering
  <2> QED BY <2>2, <2>3, <2>4, <2>5 DEF Inv
<1>2. CASE LoadLine
  BY <1>2, LoadLineKeeps
<1>3. CASE Restart
  BY <1>3, RestartInv
<1>4. ASSUME NEW t \in Threads, After(t) PROVE Inv'
  BY <1>4, AfterKeeps
<1>5. ASSUME NEW t \in Threads, Local(t), Shape', Ops', Mons', unread = <<>> PROVE Inv'
  <2>1. Loading'
    BY <1>5 DEF Local, Loading
  <2> QED BY <1>5, <2>1, LocalKeeps DEF Inv
<1>6. ASSUME NEW t \in Threads, NEW m \in Monitors, NEW p \in Positions, Asks(t, m, p), unread = <<>>
      PROVE  Inv'
  <2>1. Loading'
    BY <1>6 DEF Asks, Loading
  <2> QED BY <1>6, <2>1, AsksShape, AsksHistory, AsksWaiting, AsksCounts DEF Inv
<1>7. ASSUME NEW t \in Threads, NEW m \in Monitors, Leaves(t, m), unread = <<>> PROVE Inv'
  <2>1. Loading'
    BY <1>7, LeavesEffect DEF Loading
  <2> QED BY <1>7, <2>1, LeavesShape, LeavesKeeps, LeavesCounts DEF Inv
<1>8. ASSUME NEW t \in Threads, Step(t) \/ Operation(t) \/ SpuriousWakeup(t) PROVE Inv'
  <2>1. CASE Alone(t)
    <3>1. unread = <<>>
      BY <2>1, ReadsFirst DEF Alone, Step
    <3> QED BY <1>5, <2>1, <3>1, AloneIsLocal
  <2>2. CASE After(t)
    BY <1>4, <2>2
  <2>3. CASE Retry(t)
    <3>1. unread = <<>>
      BY <2>3, ReadsFirst DEF Step
    <3>2. arg[t].mon \in Monitors /\ arg[t].pos \in Positions
      BY <2>3 DEF Retry, Inv, Ops, OpOK
    <3>3. Asks(t, arg[t].mon, arg[t].pos)
      BY <2>3, <3>2, RequestAsks
    <3> QED BY <1>6, <3>1, <3>2, <3>3
  <2>4. ASSUME NEW m \in Monitors, Inside(t, m) PROVE Inv'
    <3>1. unread = <<>>
      BY <2>4, ReadsFirst
    <3> QED BY <1>5, <2>4, <3>1, InsideIsLocal
  <2>5. ASSUME NEW m \in Monitors, NEW p \in Positions, Enter(t, m, p) PROVE Inv'
    <3>1. unread = <<>>
      BY <2>5, ReadsFirst
    <3>2. Asks(t, m, p)
      BY <2>5, RequestAsks
    <3> QED BY <1>6, <3>1, <3>2
  <2>6. ASSUME NEW m \in Monitors, Exit(t, m) \/ Wait(t, m) PROVE Inv'
    <3>1. unread = <<>>
      BY <2>6, ReadsFirst
    <3>2. Leaves(t, m)
      BY <2>6, ExitLeaves
    <3> QED BY <1>7, <3>1, <3>2
  <2> QED BY <1>8, <2>1, <2>2, <2>3, <2>4, <2>5, <2>6 DEF Step, Operation, Alone, Inside
<1> QED BY <1>1, <1>2, <1>3, <1>8 DEF Next

LEMMA InvAlways == Spec => []Inv
<1>1. Init => Inv
  <2>1. Init => Fresh
    BY DEF Init, Fresh
  <2> QED BY <2>1, FreshInv
<1> QED BY <1>1, StepKeeps, PTL DEF Spec

-----------------------------------------------------------------------------
(* Results *)

(* The lists of grantees hold one grant for every monitor a thread is in   *)
(* or entering at a position of the history, and nothing else: after() and *)
(* beforeUnlock() (dimmunix.c) give and take them exactly.                 *)
THEOREM GrantsAreExact == Spec => []GrantsExact
<1>1. Inv => GrantsExact
  <2> SUFFICES ASSUME Inv, NEW t \in Threads, NEW p \in Positions
               PROVE  Count(grantees[p], t) = Due(t, p)
    BY DEF GrantsExact, Count, Places, Due, In, Entering
  <2> QED BY DEF Inv, Counts
<1> QED BY <1>1, InvAlways, PTL

(* No template read at the start is ever occupied: before() makes the      *)
(* thread whose grant would complete it wait, and no other call adds one.  *)
THEOREM NeverOccupied == Spec => []NoOccupation
<1>1. Inv => NoOccupation
  BY DEF Inv
<1> QED BY <1>1, InvAlways, PTL

(* A deadlock that was in the history when the program started does not    *)
(* happen again: its threads would all have grants at its positions.       *)
THEOREM DeadlocksDoNotRecur == Spec => []Immune
<1>1. Inv => Immune
  <2> SUFFICES ASSUME Inv, NEW k \in 1..loaded,
                      NEW f \in [DOMAIN history[k] -> Threads],
                      NEW h \in [DOMAIN history[k] -> Monitors],
                      DeadlockAt(history[k], f, h)
               PROVE  FALSE
    BY DEF Immune
  <2> DEFINE T == history[k]
  <2>1. /\ Shape /\ Mons /\ Counts
        /\ Elements(T) \subseteq inHist \cup {NULL}
        /\ ~Instance(T, grantees)
    BY DEF Inv, KnownInHist, NoOccupation
  <2>2. /\ \A i, j \in DOMAIN T : f[i] = f[j] => i = j
        /\ \A i \in DOMAIN T : next[h[i]] = f[i] /\ acqPos[h[i]] = T[i]
    BY DEF DeadlockAt
  <2>3. \A i \in DOMAIN T : T[i] \in Elements(T) /\ h[i] \in Monitors /\ f[i] \in Threads
    BY DEF Elements
  <2>4. grantees \in Lists /\ acqPos \in [Monitors -> Positions \cup {NULL}]
    BY <2>1 DEF Shape
  <2> HIDE DEF T
  <2>5. ASSUME NEW i \in DOMAIN T PROVE T[i] \in Positions /\ f[i] \in Elements(grantees[T[i]])
    <3>1. acqPos[h[i]] # NULL
      BY <2>1, <2>2, <2>3, NullAssumption DEF Mons, MonOK
    <3>2. T[i] \in Positions /\ T[i] \in inHist
      BY <2>1, <2>2, <2>3, <2>4, <3>1
    <3>3. h[i] \in In(f[i], T[i])
      BY <2>2, <2>3 DEF In
    <3>4. Cardinality(In(f[i], T[i])) \in Nat /\ Cardinality(In(f[i], T[i])) # 0
      BY <3>3, InFinite, FS_EmptySet
    <3>5. Count(grantees[T[i]], f[i]) > 0
      <4>1. Count(grantees[T[i]], f[i]) = Due(f[i], T[i])
        BY <2>1, <2>3, <3>2 DEF Counts
      <4>2. Entering(f[i], T[i]) \in Nat
        BY DEF Entering
      <4> QED BY <3>2, <3>4, <4>1, <4>2 DEF Due
    <3>6. grantees[T[i]] \in Seq(Threads)
      BY <2>4, <3>2 DEF Lists
    <3> QED BY <3>2, <3>5, <3>6, CountedIsListed
  <2>6. f \in [DOMAIN T -> Threads]
    BY DEF T
  <2>7. f \in Occupants(T, grantees)
    BY <2>2, <2>5, <2>6 DEF Occupants
  <2> QED BY <2>1, <2>4, <2>7, InstanceIs
<1> QED BY <1>1, InvAlways, PTL

(* A thread sleeps in before() only as long as its request would complete  *)
(* the template it sleeps on: the release that ends that wakes it.         *)
THEOREM WakeupsKept == Spec => []NoLostWakeup
<1>1. Inv => NoLostWakeup
  BY DEF Inv, Waiting, NoLostWakeup
<1> QED BY <1>1, InvAlways, PTL

-----------------------------------------------------------------------------
(* Which instance a thread yields to *)

(* f comes before h in the order of the search, as far as index k. *)
Ahead(f, h, k) ==
  \/ \A j \in 1..k : f[j] = h[j]
  \/ \E i \in 1..k : f[i] < h[i] /\ \A j \in 1..(i - 1) : f[j] = h[j]

(* Among vectors of numbers there is a lexicographically least one. *)
LEMMA LexLeast ==
  ASSUME NEW n \in Nat, NEW P \in SUBSET [1..n -> Nat], P # {}
  PROVE  \E f \in P : \A h \in P \ {f} :
           \E i \in 1..n : f[i] < h[i] /\ \A j \in 1..(i - 1) : f[j] = h[j]
<1> DEFINE S == {k \in 0..n : \E f \in P : \A h \in P : Ahead(f, h, k)}
<1>1. 0 \in S
  BY DEF Ahead
<1>2. ASSUME NEW k \in 1..n, k - 1 \in S PROVE k \in S
  <2>1. PICK f \in P : \A h \in P : Ahead(f, h, k - 1)
    BY <1>2
  <2> DEFINE Same == {h \in P : \A j \in 1..(k - 1) : f[j] = h[j]}
             V == {h[k] : h \in Same}
  <2>2. V \in SUBSET Nat /\ f \in Same /\ f[k] \in V
    OBVIOUS
  <2>3. PICK v \in V : \A w \in V : v <= w
    BY <2>2, LeastNat
  <2>4. PICK e \in Same : e[k] = v
    BY <2>3
  <2>5. e \in P /\ \A j \in 1..(k - 1) : e[j] = f[j]
    BY <2>4
  <2>6. ASSUME NEW h \in P PROVE Ahead(e, h, k)
    <3>1. CASE \A j \in 1..(k - 1) : f[j] = h[j]
      <4>1. h \in Same /\ h[k] \in V /\ v <= h[k]
        BY <2>3, <3>1
      <4>2. \A j \in 1..(k - 1) : e[j] = h[j]
        BY <2>5, <3>1
      <4>3. e[k] \in Nat /\ h[k] \in Nat
        BY <2>5
      <4>4. CASE e[k] = h[k]
        <5>1. \A j \in 1..k : e[j] = h[j]
          BY <4>2, <4>4
        <5> QED BY <5>1 DEF Ahead
      <4>5. CASE e[k] < h[k]
        BY <4>2, <4>5 DEF Ahead
      <4> QED BY <2>4, <4>1, <4>3, <4>4, <4>5
    <3>2. CASE \E i \in 1..(k - 1) : f[i] < h[i] /\ \A j \in 1..(i - 1) : f[j] = h[j]
      <4>1. PICK i \in 1..(k - 1) : f[i] < h[i] /\ \A j \in 1..(i - 1) : f[j] = h[j]
        BY <3>2
      <4>2. i \in 1..k /\ e[i] < h[i]
        BY <2>5, <4>1
      <4>3. \A j \in 1..(i - 1) : j \in 1..(k - 1)
        OBVIOUS
      <4>4. \A j \in 1..(i - 1) : e[j] = h[j]
        BY <2>5, <4>1, <4>3
      <4> QED BY <4>2, <4>4 DEF Ahead
    <3>3. Ahead(f, h, k - 1)
      BY <2>1
    <3> QED BY <3>1, <3>2, <3>3 DEF Ahead
  <2> QED BY <2>5, <2>6
<1> HIDE DEF S
<1>3. n \in S
  <2>1. \A i \in 0..n : i \in S
    BY <1>1, <1>2, StepByStep
  <2> QED BY <2>1
<1>4. PICK f \in P : \A h \in P : Ahead(f, h, n)
  BY <1>3 DEF S
<1>5. ASSUME NEW h \in P \ {f}
      PROVE  \E i \in 1..n : f[i] < h[i] /\ \A j \in 1..(i - 1) : f[j] = h[j]
  <2>1. ~ \A j \in 1..n : f[j] = h[j]
    <3>1. f \in [1..n -> Nat] /\ h \in [1..n -> Nat]
      OBVIOUS
    <3> QED BY <1>5, <3>1
  <2> QED BY <1>4, <2>1 DEF Ahead
<1> QED BY <1>5

(* The instance a thread yields to is one. *)
LEMMA FirstInstanceFacts ==
  ASSUME NEW g \in Lists, NEW T, DOMAIN T = 1..Len(T), Len(T) \in Nat, Instance(T, g)
  PROVE  \A i \in DOMAIN T : T[i] \in Positions /\ FirstInstance(T, g)[i] \in Elements(g[T[i]])
<1> DEFINE n == Len(T)
           Least(f) == \A h \in Picks(T, g) \ {f} :
             \E i \in DOMAIN T : f[i] < h[i] /\ \A j \in 1..(i - 1) : f[j] = h[j]
           f0 == CHOOSE f \in Picks(T, g) : Least(f)
<1>1. Picks(T, g) # {} /\ Picks(T, g) \in SUBSET [1..n -> Nat]
  <2>1. ASSUME NEW f \in Picks(T, g) PROVE f \in [1..n -> Nat]
    <3>1. /\ f \in [DOMAIN T -> UNION {DOMAIN g[T[i]] : i \in {i \in DOMAIN T : T[i] \in Positions}}]
          /\ \A i \in DOMAIN T : T[i] \in Positions /\ f[i] \in DOMAIN g[T[i]]
      BY DEF Picks
    <3>2. \A i \in DOMAIN T : DOMAIN g[T[i]] \subseteq Nat
      <4>1. ASSUME NEW i \in DOMAIN T PROVE DOMAIN g[T[i]] \subseteq Nat
        <5>1. g[T[i]] \in Seq(Threads)
          BY <3>1 DEF Lists
        <5> QED BY <5>1
      <4> QED BY <4>1
    <3> QED BY <3>1, <3>2
  <2> QED BY <2>1 DEF Instance
<1>2. \E f \in Picks(T, g) : Least(f)
  <2>1. PICK P : P = Picks(T, g)
    OBVIOUS
  <2>2. PICK k \in Nat : k = n /\ DOMAIN T = 1..k
    OBVIOUS
  <2>3. P # {} /\ P \in SUBSET [1..k -> Nat]
    BY <1>1, <2>1, <2>2
  <2>4. \E f \in P : \A h \in P \ {f} :
          \E i \in 1..k : f[i] < h[i] /\ \A j \in 1..(i - 1) : f[j] = h[j]
    BY ONLY <2>3, LexLeast
  <2> QED BY <2>1, <2>2, <2>4
<1>3. f0 \in Picks(T, g)
  BY <1>2
<1>4. FirstInstance(T, g) = [i \in DOMAIN T |-> g[T[i]][f0[i]]]
  BY DEF FirstInstance
<1> HIDE DEF f0
<1>5. \A i \in DOMAIN T : T[i] \in Positions /\ f0[i] \in DOMAIN g[T[i]]
  BY <1>3 DEF Picks
<1> QED BY <1>4, <1>5 DEF Elements

(* The yields edges have their type, and lead to grants in force. *)
LEMMA YieldEdgesFacts ==
  ASSUME NEW t, NEW T, DOMAIN T = 1..Len(T), Len(T) \in Nat, NEW g \in Lists
  PROVE  /\ YieldEdges(t, T, g) \in Seq(Edges)
         /\ Instance(T, g) => \A e \in Elements(YieldEdges(t, T, g)) :
              e.pos \in Positions /\ e.thread \in Elements(g[e.pos])
<1> DEFINE th == FirstInstance(T, g)
           s == [i \in DOMAIN T |-> [thread |-> th[i], pos |-> T[i]]]
           S == {e \in Edges : e.thread # t}
           A == {[thread |-> th[i], pos |-> T[i]] : i \in DOMAIN T}
<1>1. s \in Seq(A)
  <2>1. s \in [1..Len(T) -> A]
    OBVIOUS
  <2> HIDE DEF s, A
  <2> QED BY <2>1
<1>2. YieldEdges(t, T, g) = Chosen(s, S)
  BY DEF YieldEdges
<1>3. Chosen(s, S) \in Seq(S) /\ Elements(Chosen(s, S)) = Elements(s) \cap S
  <2> HIDE DEF s, S, A
  <2> QED BY <1>1, ChosenFacts
<1>4. Chosen(s, S) \in Seq(Edges)
  <2>1. S \subseteq Edges
    OBVIOUS
  <2> HIDE DEF s, S
  <2> QED BY <1>3, <2>1, SeqMonotonic
<1>5. ASSUME Instance(T, g), NEW e \in Elements(Chosen(s, S))
      PROVE  e.pos \in Positions /\ e.thread \in Elements(g[e.pos])
  <2>1. e \in Elements(s)
    BY <1>3
  <2>2. PICK i \in DOMAIN T : e = [thread |-> th[i], pos |-> T[i]]
    BY <2>1 DEF Elements
  <2> HIDE DEF th
  <2>3. T[i] \in Positions /\ th[i] \in Elements(g[T[i]])
    BY <1>5, FirstInstanceFacts DEF th
  <2> QED BY <2>2, <2>3
<1> QED BY <1>2, <1>4, <1>5

-----------------------------------------------------------------------------
(* What is saved *)

(* Which thread asks for a monitor where. *)
Entered == {<<s[1], s[3]>> : s \in {s \in Sites : s[3] # NULL}}

(* Each place in the program belongs to one thread. *)
PlacesAreOwn == \A x, y \in Sites : x[3] = y[3] /\ x[3] # NULL => x[1] = y[1]

LEMMA EnteredFacts ==
  /\ \A t, m, p : <<t, m, p>> \in Sites /\ p # NULL => <<t, p>> \in Entered
  /\ \A x, p : <<x, p>> \in Entered =>
       x \in Threads /\ p \in Positions /\ \E s \in Sites : s[1] = x /\ s[3] = p
  /\ PlacesAreOwn => \A x, y, p : <<x, p>> \in Entered /\ <<y, p>> \in Entered => x = y
<1>1. \A s \in Sites : s[1] \in Threads /\ s[3] \in Positions \cup {NULL}
  BY SitesAssumption
<1>2. ASSUME NEW x, NEW p, <<x, p>> \in Entered
      PROVE  x \in Threads /\ p \in Positions /\ \E s \in Sites : s[1] = x /\ s[3] = p
  <2>1. PICK s \in Sites : s[3] # NULL /\ <<x, p>> = <<s[1], s[3]>>
    BY <1>2 DEF Entered
  <2> QED BY <1>1, <2>1
<1>3. ASSUME NEW t, NEW m, NEW p, <<t, m, p>> \in Sites, p # NULL PROVE <<t, p>> \in Entered
  <2>1. PICK s : s = <<t, m, p>>
    OBVIOUS
  <2>2. s \in Sites /\ s[1] = t /\ s[3] = p
    BY <1>3, <2>1
  <2> QED BY <1>3, <2>2 DEF Entered
<1>4. PlacesAreOwn => \A x, y, p : <<x, p>> \in Entered /\ <<y, p>> \in Entered => x = y
  BY <1>2, NullAssumption DEF PlacesAreOwn
<1> QED BY <1>2, <1>3, <1>4

(* Either nothing, or one template that the history h does not know, in    *)
(* memory and in the file f or among the unsaved u; its positions are the  *)
(* threads' own.                                                           *)
Saved(h, f, u, g, e, w) ==
  \/ g = h /\ e = f /\ w = u
  \/ \E T \in Seq(Positions) :
       /\ ~IsKnown(h, T) /\ g = Append(h, T)
       /\ (e = Append(f, T) /\ w = u) \/ (e = f /\ w = u \cup {T})
       /\ \A p \in Elements(T) : \E x : <<x, p>> \in Entered
       /\ PlacesAreOwn => Distinct(T)

Mem(h, f, u, b) == [history |-> h, file |-> f, unsaved |-> u, found |-> b]

IsMemory(M) == M = Mem(M.history, M.file, M.unsaved, M.found)

LEMMA MemoryIs ==
  ASSUME NEW h, NEW f, NEW u, NEW b, NEW M, M = Mem(h, f, u, b)
  PROVE  IsMemory(M) /\ M.history = h /\ M.file = f /\ M.unsaved = u /\ M.found = b
BY DEF IsMemory, Mem

LEMMA CheckedSaves ==
  ASSUME NEW G \in Graphs, Labelled(G, Entered), NEW t \in Threads, NEW h, NEW f, NEW u,
         NEW b \in BOOLEAN, NEW o \in BOOLEAN, NEW M, M = Checked(Mem(h, f, u, b), G, t, o)
  PROVE  /\ Saved(h, f, u, M.history, M.file, M.unsaved) /\ M.found \in BOOLEAN
         /\ IsMemory(M)
<1>1. PICK s : s = HasCycles(G, t)
  OBVIOUS
<1>2. s \in Searches /\ Sane(Entered, s)
  BY <1>1, HasCyclesFacts, NodeFacts
<1>3. PICK T : T = GetTemplate(s)
  OBVIOUS
<1>4. /\ T \in Seq(Positions)
      /\ \A p \in Elements(T) : \E x : <<x, p>> \in Entered
      /\ PlacesAreOwn => Distinct(T)
  BY <1>2, <1>3, TemplateType, TemplateFacts, EnteredFacts
<1>5. Saved(h, f, u, h, f, u)
  BY DEF Saved
<1>6. CASE ~s.found
  <2>1. M = Mem(h, f, u, b)
    BY <1>1, <1>6 DEF Checked
  <2> QED BY <1>5, <2>1, MemoryIs
<1>7. CASE s.found /\ IsKnown(h, T)
  <2>1. M = Mem(h, f, u, TRUE)
    BY <1>1, <1>3, <1>7 DEF Checked, Mem
  <2>2. PICK c \in BOOLEAN : M = Mem(h, f, u, c)
    BY <2>1
  <2> QED BY <1>5, <2>2, MemoryIs
<1>8. CASE s.found /\ ~IsKnown(h, T) /\ o
  <2>1. M = Mem(Append(h, T), Append(f, T), u, TRUE)
    BY <1>1, <1>3, <1>8 DEF Checked, Mem
  <2>2. PICK g, e : g = Append(h, T) /\ e = Append(f, T)
    OBVIOUS
  <2>3. Saved(h, f, u, g, e, u)
    BY <1>4, <1>8, <2>2 DEF Saved
  <2>4. PICK c \in BOOLEAN : M = Mem(g, e, u, c)
    BY <2>1, <2>2
  <2> QED BY ONLY <2>3, <2>4, MemoryIs
<1>9. CASE s.found /\ ~IsKnown(h, T) /\ ~o
  <2>1. M = Mem(Append(h, T), f, u \cup {T}, TRUE)
    BY <1>1, <1>3, <1>9 DEF Checked, Mem
  <2>2. PICK g, w : g = Append(h, T) /\ w = u \cup {T}
    OBVIOUS
  <2>3. Saved(h, f, u, g, f, w)
    BY <1>4, <1>9, <2>2 DEF Saved
  <2>4. PICK c \in BOOLEAN : M = Mem(g, f, w, c)
    BY <2>1, <2>2
  <2> QED BY ONLY <2>3, <2>4, MemoryIs
<1> QED BY <1>6, <1>7, <1>8, <1>9

-----------------------------------------------------------------------------
(* What the variables hold *)

Typed ==
  /\ yields \in [Threads -> Seq(Edges)]
  /\ inHist \subseteq Positions
  /\ history \in Seq(Seq(Labels))
  /\ unread \in Seq(Seq(Positions))
  /\ file \in Seq(Seq(Positions))
  /\ unsaved \subseteq Seq(Positions)
  /\ waitsOn \in [Threads -> 0..Len(history)]
  /\ found \in BOOLEAN

(* Every position in the graph and among the grants is with a thread that  *)
(* asks for a monitor there.                                               *)
Placed ==
  /\ \A t \in Threads : arg[t].pos # NULL => <<t, arg[t].pos>> \in Entered
  /\ \A m \in Monitors : acqPos[m] # NULL => <<next[m], acqPos[m]>> \in Entered
  /\ \A p \in Positions : \A u \in Elements(grantees[p]) : <<u, p>> \in Entered
  /\ \A t \in Threads : \A e \in Elements(yields[t]) : <<e.thread, e.pos>> \in Entered

YieldsPlaced(y) ==
  /\ y \in [Threads -> Seq(Edges)]
  /\ \A t \in Threads : \A e \in Elements(y[t]) : <<e.thread, e.pos>> \in Entered

LEMMA GraphFacts ==
  ASSUME Shape, Placed, NEW n \in [Nodes -> Nodes \cup {NULL}], \A m \in Monitors : n[m] = next[m],
         NEW y, YieldsPlaced(y)
  PROVE  LET G == [next |-> n, acqPos |-> acqPos, yields |-> y]
         IN  G \in Graphs /\ Labelled(G, Entered)
<1>1. acqPos \in [Monitors -> Labels]
  BY DEF Shape, Labels
<1> QED BY <1>1 DEF Graphs, Labelled, Placed, YieldsPlaced

LEMMA SavedTypes ==
  ASSUME NEW h \in Seq(Seq(Labels)), NEW f \in Seq(Seq(Positions)), NEW u \in SUBSET Seq(Positions),
         NEW g, NEW e, NEW w, Saved(h, f, u, g, e, w)
  PROVE  /\ g \in Seq(Seq(Labels)) /\ e \in Seq(Seq(Positions)) /\ w \subseteq Seq(Positions)
         /\ Len(h) \in Nat /\ Len(g) \in Nat /\ Len(h) <= Len(g)
<1>1. CASE g = h /\ e = f /\ w = u
  BY <1>1
<1>2. ASSUME NEW T \in Seq(Positions), g = Append(h, T),
             (e = Append(f, T) /\ w = u) \/ (e = f /\ w = u \cup {T})
      PROVE  /\ g \in Seq(Seq(Labels)) /\ e \in Seq(Seq(Positions)) /\ w \subseteq Seq(Positions)
             /\ Len(h) \in Nat /\ Len(g) \in Nat /\ Len(h) <= Len(g)
  <2>1. T \in Seq(Labels)
    BY SeqMonotonic DEF Labels
  <2>2. g \in Seq(Seq(Labels)) /\ Len(h) \in Nat /\ Len(g) \in Nat /\ Len(h) <= Len(g)
    BY <1>2, <2>1, AppendProperties
  <2>3. e \in Seq(Seq(Positions)) /\ w \subseteq Seq(Positions)
    <3>1. Append(f, T) \in Seq(Seq(Positions)) /\ u \cup {T} \subseteq Seq(Positions)
      OBVIOUS
    <3> QED BY <1>2, <3>1
  <2> QED BY <2>2, <2>3
<1> QED BY <1>1, <1>2 DEF Saved

-----------------------------------------------------------------------------
(* A request saves what it finds, in two looks at most. *)

Requests(t, m, p) == Enter(t, m, p) \/ (Retry(t) /\ m = arg[t].mon /\ p = arg[t].pos)

GraphNow(n, y) == [next |-> n, acqPos |-> acqPos, yields |-> y]

LEMMA AskedPlaced ==
  ASSUME Inv, Placed, NEW t \in Threads, NEW p \in Positions, <<t, p>> \in Entered
  PROVE  /\ Asked(t, p) \in Lists
         /\ \A q \in Positions : \A u \in Elements(Asked(t, p)[q]) : <<u, q>> \in Entered
<1>1. grantees \in Lists
  BY DEF Inv, Shape
<1>2. Asked(t, p) \in Lists
  BY <1>1, ListWith DEF Asked
<1>3. /\ Asked(t, p)[p] = Append(grantees[p], t)
      /\ \A q \in Positions \ {p} : Asked(t, p)[q] = grantees[q]
  BY <1>1 DEF Asked, Lists
<1>4. Elements(Append(grantees[p], t)) = Elements(grantees[p]) \cup {t}
  <2>1. grantees[p] \in Seq(Threads)
    BY <1>1 DEF Lists
  <2> QED BY <2>1, AppendElements
<1>5. ASSUME NEW q \in Positions, NEW u \in Elements(Asked(t, p)[q]) PROVE <<u, q>> \in Entered
  <2>1. CASE q = p
    BY <1>3, <1>4, <1>5, <2>1 DEF Placed
  <2>2. CASE q # p
    BY <1>3, <1>5, <2>2 DEF Placed
  <2> QED BY <2>1, <2>2
<1> QED BY <1>2, <1>5

LEMMA RequestPlace ==
  ASSUME Inv, Placed, NEW t \in Threads, NEW m \in Monitors, NEW p \in Positions, Requests(t, m, p)
  PROVE  <<t, p>> \in Entered
<1>1. CASE Enter(t, m, p)
  BY <1>1, EnteredFacts, NodeFacts DEF Enter, MayEnter
<1>2. CASE Retry(t) /\ p = arg[t].pos
  BY <1>2, NodeFacts DEF Placed
<1> QED BY <1>1, <1>2 DEF Requests

(* The edges of a thread that yields. *)
LEMMA YieldPlaced ==
  ASSUME Inv, Typed, Placed, NEW t \in Threads, NEW p \in Positions, <<t, p>> \in Entered,
         NEW T \in Seq(Labels), Instance(T, Asked(t, p))
  PROVE  YieldsPlaced([yields EXCEPT ![t] = YieldEdges(t, T, Asked(t, p))])
<1>1. PICK g \in Lists : g = Asked(t, p) /\ \A q \in Positions : \A u \in Elements(g[q]) : <<u, q>> \in Entered
  BY AskedPlaced
<1>2. PICK y : y = YieldEdges(t, T, g)
  OBVIOUS
<1>3. y \in Seq(Edges) /\ \A e \in Elements(y) : <<e.thread, e.pos>> \in Entered
  <2>1. DOMAIN T = 1..Len(T) /\ Len(T) \in Nat /\ Instance(T, g)
    BY <1>1
  <2> QED BY <1>1, <1>2, <2>1, YieldEdgesFacts
<1>4. yields \in [Threads -> Seq(Edges)]
      /\ \A u \in Threads : \A e \in Elements(yields[u]) : <<e.thread, e.pos>> \in Entered
  BY DEF Typed, Placed
<1>5. YieldsPlaced([yields EXCEPT ![t] = y])
  BY <1>3, <1>4 DEF YieldsPlaced
<1> QED BY <1>1, <1>2, <1>5

LEMMA RequestSaves ==
  ASSUME Inv, Typed, Placed, NEW t \in Threads, NEW m \in Monitors, NEW p \in Positions,
         Requests(t, m, p)
  PROVE  \E h, f, u :
           /\ h \in Seq(Seq(Labels)) /\ f \in Seq(Seq(Positions)) /\ u \in SUBSET Seq(Positions)
           /\ Saved(history, file, unsaved, h, f, u) /\ Saved(h, f, u, history', file', unsaved')
           /\ found' \in BOOLEAN
           /\ YieldsPlaced(yields')
           /\ waitsOn' = waitsOn \/ \E k \in 1..Len(h) : waitsOn' = [waitsOn EXCEPT ![t] = k]
           /\ Enter(t, m, p) =>
                \E o \in BOOLEAN :
                  LET M == Checked(Mem(history, file, unsaved, found), GraphNow(next', yields), t, o)
                  IN  h = M.history /\ f = M.file /\ u = M.unsaved
<1>18. PICK first \in BOOLEAN :
         (\E o1, o2 \in Opens : Request(t, m, p, first, o1, o2)) /\ (Enter(t, m, p) => first)
  BY DEF Enter, Retry, Requests
<1>19. PICK o1 \in Opens : \E o2 \in Opens : Request(t, m, p, first, o1, o2)
  BY <1>18
<1>20. PICK o2 \in Opens : Request(t, m, p, first, o1, o2)
  BY <1>19
<1>21. o1 \in BOOLEAN /\ o2 \in BOOLEAN
  BY OpensAssumption
<1>1. Request(t, m, p, first, o1, o2) /\ (Enter(t, m, p) => first)
  BY <1>18, <1>20
<1>2. Shape /\ <<t, p>> \in Entered
  BY RequestPlace DEF Inv
<1>3. next' \in [Nodes -> Nodes \cup {NULL}] /\ \A n \in Monitors : next'[n] = next[n]
  BY RequestAsks DEF Asks, Requests
<1>4. YieldsPlaced(yields)
  BY DEF YieldsPlaced, Typed, Placed
<1>5. /\ history \in Seq(Seq(Labels)) /\ file \in Seq(Seq(Positions))
      /\ unsaved \in SUBSET Seq(Positions) /\ found \in BOOLEAN
  BY DEF Typed
<1>6. t \in Nodes
  BY NodeFacts
<1> DEFINE n1 == IF first THEN [next EXCEPT ![t] = m] ELSE next
<1>7. next' = n1
  BY <1>1 DEF Request
<1>8. ASSUME NEW y, YieldsPlaced(y) PROVE GraphNow(n1, y) \in Graphs /\ Labelled(GraphNow(n1, y), Entered)
  BY <1>2, <1>3, <1>7, <1>8, GraphFacts DEF GraphNow, Inv
<1> DEFINE M0 == Mem(history, file, unsaved, found)
<1>9. PICK M1 : M1 = IF first THEN Checked(M0, GraphNow(n1, yields), t, o1) ELSE M0
  OBVIOUS
<1>10. /\ Saved(history, file, unsaved, M1.history, M1.file, M1.unsaved) /\ M1.found \in BOOLEAN
       /\ IsMemory(M1)
  <2>1. CASE first
    <3>1. M1 = Checked(M0, GraphNow(n1, yields), t, o1)
      BY <1>9, <2>1
    <3>2. PICK G \in Graphs : G = GraphNow(n1, yields) /\ Labelled(G, Entered)
      BY <1>4, <1>8
    <3>3. PICK h, f, u, b : h = history /\ f = file /\ u = unsaved /\ b = found
      OBVIOUS
    <3>4. M1 = Checked(Mem(h, f, u, b), G, t, o1) /\ b \in BOOLEAN
      BY <1>5, <3>1, <3>2, <3>3
    <3>5. Saved(h, f, u, M1.history, M1.file, M1.unsaved) /\ M1.found \in BOOLEAN
      BY ONLY <1>21, <3>2, <3>4, CheckedSaves, t \in Threads
    <3>6. IsMemory(M1)
      BY ONLY <1>21, <3>2, <3>4, CheckedSaves, t \in Threads
    <3> QED BY <3>3, <3>5, <3>6
  <2>2. CASE ~first
    <3>1. M1 = M0
      BY <1>9, <2>2
    <3>2. M1.history = history /\ M1.file = file /\ M1.unsaved = unsaved /\ M1.found = found
      BY <3>1 DEF Mem
    <3> QED BY <1>5, <3>1, <3>2, MemoryIs DEF Saved
  <2> QED BY <2>1, <2>2
<1>11. PICK h, f, u, b : h = M1.history /\ f = M1.file /\ u = M1.unsaved /\ b = M1.found
  OBVIOUS
<1>12. /\ M1 = Mem(h, f, u, b)
       /\ Saved(history, file, unsaved, h, f, u) /\ b \in BOOLEAN
       /\ Saved(h, f, u, h, f, u)
  BY <1>10, <1>11 DEF Saved, IsMemory
<1>13. h \in Seq(Seq(Labels)) /\ f \in Seq(Seq(Positions)) /\ u \in SUBSET Seq(Positions)
  BY <1>5, <1>12, SavedTypes
<1>14. Enter(t, m, p) =>
         \E o \in BOOLEAN :
           LET M == Checked(M0, GraphNow(next', yields), t, o)
           IN  h = M.history /\ f = M.file /\ u = M.unsaved
  BY <1>1, <1>7, <1>9, <1>11, <1>21
<1> DEFINE ks == Matching(h, Asked(t, p), p)
<1>15. \/ /\ Keep(M1) /\ waitsOn' = waitsOn
          /\ yields' = yields \/ yields' = [yields EXCEPT ![t] = <<>>]
       \/ \E k \in ks :
            /\ yields' = [yields EXCEPT ![t] = YieldEdges(t, h[k], Asked(t, p))]
            /\ Keep(Checked(M1, GraphNow(n1, yields'), t, o2))
            /\ waitsOn' = [waitsOn EXCEPT ![t] = k]
  <2> HIDE DEF ks
  <2>1. ks = Matching(M1.history, Asked(t, p), p)
    BY <1>11 DEF ks
  <2> QED BY <1>1, <1>9, <1>11, <2>1 DEF Request, GraphNow, Asked, Mem
<1>16. CASE /\ Keep(M1) /\ waitsOn' = waitsOn
            /\ yields' = yields \/ yields' = [yields EXCEPT ![t] = <<>>]
  <2>1. history' = h /\ file' = f /\ unsaved' = u /\ found' = b
    BY <1>11, <1>16 DEF Keep
  <2>2. YieldsPlaced(yields')
    <3>1. YieldsPlaced([yields EXCEPT ![t] = <<>>])
      BY <1>4 DEF YieldsPlaced, Elements
    <3> QED BY <1>4, <1>16, <3>1
  <2> QED BY <1>12, <1>13, <1>14, <1>16, <2>1, <2>2
<1>17. CASE \E k \in ks :
            /\ yields' = [yields EXCEPT ![t] = YieldEdges(t, h[k], Asked(t, p))]
            /\ Keep(Checked(M1, GraphNow(n1, yields'), t, o2))
            /\ waitsOn' = [waitsOn EXCEPT ![t] = k]
  <2>1. PICK k \in ks :
            /\ yields' = [yields EXCEPT ![t] = YieldEdges(t, h[k], Asked(t, p))]
            /\ Keep(Checked(M1, GraphNow(n1, yields'), t, o2))
            /\ waitsOn' = [waitsOn EXCEPT ![t] = k]
    BY <1>17
  <2>2. k \in 1..Len(h) /\ Instance(h[k], Asked(t, p)) /\ h[k] \in Seq(Labels)
    BY <1>13 DEF Matching
  <2>3. YieldsPlaced(yields')
    <3>1. PICK T \in Seq(Labels) : T = h[k]
      BY <2>2
    <3> QED BY <1>2, <2>1, <2>2, <3>1, YieldPlaced
  <2>4. PICK G \in Graphs : G = GraphNow(n1, yields') /\ Labelled(G, Entered)
    BY <1>8, <2>3
  <2>5. PICK M2 : M2 = Checked(M1, G, t, o2)
    OBVIOUS
  <2>6. Saved(h, f, u, M2.history, M2.file, M2.unsaved) /\ M2.found \in BOOLEAN
    BY ONLY <1>21, <1>12, <2>4, <2>5, CheckedSaves, t \in Threads
  <2>7. history' = M2.history /\ file' = M2.file /\ unsaved' = M2.unsaved /\ found' = M2.found
    BY <2>1, <2>4, <2>5 DEF Keep
  <2>8. Saved(h, f, u, history', file', unsaved') /\ found' \in BOOLEAN
    BY <2>6, <2>7
  <2> QED BY <1>12, <1>13, <1>14, <2>1, <2>2, <2>3, <2>8
<1> QED BY <1>15, <1>16, <1>17

-----------------------------------------------------------------------------
(* The steps of the specification, by what they do to what is saved *)

(* Thread t goes on without a request. *)
Calm(t) ==
  /\ Local(t) \/ After(t) \/ \E m \in Monitors : Leaves(t, m)
  /\ UNCHANGED <<yields, histVars, found>>
  /\ \A u \in Threads : arg'[u].pos \in {NULL, arg[u].pos} /\ waitsOn'[u] \in {0, waitsOn[u]}

LEMMA CalmSteps ==
  ASSUME Inv, NEW t \in Threads,
         Alone(t) \/ After(t) \/ \E m \in Monitors : Inside(t, m) \/ Exit(t, m) \/ Wait(t, m)
  PROVE  Calm(t)
<1> USE DEF histVars, ragVars, monVars
<1>1. /\ pc \in [Threads -> PCs] /\ arg \in [Threads -> Args] /\ waitsOn \in [Threads -> Nat]
      /\ NoArg.pos = NULL
  BY DEF Inv, Shape, NoArg
<1>2. CASE Alone(t)
  <2>1. Local(t)
    BY <1>2, AloneIsLocal
  <2>2. UNCHANGED <<yields, inHist, history, loaded, unread, file, unsaved, found>>
    BY <2>1 DEF Local
  <2>3. /\ arg' = arg \/ arg' = [arg EXCEPT ![t] = NoArg]
        /\ waitsOn' = waitsOn \/ waitsOn' = [waitsOn EXCEPT ![t] = 0]
    BY <1>2 DEF Alone, RealLock, RealUnlock, WaitEnds, SpuriousWakeup, Return
  <2> QED BY <1>1, <2>1, <2>2, <2>3 DEF Calm
<1>3. CASE After(t)
  <2>1. arg' = [arg EXCEPT ![t] = NoArg] /\ UNCHANGED <<yields, histVars, found, waitsOn>>
    BY <1>3 DEF After, Return
  <2> QED BY <1>1, <1>3, <2>1 DEF Calm
<1>4. ASSUME NEW m \in Monitors, Inside(t, m) PROVE Calm(t)
  <2>1. Local(t)
    BY <1>4, InsideIsLocal
  <2>2. UNCHANGED <<yields, inHist, history, loaded, unread, file, unsaved, found>>
    BY <2>1 DEF Local
  <2>3. waitsOn' = waitsOn
    BY <1>4 DEF Inside, Reenter, ExitNested, EnterFiltered
  <2>4. PICK a : a = [NoArg EXCEPT !.mon = m]
    OBVIOUS
  <2>6. a.pos = NULL
    BY <2>4 DEF NoArg
  <2>5. arg' = arg \/ arg' = [arg EXCEPT ![t] = a]
    BY <1>4, <2>4 DEF Inside, Reenter, ExitNested, EnterFiltered
  <2> QED BY <1>1, <2>1, <2>2, <2>3, <2>5, <2>6 DEF Calm
<1>5. ASSUME NEW m \in Monitors, Exit(t, m) \/ Wait(t, m) PROVE Calm(t)
  <2>1. Leaves(t, m)
    BY <1>5, ExitLeaves
  <2>2. PICK a : arg' = [arg EXCEPT ![t] = a] /\ a.pos = NULL
    BY <1>5 DEF Exit, Wait, NoArg
  <2>3. PICK l : BeforeUnlock(t, m, l)
    BY <1>5 DEF Exit, Wait
  <2>4. UNCHANGED <<yields, histVars, found>> /\ \A u \in Threads : waitsOn'[u] \in {0, waitsOn[u]}
    BY <2>3 DEF BeforeUnlock
  <2> QED BY <1>1, <2>1, <2>2, <2>4 DEF Calm
<1> QED BY <1>2, <1>3, <1>4, <1>5

LEMMA Kinds ==
  ASSUME Inv, Next
  PROVE  \/ LoadLine
         \/ Restart
         \/ \E t \in Threads : Calm(t)
         \/ \E t \in Threads, m \in Monitors, p \in Positions : Requests(t, m, p)
<1>1. ASSUME NEW t \in Threads, Step(t) \/ Operation(t) \/ SpuriousWakeup(t)
      PROVE  Calm(t) \/ \E m \in Monitors, p \in Positions : Requests(t, m, p)
  <2>1. CASE Retry(t)
    <3>1. arg[t].mon \in Monitors /\ arg[t].pos \in Positions
      BY <2>1 DEF Retry, Inv, Ops, OpOK
    <3> QED BY <2>1, <3>1 DEF Requests
  <2>2. CASE (Step(t) /\ ~Retry(t)) \/ SpuriousWakeup(t)
    BY <2>2, CalmSteps DEF Step, Alone
  <2>3. CASE Operation(t)
    BY <2>3, CalmSteps DEF Operation, Inside, Requests
  <2> QED BY <1>1, <2>1, <2>2, <2>3
<1> QED BY <1>1 DEF Next

LEMMA ReadBackType ==
  ASSUME NEW T \in Seq(Positions)
  PROVE  ReadBack(T) \in Seq(Labels) /\ Elements(T) \subseteq Positions
<1>1. /\ DOMAIN T = 1..Len(T) /\ Len(T) \in Nat
      /\ \A i \in 1..Len(T) : T[i] \in Positions
  OBVIOUS
<1>2. ReadBack(T) \in [1..Len(T) -> Labels]
  BY <1>1 DEF ReadBack, Labels
<1> QED BY <1>1, <1>2 DEF Elements

LEMMA TypedKeeps == Inv /\ Typed /\ Placed /\ Next => Typed'
<1> SUFFICES ASSUME Inv, Typed, Placed, Next PROVE Typed'
  OBVIOUS
<1>1. /\ yields \in [Threads -> Seq(Edges)] /\ inHist \subseteq Positions
      /\ history \in Seq(Seq(Labels)) /\ unread \in Seq(Seq(Positions)) /\ file \in Seq(Seq(Positions))
      /\ waitsOn \in [Threads -> 0..Len(history)] /\ found \in BOOLEAN
      /\ unsaved \in SUBSET Seq(Positions)
  BY DEF Typed
<1>3. CASE Restart
  <2>1. /\ unread' = file /\ file' = file /\ history' = <<>> /\ inHist' = {} /\ ~found' /\ unsaved' = {}
        /\ yields' = [t \in Threads |-> <<>>] /\ waitsOn' = [t \in Threads |-> 0]
    BY <1>3 DEF Restart
  <2>2. Len(history') = 0
    BY <2>1
  <2>3. found' \in BOOLEAN
    BY <1>3 DEF Restart
  <2> QED BY <1>1, <2>1, <2>2, <2>3 DEF Typed
<1>4. CASE LoadLine
  <2>1. PICK T : T = Head(unread)
    OBVIOUS
  <2>2. /\ unread # <<>> /\ unread' = Tail(unread)
        /\ history' = history \/ history' = Append(history, ReadBack(T))
        /\ inHist' = inHist \cup (Elements(T) \ Native)
        /\ UNCHANGED <<yields, file, unsaved, waitsOn, found>>
    BY <1>4, <2>1 DEF LoadLine, AddToHistory, ragVars
  <2>3. T \in Seq(Positions) /\ unread' \in Seq(Seq(Positions))
    BY <1>1, <2>1, <2>2
  <2>4. PICK R : R = ReadBack(T) /\ R \in Seq(Labels) /\ Elements(T) \subseteq Positions
    BY <2>3, ReadBackType
  <2>5. history' \in Seq(Seq(Labels)) /\ Len(history) \in Nat /\ Len(history') \in Nat
        /\ Len(history) <= Len(history')
    <3>1. CASE history' = history
      BY <1>1, <3>1
    <3>2. CASE history' = Append(history, R)
      BY <1>1, <2>4, <3>2, AppendProperties
    <3> QED BY <2>2, <2>4, <3>1, <3>2
  <2>6. waitsOn' \in [Threads -> 0..Len(history')]
    BY <1>1, <2>2, <2>5
  <2> QED BY <1>1, <2>2, <2>3, <2>4, <2>5, <2>6 DEF Typed
<1>5. ASSUME NEW t \in Threads, Calm(t) PROVE Typed'
  <2>1. UNCHANGED <<yields, inHist, history, unread, file, unsaved, found>>
    BY <1>5 DEF Calm, histVars
  <2>2. \A u \in Threads : waitsOn'[u] \in 0..Len(history)
    <3>1. Len(history) \in Nat
      BY <1>1
    <3>2. PICK n \in Nat : n = Len(history)
      BY <3>1
    <3>3. \A u \in Threads : waitsOn[u] \in 0..n /\ waitsOn'[u] \in {0, waitsOn[u]}
      BY <1>1, <1>5, <3>2 DEF Calm
    <3> QED BY <3>2, <3>3
  <2>3. waitsOn' \in [Threads -> Nat]
    BY StepKeeps DEF Inv, Shape
  <2> QED BY <1>1, <2>1, <2>2, <2>3 DEF Typed
<1>6. ASSUME NEW t \in Threads, NEW m \in Monitors, NEW p \in Positions, Requests(t, m, p)
      PROVE  Typed'
  <2>1. PICK h, f, u :
           /\ h \in Seq(Seq(Labels)) /\ f \in Seq(Seq(Positions)) /\ u \in SUBSET Seq(Positions)
           /\ Saved(history, file, unsaved, h, f, u) /\ Saved(h, f, u, history', file', unsaved')
           /\ found' \in BOOLEAN
           /\ YieldsPlaced(yields')
           /\ waitsOn' = waitsOn \/ \E k \in 1..Len(h) : waitsOn' = [waitsOn EXCEPT ![t] = k]
    BY <1>6, RequestSaves
  <2>2. inHist' = inHist /\ unread' = unread
    BY <1>6, RequestAsks DEF Asks, Requests
  <2>3. /\ history' \in Seq(Seq(Labels)) /\ file' \in Seq(Seq(Positions))
        /\ unsaved' \subseteq Seq(Positions)
        /\ Len(history) \in Nat /\ Len(h) \in Nat /\ Len(history') \in Nat
        /\ Len(history) <= Len(h) /\ Len(h) <= Len(history')
    BY <1>1, <2>1, SavedTypes
  <2>4. waitsOn' \in [Threads -> 0..Len(history')]
    <3>1. CASE waitsOn' = waitsOn
      BY <1>1, <2>3, <3>1
    <3>2. ASSUME NEW k \in 1..Len(h), waitsOn' = [waitsOn EXCEPT ![t] = k]
          PROVE  waitsOn' \in [Threads -> 0..Len(history')]
      <4>1. k \in 0..Len(history') /\ \A v \in Threads : waitsOn[v] \in 0..Len(history')
        BY <1>1, <2>3
      <4> QED BY <1>1, <3>2, <4>1
    <3> QED BY <2>1, <3>1, <3>2
  <2> QED BY <1>1, <2>1, <2>2, <2>3, <2>4 DEF Typed, YieldsPlaced
<1> QED BY <1>3, <1>4, <1>5, <1>6, Kinds

LEMMA PlacedKeeps == Inv /\ Typed /\ Placed /\ Next => Placed'
<1> SUFFICES ASSUME Inv, Typed, Placed, Next PROVE Placed'
  OBVIOUS
<1>1. /\ \A t \in Threads : arg[t].pos # NULL => <<t, arg[t].pos>> \in Entered
      /\ \A m \in Monitors : acqPos[m] # NULL => <<next[m], acqPos[m]>> \in Entered
      /\ \A p \in Positions : \A u \in Elements(grantees[p]) : <<u, p>> \in Entered
      /\ \A t \in Threads : \A e \in Elements(yields[t]) : <<e.thread, e.pos>> \in Entered
  BY DEF Placed
<1>2. Shape
  BY DEF Inv
<1>3. CASE Restart
  <2>1. \A t \in Threads : arg'[t].pos = NULL
    BY <1>3 DEF Restart, NoArg
  <2>2. \A m \in Monitors : acqPos'[m] = NULL
    BY <1>3 DEF Restart
  <2>3. /\ \A p \in Positions : Elements(grantees'[p]) = {}
        /\ \A t \in Threads : Elements(yields'[t]) = {}
    BY <1>3 DEF Restart, Elements
  <2> QED BY <2>1, <2>2, <2>3 DEF Placed
<1>4. CASE LoadLine
  BY <1>1, <1>4 DEF LoadLine, ragVars, Placed
<1>5. ASSUME NEW t \in Threads, Calm(t) PROVE Placed'
  <2>1. yields' = yields /\ \A u \in Threads : arg'[u].pos \in {NULL, arg[u].pos}
    BY <1>5 DEF Calm
  <2>2. ASSUME NEW u \in Threads, arg'[u].pos # NULL PROVE <<u, arg'[u].pos>> \in Entered
    <3>1. arg'[u].pos = arg[u].pos
      BY <2>1, <2>2
    <3> QED BY <1>1, <2>2, <3>1
  <2>3. CASE Local(t)
    <3>1. UNCHANGED <<acqPos, next, grantees>>
      BY <2>3 DEF Local
    <3> QED BY <1>1, <2>1, <2>2, <3>1 DEF Placed
  <2>4. CASE After(t)
    <3>1. PICK m, p : m = arg[t].mon /\ p = arg[t].pos
      OBVIOUS
    <3>2. /\ acqPos' = [acqPos EXCEPT ![m] = p]
          /\ next' = IF p = NULL THEN next ELSE [next EXCEPT ![m] = t, ![t] = NULL]
          /\ grantees' = grantees
      BY <2>4, <3>1 DEF After, Acquired
    <3>3. m \in Monitors
      BY <2>4, <3>1 DEF After, Inv, Ops, OpOK
    <3>4. \A n \in Monitors : n \in Nodes /\ n # t
      BY NodeFacts
    <3>5. ASSUME NEW n \in Monitors, acqPos'[n] # NULL PROVE <<next'[n], acqPos'[n]>> \in Entered
      <4>1. CASE n = m
        <5>1. acqPos'[n] = p /\ p # NULL
          BY <1>2, <3>2, <3>3, <3>5, <4>1 DEF Shape
        <5>2. next'[n] = t
          BY <1>2, <3>2, <3>3, <3>4, <4>1, <5>1 DEF Shape
        <5> QED BY <1>1, <3>1, <5>1, <5>2
      <4>2. CASE n # m
        <5>1. acqPos'[n] = acqPos[n] /\ next'[n] = next[n]
          BY <1>2, <3>2, <3>3, <3>4, <4>2 DEF Shape
        <5> QED BY <1>1, <3>5, <5>1
      <4> QED BY <4>1, <4>2
    <3> QED BY <1>1, <2>1, <2>2, <3>2, <3>5 DEF Placed
  <2>5. ASSUME NEW m \in Monitors, Leaves(t, m) PROVE Placed'
    <3>1. PICK p : p = acqPos[m]
      OBVIOUS
    <3>2. /\ acqPos' = [acqPos EXCEPT ![m] = NULL]
          /\ next' = IF p = NULL THEN next ELSE [next EXCEPT ![m] = NULL]
          /\ grantees' = IF p # NULL /\ p \in inHist THEN Ungrant(grantees, p, t) ELSE grantees
      BY <2>5, <3>1, LeavesEffect
    <3>3. ASSUME NEW n \in Monitors, acqPos'[n] # NULL PROVE <<next'[n], acqPos'[n]>> \in Entered
      <4>1. n # m /\ acqPos'[n] = acqPos[n]
        BY <1>2, <3>2, <3>3 DEF Shape
      <4>2. next'[n] = next[n]
        BY <1>2, <3>2, <4>1, NodeFacts DEF Shape
      <4> QED BY <1>1, <3>3, <4>1, <4>2
    <3>4. \A q \in Positions : Elements(grantees'[q]) \subseteq Elements(grantees[q])
      <4>1. grantees \in Lists /\ (p # NULL => p \in Positions)
        BY <1>2, <2>5, <3>1 DEF Shape
      <4> QED BY <3>2, <4>1, ListWithout
    <3> QED BY <1>1, <2>1, <2>2, <3>3, <3>4 DEF Placed
  <2> QED BY <1>5, <2>3, <2>4, <2>5 DEF Calm
<1>6. ASSUME NEW t \in Threads, NEW m \in Monitors, NEW p \in Positions, Requests(t, m, p)
      PROVE  Placed'
  <2>1. <<t, p>> \in Entered
    BY <1>6, RequestPlace
  <2>2. Asks(t, m, p)
    BY <1>6, RequestAsks DEF Requests
  <2>3. /\ arg'[t].pos = p /\ \A u \in Threads \ {t} : arg'[u] = arg[u]
        /\ acqPos' = acqPos /\ \A n \in Monitors : next'[n] = next[n]
    BY <2>2 DEF Asks
  <2>4. \A q \in Positions : \A u \in Elements(grantees'[q]) : <<u, q>> \in Entered
    <3>1. CASE grantees' = grantees
      BY <1>1, <3>1
    <3>2. CASE grantees' = Asked(t, p)
      BY <2>1, <3>2, AskedPlaced
    <3>3. CASE grantees' = Ungrant(Asked(t, p), p, t)
      <4>1. Asked(t, p) \in Lists
        BY <2>1, AskedPlaced
      <4>2. \A q \in Positions : Elements(grantees'[q]) \subseteq Elements(Asked(t, p)[q])
        BY <3>3, <4>1, ListWithout
      <4> QED BY <2>1, <4>2, AskedPlaced
    <3> QED BY <2>2, <3>1, <3>2, <3>3 DEF Asks, Unasked, Granted, Yielding
  <2>5. \A u \in Threads : \A e \in Elements(yields'[u]) : <<e.thread, e.pos>> \in Entered
    BY <1>6, RequestSaves DEF YieldsPlaced
  <2> QED BY <1>1, <2>1, <2>3, <2>4, <2>5 DEF Placed
<1> QED BY <1>3, <1>4, <1>5, <1>6, Kinds

Types == Typed /\ Placed

LEMMA TypesStutter == UNCHANGED vars /\ Types => Types'
BY DEF Types, Typed, Placed, vars, monVars, ragVars, histVars

LEMMA TypesAtFirst == Init => Types
<1> SUFFICES ASSUME Init PROVE Types
  OBVIOUS
<1>1. /\ unread = FirstFile /\ file = FirstFile /\ history = <<>> /\ inHist = {} /\ ~found
      /\ unsaved = {}
      /\ yields = [t \in Threads |-> <<>>] /\ waitsOn = [t \in Threads |-> 0]
      /\ arg = [t \in Threads |-> NoArg] /\ acqPos = [m \in Monitors |-> NULL]
      /\ grantees = [p \in Positions |-> <<>>] /\ found \in BOOLEAN
  BY DEF Init
<1>2. Len(history) = 0 /\ history \in Seq(Seq(Labels))
  BY <1>1
<1>3. Typed
  BY <1>1, <1>2, FileAssumption DEF Typed
<1>4. Placed
  BY <1>1 DEF Placed, NoArg, Elements
<1> QED BY <1>3, <1>4 DEF Types

LEMMA TypesAlways == Spec => []Types
<1>1. Inv /\ Types /\ [Next]_vars => Types'
  BY TypedKeeps, PlacedKeeps, TypesStutter DEF Types
<1> QED BY <1>1, TypesAtFirst, InvAlways, PTL DEF Spec

(* Every variable keeps its type: what the search for cycles returns is a  *)
(* list of positions, and a thread sleeps on a template there is.          *)
THEOREM TypeCorrect == Spec => []TypeOK
<1>1. Inv /\ Types => TypeOK
  BY DEF Inv, Shape, Args, Lists, Types, Typed, TypeOK, Labels
<1> QED BY <1>1, InvAlways, TypesAlways, PTL

-----------------------------------------------------------------------------
(* Deadlocks of two threads *)

(* Where Template_equalsFrom looks in its second template. *)
HasLooks(n, start) ==
  \E j : j = [i \in 0..n |-> IF i = 0 THEN start ELSE TemplateNext(start, j[i - 1], n)]

LEMMA LooksExist ==
  ASSUME NEW start
  PROVE  HasLooks(2, start)
<1> DEFINE a == TemplateNext(start, start, 2)
           b == TemplateNext(start, a, 2)
<1>1. PICK j : j = [i \in 0..2 |-> IF i = 0 THEN start ELSE IF i = 1 THEN a ELSE b]
  OBVIOUS
<1>2. j[0] = start /\ j[1] = a /\ j[2] = b
  BY <1>1
<1>3. ASSUME NEW i \in 0..2
      PROVE  j[i] = IF i = 0 THEN start ELSE TemplateNext(start, j[i - 1], 2)
  <2>1. i = 0 \/ (i = 1 /\ i - 1 = 0) \/ (i = 2 /\ i - 1 = 1)
    OBVIOUS
  <2> QED BY <1>2, <2>1
<1> HIDE DEF a, b
<1>4. j = [i \in 0..2 |-> IF i = 0 THEN start ELSE TemplateNext(start, j[i - 1], 2)]
  BY <1>1, <1>3
<1> QED BY <1>4 DEF HasLooks

(* Two templates of two positions are taken for equal if they are the same *)
(* turned round, or the one has the first position of the other twice.     *)
LEMMA PairEquals ==
  ASSUME NEW x, NEW y, Len(x) = 2, Len(y) = 2, TemplateEquals(x, y)
  PROVE  (x[1] = y[2] /\ x[2] = y[1]) \/ (x[1] = y[1] /\ x[2] = y[1])
<1>1. PICK start \in 0..1 : EqualsFrom(x, y, start)
  BY DEF TemplateEquals
<1>2. \E j : j = [i \in 0..2 |-> IF i = 0 THEN start ELSE TemplateNext(start, j[i - 1], 2)]
  BY LooksExist DEF HasLooks
<1>3. PICK j : /\ j = [i \in 0..2 |-> IF i = 0 THEN start ELSE TemplateNext(start, j[i - 1], 2)]
               /\ \A i \in 0..1 : x[i + 1] = y[j[i] + 1]
  BY <1>1, <1>2 DEF EqualsFrom
<1>4. \A i \in 0..2 : j[i] = IF i = 0 THEN start ELSE TemplateNext(start, j[i - 1], 2)
  BY ONLY <1>3
<1>5. j[0] = start /\ j[1] = TemplateNext(start, start, 2)
  BY ONLY <1>4
<1>6. x[1] = y[j[0] + 1] /\ x[2] = y[j[1] + 1]
  BY <1>3
<1>7. CASE start = 0
  BY <1>5, <1>6, <1>7 DEF TemplateNext
<1>8. CASE start = 1
  BY <1>5, <1>6, <1>8 DEF TemplateNext
<1> QED BY <1>7, <1>8

(* The other way round: a template is equal to the one turned round. *)
LEMMA PairSwap ==
  ASSUME NEW a, NEW b
  PROVE  TemplateEquals(<<a, b>>, <<b, a>>)
<1>1. PICK x, y : x = <<a, b>> /\ y = <<b, a>>
  OBVIOUS
<1>2. Len(x) = 2 /\ Len(y) = 2 /\ x[1] = a /\ x[2] = b /\ y[1] = b /\ y[2] = a
  BY <1>1
<1>3. PICK j : j = [i \in 0..2 |-> IF i = 0 THEN 1 ELSE TemplateNext(1, j[i - 1], 2)]
  BY LooksExist DEF HasLooks
<1>4. \A i \in 0..2 : j[i] = IF i = 0 THEN 1 ELSE TemplateNext(1, j[i - 1], 2)
  BY ONLY <1>3
<1>5. j[0] = 1 /\ j[1] = TemplateNext(1, 1, 2)
  BY ONLY <1>4
<1>6. j[1] = 0
  BY <1>5 DEF TemplateNext
<1>7. \A i \in 0..1 : x[i + 1] = y[j[i] + 1]
  BY <1>2, <1>5, <1>6
<1>8. EqualsFrom(x, y, 1)
  BY <1>2, <1>3, <1>7 DEF EqualsFrom
<1>9. TemplateEquals(x, y)
  BY <1>2, <1>8 DEF TemplateEquals
<1> QED BY <1>1, <1>9

(* What memory has and the program can still write: in the file, or not    *)
(* written because it could not be opened.                                 *)
Noted(f, u) == Elements(f) \cup u

(* What is known without a hole is among F. *)
InFile(h, F) == \A k \in DOMAIN h : NULL \notin Elements(h[k]) => h[k] \in F

LEMMA SavedGrows ==
  ASSUME NEW h, NEW f \in Seq(Seq(Positions)), NEW u, NEW g, NEW e, NEW w, Saved(h, f, u, g, e, w)
  PROVE  Elements(f) \subseteq Elements(e)
<1>1. CASE e = f
  BY <1>1
<1>2. ASSUME NEW T, e = Append(f, T) PROVE Elements(f) \subseteq Elements(e)
  <2>1. PICK S : S = Seq(Positions) /\ f \in Seq(S)
    OBVIOUS
  <2>2. Elements(Append(f, T)) = Elements(f) \cup {T}
    BY ONLY <2>1, AppendListed
  <2> QED BY <1>2, <2>2
<1> QED BY <1>1, <1>2 DEF Saved

LEMMA SavedFiled ==
  ASSUME NEW h \in Seq(Seq(Labels)), NEW f \in Seq(Seq(Positions)), NEW u,
         NEW g, NEW e, NEW w, Saved(h, f, u, g, e, w)
  PROVE  /\ InFile(h, Noted(f, u)) => InFile(g, Noted(e, w))
         /\ Noted(f, u) \subseteq Noted(e, w)
         /\ \A T \in Noted(e, w) \ Noted(f, u) : PlacesAreOwn => Distinct(T)
<1>1. CASE g = h /\ e = f /\ w = u
  BY <1>1
<1>2. ASSUME NEW T \in Seq(Positions), g = Append(h, T),
             (e = Append(f, T) /\ w = u) \/ (e = f /\ w = u \cup {T}),
             PlacesAreOwn => Distinct(T)
      PROVE  /\ InFile(h, Noted(f, u)) => InFile(g, Noted(e, w))
             /\ Noted(f, u) \subseteq Noted(e, w)
             /\ \A S \in Noted(e, w) \ Noted(f, u) : PlacesAreOwn => Distinct(S)
  <2>1. Noted(e, w) = Noted(f, u) \cup {T}
    <3>1. PICK S : S = Seq(Positions) /\ f \in Seq(S)
      OBVIOUS
    <3>2. Elements(Append(f, T)) = Elements(f) \cup {T}
      BY ONLY <3>1, AppendListed
    <3> QED BY <1>2, <3>2 DEF Noted
  <2>2. /\ Len(h) \in Nat /\ DOMAIN h = 1..Len(h) /\ DOMAIN g = 1..(Len(h) + 1)
        /\ \A i \in 1..Len(h) : g[i] = h[i]
        /\ g[Len(h) + 1] = T
    BY <1>2, AppendElements
  <2>3. ASSUME InFile(h, Noted(f, u)) PROVE InFile(g, Noted(e, w))
    <3> SUFFICES ASSUME NEW k \in 1..(Len(h) + 1), NULL \notin Elements(g[k])
                 PROVE  g[k] \in Noted(e, w)
      BY <2>2 DEF InFile
    <3>1. CASE k \in 1..Len(h)
      <4>1. k \in DOMAIN h /\ g[k] = h[k]
        BY <2>2, <3>1
      <4> QED BY <2>1, <2>3, <4>1 DEF InFile
    <3>2. CASE k = Len(h) + 1
      BY <2>1, <2>2, <3>2
    <3> QED BY <2>2, <3>1, <3>2
  <2> QED BY <1>2, <2>1, <2>3
<1> QED BY <1>1, <1>2 DEF Saved

(* Either way round, <<a, b>> would be taken for known. *)
Pair(F, a, b) == \E T \in F : TemplateEquals(T, <<a, b>>) \/ TemplateEquals(T, <<b, a>>)

LEMMA PairGrows ==
  ASSUME NEW F, NEW E, F \subseteq E, NEW a, NEW b, Pair(F, a, b)
  PROVE  Pair(E, a, b)
BY DEF Pair

(* A deadlock that is not added because it is known is there already. *)
LEMMA KnownPair ==
  ASSUME NEW a \in Positions, NEW b \in Positions, NEW T, T = <<a, b>>,
         NEW h \in Seq(Seq(Labels)), NEW F, InFile(h, F), IsKnown(h, T)
  PROVE  Pair(F, a, b)
<1>1. PICK k \in DOMAIN h : TemplateEquals(h[k], T)
  BY DEF IsKnown
<1>2. PICK x \in Seq(Labels) : x = h[k]
  OBVIOUS
<1>3. Len(T) = 2 /\ T[1] = a /\ T[2] = b
  OBVIOUS
<1>4. Len(x) = 2 /\ TemplateEquals(x, T)
  BY <1>1, <1>2, <1>3 DEF TemplateEquals
<1>5. (x[1] = b /\ x[2] = a) \/ (x[1] = a /\ x[2] = a)
  BY <1>3, <1>4, PairEquals
<1>6. NULL \notin Elements(x)
  <2>1. DOMAIN x = 1..2
    BY <1>4
  <2> QED BY <1>5, <2>1, NodeFacts DEF Elements
<1>7. x \in F
  BY <1>2, <1>6 DEF InFile
<1> QED BY <1>4, <1>7 DEF Pair

(* What m2's owner asks for closes the cycle, and the cycle is recorded.   *)
LEMMA CrossingIsSaved ==
  ASSUME NEW G \in Graphs, NEW t, NEW m, NEW n, NEW l, Crossed(G, t, m, n, l),
         NEW a \in Positions, NEW b \in Positions, G.acqPos[m] = a, G.acqPos[l] = b,
         NEW h \in Seq(Seq(Labels)), NEW f \in Seq(Seq(Positions)), NEW u, NEW c, NEW o \in BOOLEAN,
         InFile(h, Noted(f, u)),
         NEW M, M = Checked(Mem(h, f, u, c), G, t, o)
  PROVE  Pair(Noted(M.file, M.unsaved), a, b)
<1>1. PICK s, T : s = HasCycles(G, t) /\ T = GetTemplate(s)
  OBVIOUS
<1>2. s.found /\ T = <<a, b>>
  BY <1>1, CrossedTemplate
<1>3. CASE IsKnown(h, T)
  <2>1. M = Mem(h, f, u, TRUE)
    BY <1>1, <1>2, <1>3 DEF Checked, Mem
  <2>2. M.file = f /\ M.unsaved = u
    BY <2>1 DEF Mem
  <2> QED BY <1>2, <1>3, <2>2, KnownPair
<1>4. CASE ~IsKnown(h, T)
  <2>1. T \in Noted(M.file, M.unsaved)
    <3>1. CASE o
      <4>1. M = Mem(Append(h, T), Append(f, T), u, TRUE)
        BY <1>1, <1>2, <1>4, <3>1 DEF Checked, Mem
      <4>2. M.file = Append(f, T)
        BY <4>1 DEF Mem
      <4>3. PICK S : S = Seq(Positions) /\ f \in Seq(S)
        OBVIOUS
      <4>4. Elements(Append(f, T)) = Elements(f) \cup {T}
        BY ONLY <4>3, AppendListed
      <4> QED BY <4>2, <4>4 DEF Noted
    <3>2. CASE ~o
      <4>1. M = Mem(Append(h, T), f, u \cup {T}, TRUE)
        BY <1>1, <1>2, <1>4, <3>2 DEF Checked, Mem
      <4>2. M.unsaved = u \cup {T}
        BY <4>1 DEF Mem
      <4> QED BY <4>2 DEF Noted
    <3> QED BY <3>1, <3>2
  <2>2. TemplateEquals(T, <<b, a>>)
    BY <1>2, PairSwap
  <2> QED BY <2>1, <2>2 DEF Pair
<1> QED BY <1>3, <1>4

Filed == InFile(history, Noted(file, unsaved)) /\ Elements(unread) \subseteq Elements(file)

LEMMA KnownIs ==
  DeadlockKnown <=>
    \A m1, m2 \in Monitors :
      CrossedAt(m1, m2) => Pair(Noted(file, unsaved), acqPos[m1], acqPos[m2])
BY DEF DeadlockKnown, Pair, Noted

LEMMA FiledKeeps ==
  ASSUME Inv, Types, Filed, Next
  PROVE  Filed' /\ (Restart \/ Noted(file, unsaved) \subseteq Noted(file, unsaved)')
<1>1. /\ history \in Seq(Seq(Labels)) /\ file \in Seq(Seq(Positions)) /\ unread \in Seq(Seq(Positions))
      /\ InFile(history, Noted(file, unsaved)) /\ Elements(unread) \subseteq Elements(file)
      /\ unsaved \in SUBSET Seq(Positions)
  BY DEF Types, Typed, Filed
<1>2. CASE Restart
  <2>1. unread' = file /\ file' = file /\ DOMAIN history' = {}
    BY <1>2 DEF Restart
  <2> QED BY <1>1, <1>2, <2>1 DEF Filed, InFile
<1>3. CASE LoadLine
  <2>1. PICK T, R : T = Head(unread) /\ R = ReadBack(T)
    OBVIOUS
  <2>2. /\ unread # <<>> /\ unread' = Tail(unread) /\ file' = file /\ unsaved' = unsaved
        /\ history' = history \/ history' = Append(history, R)
    BY <1>3, <2>1 DEF LoadLine, AddToHistory
  <2>3. T \in Elements(unread) /\ Elements(unread') \subseteq Elements(unread)
    BY <1>1, <2>1, <2>2, HeadTailProperties DEF Elements
  <2>4. T \in Seq(Positions)
    BY <1>1, <2>1, <2>2
  <2>5. ASSUME NULL \notin Elements(R) PROVE R = T
    <3>1. /\ DOMAIN T = 1..Len(T) /\ Len(T) \in Nat /\ \A i \in 1..Len(T) : T[i] \in Positions
      BY <2>4
    <3>2. R = [i \in 1..Len(T) |-> IF T[i] \in Native THEN NULL ELSE T[i]]
      BY <2>1, <3>1 DEF ReadBack
    <3>3. \A i \in 1..Len(T) : R[i] = T[i]
      BY <2>5, <3>2 DEF Elements
    <3>4. R \in Seq(Labels) /\ T \in Seq(Labels) /\ Len(R) = Len(T)
      BY <2>1, <2>4, <3>1, <3>2, ReadBackType, SeqMonotonic DEF Labels
    <3> QED BY <3>3, <3>4, SeqEqual
  <2>6. CASE history' = history
    BY <1>1, <2>2, <2>3, <2>6 DEF Filed, Noted
  <2>7. CASE history' = Append(history, R)
    <3>1. /\ Len(history) \in Nat /\ DOMAIN history = 1..Len(history)
          /\ DOMAIN history' = 1..(Len(history) + 1)
          /\ \A i \in 1..Len(history) : history'[i] = history[i]
          /\ history'[Len(history) + 1] = R
      BY <1>1, <2>7, AppendElements
    <3>2. ASSUME NEW k \in DOMAIN history', NULL \notin Elements(history'[k])
          PROVE  history'[k] \in Noted(file, unsaved)
      <4>1. CASE k \in 1..Len(history)
        BY <1>1, <3>1, <3>2, <4>1 DEF InFile
      <4>2. CASE k = Len(history) + 1
        BY <1>1, <2>3, <2>5, <3>1, <3>2, <4>2 DEF Noted
      <4> QED BY <3>1, <4>1, <4>2
    <3>3. InFile(history', Noted(file, unsaved)')
      BY <2>2, <3>2 DEF InFile, Noted
    <3> QED BY <1>1, <2>2, <2>3, <3>3 DEF Filed
  <2> QED BY <2>2, <2>6, <2>7 DEF Noted
<1>4. ASSUME NEW t \in Threads, Calm(t)
      PROVE  Filed' /\ Noted(file, unsaved) \subseteq Noted(file, unsaved)'
  BY <1>4 DEF Calm, histVars, Filed, Noted
<1>5. ASSUME NEW t \in Threads, NEW m \in Monitors, NEW p \in Positions, Requests(t, m, p)
      PROVE  Filed' /\ Noted(file, unsaved) \subseteq Noted(file, unsaved)'
  <2>1. PICK h, f, u :
           /\ h \in Seq(Seq(Labels)) /\ f \in Seq(Seq(Positions)) /\ u \in SUBSET Seq(Positions)
           /\ Saved(history, file, unsaved, h, f, u) /\ Saved(h, f, u, history', file', unsaved')
    BY <1>5, RequestSaves DEF Types
  <2>2. InFile(h, Noted(f, u)) /\ Noted(file, unsaved) \subseteq Noted(f, u)
    BY <1>1, <2>1, SavedFiled
  <2>3. InFile(history', Noted(file', unsaved')) /\ Noted(f, u) \subseteq Noted(file', unsaved')
    BY <2>1, <2>2, SavedFiled
  <2>4. unread' = unread /\ Elements(file) \subseteq Elements(file')
    <3>1. Elements(file) \subseteq Elements(f)
      BY <1>1, <2>1, SavedGrows
    <3>2. Elements(f) \subseteq Elements(file')
      BY <2>1, SavedGrows
    <3> QED BY <1>5, <3>1, <3>2, RequestAsks DEF Asks, Requests
  <2>5. Noted(file, unsaved)' = Noted(file', unsaved')
    BY DEF Noted
  <2> QED BY <1>1, <2>2, <2>3, <2>4, <2>5 DEF Filed
<1> QED BY <1>2, <1>3, <1>4, <1>5, Kinds

(* The owners of two monitors that are crossed are different threads. *)
LEMMA CrossedOwners ==
  ASSUME Inv, NEW m1 \in Monitors, NEW m2 \in Monitors, CrossedAt(m1, m2)
  PROVE  /\ next[m1] \in Threads /\ next[m2] \in Threads /\ next[m1] # next[m2]
         /\ acqPos[m1] \in Positions /\ acqPos[m2] \in Positions
<1>1. Shape /\ Mons
  BY DEF Inv
<1> QED BY <1>1 DEF CrossedAt, Shape, Mons, MonOK

LEMMA RequestRecords ==
  ASSUME Inv, Inv', Types, Filed, DeadlockKnown,
         NEW t \in Threads, NEW m \in Monitors, NEW p \in Positions, Requests(t, m, p),
         Noted(file, unsaved) \subseteq Noted(file', unsaved'),
         NEW m1 \in Monitors, NEW m2 \in Monitors, CrossedAt(m1, m2)'
  PROVE  Pair(Noted(file', unsaved'), acqPos[m1], acqPos[m2])
<1>1. PICK h, f, u :
           /\ h \in Seq(Seq(Labels)) /\ f \in Seq(Seq(Positions)) /\ u \in SUBSET Seq(Positions)
           /\ Saved(history, file, unsaved, h, f, u) /\ Saved(h, f, u, history', file', unsaved')
           /\ Enter(t, m, p) =>
                \E o \in BOOLEAN :
                  LET M == Checked(Mem(history, file, unsaved, found), GraphNow(next', yields), t, o)
                  IN  h = M.history /\ f = M.file /\ u = M.unsaved
  BY RequestSaves DEF Types
<1>2. /\ history \in Seq(Seq(Labels)) /\ file \in Seq(Seq(Positions))
      /\ InFile(history, Noted(file, unsaved))
  BY DEF Types, Typed, Filed
<1>3. Noted(f, u) \subseteq Noted(file', unsaved')
  BY <1>1, SavedFiled
<1>4. acqPos' = acqPos /\ next' \in [Nodes -> Nodes \cup {NULL}] /\ \A n \in Monitors : next'[n] = next[n]
  BY RequestAsks DEF Asks, Requests
<1>5. PICK n1, n2 : n1 = next[m1] /\ n2 = next[m2]
  OBVIOUS
<1>6. /\ next'[m1] = n1 /\ next'[m2] = n2 /\ next'[n1] = m2 /\ next'[n2] = m1 /\ m1 # m2
      /\ n1 # NULL /\ n2 # NULL
      /\ acqPos[m1] # NULL /\ acqPos[m2] # NULL
  BY <1>4, <1>5 DEF CrossedAt
<1>7. /\ n1 \in Threads /\ n2 \in Threads /\ n1 # n2
      /\ acqPos[m1] \in Positions /\ acqPos[m2] \in Positions
  <2>1. Shape /\ Mons
    BY DEF Inv
  <2> QED BY <1>4, <1>5, <1>6, <2>1 DEF Shape, Mons, MonOK
<1>8. CASE CrossedAt(m1, m2)
  <2>1. Pair(Noted(file, unsaved), acqPos[m1], acqPos[m2])
    BY <1>8, KnownIs
  <2> QED BY <2>1, PairGrows
<1>9. CASE ~CrossedAt(m1, m2)
  <2>1. next[n1] # m2 \/ next[n2] # m1
    BY <1>5, <1>6, <1>9 DEF CrossedAt
  <2>2. Enter(t, m, p) /\ next' = [next EXCEPT ![t] = m]
    <3>1. Enter(t, m, p) \/ Retry(t)
      BY DEF Requests
    <3>2. Retry(t) => next' = next
      BY DEF Retry, Request
    <3>3. Enter(t, m, p) => next' = [next EXCEPT ![t] = m]
      BY DEF Enter, Request
    <3> QED BY <1>6, <2>1, <3>1, <3>2, <3>3
  <2>3. t = n1 \/ t = n2
    <3>1. next \in [Nodes -> Nodes \cup {NULL}]
      BY DEF Inv, Shape
    <3> QED BY <1>6, <1>7, <2>1, <2>2, <3>1, NodeFacts
  <2>4. PICK G : G = GraphNow(next', yields)
    OBVIOUS
  <2>5. G.next = next' /\ G.acqPos = acqPos
    BY <2>4 DEF GraphNow
  <2>6. G \in Graphs
    <3>1. YieldsPlaced(yields)
      BY DEF YieldsPlaced, Types, Typed, Placed
    <3>2. Shape /\ Placed
      BY DEF Inv, Types
    <3> QED BY <1>4, <2>4, <3>1, <3>2, GraphFacts DEF GraphNow
  <2>7. PICK h0, f0, u0, c : h0 = history /\ f0 = file /\ u0 = unsaved /\ c = found
    OBVIOUS
  <2>12. PICK o \in BOOLEAN :
          LET M == Checked(Mem(h0, f0, u0, c), G, t, o)
          IN  h = M.history /\ f = M.file /\ u = M.unsaved
    BY <1>1, <2>2, <2>4, <2>7
  <2>8. PICK M : M = Checked(Mem(h0, f0, u0, c), G, t, o) /\ f = M.file /\ u = M.unsaved
    BY <2>12
  <2>9. /\ h0 \in Seq(Seq(Labels)) /\ f0 \in Seq(Seq(Positions))
        /\ InFile(h0, Noted(f0, u0))
    BY <1>2, <2>7
  <2>10. PICK a \in Positions, b \in Positions : a = acqPos[m1] /\ b = acqPos[m2]
    BY <1>7
  <2>11. Pair(Noted(f, u), a, b)
    <3>1. CASE t = n1
      <4>1. Crossed(G, t, m2, n2, m1)
        BY <1>6, <1>7, <2>5, <3>1 DEF Crossed
      <4>2. G.acqPos[m2] = b /\ G.acqPos[m1] = a
        BY <2>5, <2>10
      <4>3. Pair(Noted(M.file, M.unsaved), b, a)
        BY ONLY <2>6, <2>8, <2>9, <2>10, <2>12, <4>1, <4>2, CrossingIsSaved
      <4> QED BY <2>8, <4>3 DEF Pair
    <3>2. CASE t = n2
      <4>1. Crossed(G, t, m1, n1, m2)
        BY <1>6, <1>7, <2>5, <3>2 DEF Crossed
      <4>2. G.acqPos[m1] = a /\ G.acqPos[m2] = b
        BY <2>5, <2>10
      <4>3. Pair(Noted(M.file, M.unsaved), a, b)
        BY ONLY <2>6, <2>8, <2>9, <2>10, <2>12, <4>1, <4>2, CrossingIsSaved
      <4> QED BY <2>8, <4>3 DEF Pair
    <3> QED BY <2>3, <3>1, <3>2
  <2> QED BY <1>3, <2>10, <2>11, PairGrows
<1> QED BY <1>8, <1>9

(* A thread that goes on without a request closes no cycle. *)
LEMMA CalmCrossings ==
  ASSUME Inv, Inv', NEW t \in Threads, Calm(t), NEW m1 \in Monitors, NEW m2 \in Monitors,
         CrossedAt(m1, m2)'
  PROVE  CrossedAt(m1, m2) /\ acqPos'[m1] = acqPos[m1] /\ acqPos'[m2] = acqPos[m2]
<1>1. Shape /\ Shape' /\ Mons'
  BY DEF Inv
<1>2. PICK n1, n2 : n1 = next'[m1] /\ n2 = next'[m2]
  OBVIOUS
<1>3. /\ next'[n1] = m2 /\ next'[n2] = m1 /\ m1 # m2 /\ n1 # NULL /\ n2 # NULL
      /\ acqPos'[m1] # NULL /\ acqPos'[m2] # NULL
  BY <1>2 DEF CrossedAt
<1>4. n1 \in Threads /\ n2 \in Threads
  BY <1>1, <1>2, <1>3 DEF Shape, Mons, MonOK
<1>5. CASE Local(t)
  <2>1. next' = next /\ acqPos' = acqPos
    BY <1>5 DEF Local
  <2> QED BY <1>2, <1>3, <2>1 DEF CrossedAt
<1>6. CASE After(t)
  <2>1. PICK m, p : m = arg[t].mon /\ p = arg[t].pos
    OBVIOUS
  <2>2. /\ acqPos' = [acqPos EXCEPT ![m] = p]
        /\ next' = IF p = NULL THEN next ELSE [next EXCEPT ![m] = t, ![t] = NULL]
    BY <1>6, <2>1 DEF After, Acquired
  <2>3. m \in Monitors /\ t \in Nodes /\ m \in Nodes /\ m # t
    BY <1>6, <2>1, NodeFacts DEF After, Inv, Ops, OpOK
  <2>4. p # NULL => next'[t] = NULL /\ next'[m] = t
    BY <1>1, <2>2, <2>3 DEF Shape
  <2>5. p = NULL => acqPos'[m] = NULL
    BY <1>1, <2>2, <2>3 DEF Shape
  <2>6. m # m1 /\ m # m2 /\ (p # NULL => t # n1 /\ t # n2)
    BY <1>2, <1>3, <2>4, <2>5, NodeFacts
  <2>7. next[m1] = n1 /\ next[m2] = n2 /\ next[n1] = m2 /\ next[n2] = m1
    <3>1. CASE p = NULL
      BY <1>2, <1>3, <2>2, <3>1
    <3>2. CASE p # NULL
      BY <1>1, <1>2, <1>3, <1>4, <2>2, <2>3, <2>6, <3>2, NodeFacts DEF Shape
    <3> QED BY <3>1, <3>2
  <2>8. acqPos'[m1] = acqPos[m1] /\ acqPos'[m2] = acqPos[m2]
    BY <1>1, <2>2, <2>6 DEF Shape
  <2> QED BY <1>3, <2>7, <2>8 DEF CrossedAt
<1>7. ASSUME NEW m \in Monitors, Leaves(t, m)
      PROVE  CrossedAt(m1, m2) /\ acqPos'[m1] = acqPos[m1] /\ acqPos'[m2] = acqPos[m2]
  <2>1. /\ acqPos' = [acqPos EXCEPT ![m] = NULL]
        /\ next' = next \/ next' = [next EXCEPT ![m] = NULL]
    BY <1>7, LeavesEffect
  <2>2. m # m1 /\ m # m2
    BY <1>1, <1>3, <2>1 DEF Shape
  <2>3. acqPos'[m1] = acqPos[m1] /\ acqPos'[m2] = acqPos[m2]
    BY <1>1, <2>1, <2>2 DEF Shape
  <2>4. \A n \in Nodes : n # m => next'[n] = next[n]
    BY <1>1, <2>1 DEF Shape
  <2>5. next[m1] = n1 /\ next[m2] = n2 /\ next[n1] = m2 /\ next[n2] = m1
    BY <1>2, <1>3, <1>4, <2>2, <2>4, NodeFacts
  <2> QED BY <1>3, <2>3, <2>5 DEF CrossedAt
<1> QED BY <1>5, <1>6, <1>7 DEF Calm

LEMMA KnownKeeps ==
  ASSUME Inv, Inv', Types, Filed, DeadlockKnown, Next
  PROVE  DeadlockKnown'
<1> SUFFICES ASSUME NEW m1 \in Monitors, NEW m2 \in Monitors, CrossedAt(m1, m2)'
             PROVE  Pair(Noted(file', unsaved'), acqPos'[m1], acqPos'[m2])
  BY DEF DeadlockKnown, Pair, Noted
<1>1. Restart \/ Noted(file, unsaved) \subseteq Noted(file', unsaved')
  BY FiledKeeps DEF Noted
<1>2. CASE Restart
  <2>1. next'[m1] = NULL
    BY <1>2, NodeFacts DEF Restart
  <2> QED BY <2>1 DEF CrossedAt
<1>3. CASE LoadLine
  <2>1. next' = next /\ acqPos' = acqPos /\ file' = file /\ unsaved' = unsaved
    BY <1>3 DEF LoadLine, ragVars
  <2>2. CrossedAt(m1, m2)
    BY <2>1 DEF CrossedAt
  <2> QED BY <2>1, <2>2, KnownIs
<1>4. ASSUME NEW t \in Threads, Calm(t)
      PROVE  Pair(Noted(file', unsaved'), acqPos'[m1], acqPos'[m2])
  <2>1. CrossedAt(m1, m2) /\ acqPos'[m1] = acqPos[m1] /\ acqPos'[m2] = acqPos[m2]
    BY <1>4, CalmCrossings
  <2>2. file' = file /\ unsaved' = unsaved
    BY <1>4 DEF Calm, histVars
  <2> QED BY <2>1, <2>2, KnownIs
<1>5. ASSUME NEW t \in Threads, NEW m \in Monitors, NEW p \in Positions, Requests(t, m, p)
      PROVE  Pair(Noted(file', unsaved'), acqPos'[m1], acqPos'[m2])
  <2>1. acqPos' = acqPos
    BY <1>5, RequestAsks DEF Asks, Requests
  <2>3. CASE Restart
    BY <1>2, <2>3
  <2>4. CASE ~Restart
    BY <1>1, <1>5, <2>1, <2>4, RequestRecords
  <2> QED BY <2>3, <2>4
<1> QED BY <1>2, <1>3, <1>4, <1>5, Kinds

LEMMA KnownAlways == Spec => [](Filed /\ DeadlockKnown)
<1>1. Init => Filed /\ DeadlockKnown
  <2> SUFFICES ASSUME Init PROVE Filed /\ DeadlockKnown
    OBVIOUS
  <2>1. unread = FirstFile /\ file = FirstFile /\ DOMAIN history = {}
        /\ \A m \in Monitors : next[m] = NULL
    BY NodeFacts DEF Init
  <2>2. Filed
    BY <2>1 DEF Filed, InFile
  <2>3. \A m1, m2 \in Monitors : ~CrossedAt(m1, m2)
    BY <2>1 DEF CrossedAt
  <2> QED BY <2>2, <2>3 DEF DeadlockKnown
<1>2. Inv /\ Inv' /\ Types /\ Filed /\ DeadlockKnown /\ [Next]_vars => Filed' /\ DeadlockKnown'
  <2> SUFFICES ASSUME Inv, Inv', Types, Filed, DeadlockKnown, [Next]_vars
               PROVE  Filed' /\ DeadlockKnown'
    OBVIOUS
  <2>1. CASE Next
    BY <2>1, FiledKeeps, KnownKeeps
  <2>2. CASE UNCHANGED vars
    <3>1. UNCHANGED <<next, acqPos, history, unread, file, unsaved>>
      BY <2>2 DEF vars, ragVars, histVars
    <3> QED BY <3>1 DEF Filed, Noted, DeadlockKnown, CrossedAt
  <2> QED BY <2>1, <2>2
<1> QED BY <1>1, <1>2, InvAlways, TypesAlways, PTL DEF Spec

(* Two threads that are deadlocked do not die unrecorded, whoever shares   *)
(* code with whom: the request that closes the cycle finds it              *)
(* (checkForCycles) and writes its template to the file, unless the file   *)
(* cannot be opened then, or one is there, or was kept from the file, that *)
(* Template_equals takes for it.                                           *)
THEOREM DeadlocksAreKnown == Spec => []DeadlockKnown
BY KnownAlways, PTL

(* A deadlock of two threads has two places. *)
TwoPlaces(F) == \A T \in F : Len(T) = 2 => T[1] # T[2]

LEMMA TwoPlacesKeep ==
  ASSUME PlacesAreOwn, Inv, Types, TwoPlaces(Noted(file, unsaved)), Next
  PROVE  TwoPlaces(Noted(file', unsaved'))
<1>1. CASE Restart
  BY <1>1 DEF Restart, Noted, TwoPlaces
<1>2. CASE LoadLine \/ \E t \in Threads : Calm(t)
  BY <1>2 DEF LoadLine, Calm, histVars
<1>3. ASSUME NEW t \in Threads, NEW m \in Monitors, NEW p \in Positions, Requests(t, m, p)
      PROVE  TwoPlaces(Noted(file', unsaved'))
  <2>1. PICK h, f, u :
           /\ h \in Seq(Seq(Labels)) /\ f \in Seq(Seq(Positions)) /\ u \in SUBSET Seq(Positions)
           /\ Saved(history, file, unsaved, h, f, u) /\ Saved(h, f, u, history', file', unsaved')
    BY <1>3, RequestSaves DEF Types
  <2>2. history \in Seq(Seq(Labels)) /\ file \in Seq(Seq(Positions))
    BY DEF Types, Typed
  <2>3. \A T \in Noted(f, u) \ Noted(file, unsaved) : Distinct(T)
    BY <2>1, <2>2, SavedFiled
  <2>4. \A T \in Noted(file', unsaved') \ Noted(f, u) : Distinct(T)
    BY <2>1, SavedFiled
  <2>5. \A T \in Noted(file', unsaved') : T \in Noted(file, unsaved) \/ Distinct(T)
    BY <2>3, <2>4
  <2>6. Noted(file', unsaved') \subseteq Seq(Positions)
    <3>1. PICK g, e, w : g = history' /\ e = file' /\ w = unsaved'
      OBVIOUS
    <3>2. e \in Seq(Seq(Positions)) /\ w \subseteq Seq(Positions)
      BY <2>1, <3>1, SavedTypes
    <3> QED BY <3>1, <3>2 DEF Noted, Elements
  <2>7. ASSUME NEW T \in Seq(Positions), Distinct(T), Len(T) = 2 PROVE T[1] # T[2]
    BY <2>7 DEF Distinct
  <2> QED BY <2>5, <2>6, <2>7 DEF TwoPlaces
<1> QED BY <1>1, <1>2, <1>3, Kinds

(* When each place in the program belongs to one thread, nothing is taken  *)
(* for something else, and it is this very deadlock that is recorded.      *)
(* dalvik_forgets shows it otherwise.                                      *)
COROLLARY DeadlocksAreRecorded ==
  ASSUME PlacesAreOwn, TwoPlaces(Elements(FirstFile))
  PROVE  Spec => []DeadlockRecorded
<1>1. Init => TwoPlaces(Noted(file, unsaved))
  BY DEF Init, Noted
<1>2. Inv /\ Types /\ TwoPlaces(Noted(file, unsaved)) /\ [Next]_vars => TwoPlaces(Noted(file, unsaved))'
  <2>1. UNCHANGED vars => file' = file /\ unsaved' = unsaved
    BY DEF vars, histVars
  <2>2. TwoPlaces(Noted(file, unsaved))' <=> TwoPlaces(Noted(file', unsaved'))
    BY DEF TwoPlaces, Noted
  <2> QED BY <2>1, <2>2, TwoPlacesKeep
<1>3. Inv /\ Types /\ DeadlockKnown /\ TwoPlaces(Noted(file, unsaved)) => DeadlockRecorded
  <2> SUFFICES ASSUME Inv, Types, DeadlockKnown, TwoPlaces(Noted(file, unsaved)),
                      NEW m1 \in Monitors, NEW m2 \in Monitors, CrossedAt(m1, m2)
               PROVE  \E T \in Noted(file, unsaved) :
                        T \in {<<acqPos[m1], acqPos[m2]>>, <<acqPos[m2], acqPos[m1]>>}
    BY DEF DeadlockRecorded, Noted
  <2>1. PICK a \in Positions, b \in Positions : a = acqPos[m1] /\ b = acqPos[m2]
    BY CrossedOwners
  <2>2. PICK T \in Noted(file, unsaved) : TemplateEquals(T, <<a, b>>) \/ TemplateEquals(T, <<b, a>>)
    BY <2>1, KnownIs DEF Pair
  <2>3. T \in Seq(Positions)
    BY DEF Types, Typed, Noted, Elements
  <2>4. ASSUME NEW x \in Positions, NEW y \in Positions, TemplateEquals(T, <<x, y>>)
        PROVE  T = <<y, x>>
    <3>1. PICK S : S = <<x, y>>
      OBVIOUS
    <3>2. Len(S) = 2 /\ S[1] = x /\ S[2] = y
      BY <3>1
    <3>3. Len(T) = 2
      BY <2>4, <3>1, <3>2 DEF TemplateEquals
    <3>4. (T[1] = y /\ T[2] = x) \/ (T[1] = x /\ T[2] = x)
      BY <2>4, <3>1, <3>2, <3>3, PairEquals
    <3>5. T[1] = y /\ T[2] = x
      BY <3>3, <3>4 DEF TwoPlaces
    <3>6. T \in Seq(Labels) /\ x \in Labels /\ y \in Labels
      BY <2>3, SeqMonotonic DEF Labels
    <3> QED BY <3>3, <3>5, <3>6, PairIs
  <2> QED BY <2>1, <2>2, <2>4
<1> QED BY <1>1, <1>2, <1>3, InvAlways, TypesAlways, KnownAlways, PTL DEF Spec

-----------------------------------------------------------------------------
(* What is recorded and what is known *)

(* No two lines of a file say the same. *)
NoDoubles(f) == \A i, j \in DOMAIN f : i < j => ~TemplateEquals(f[i], f[j])

(* Every line is read back as it was written. *)
Readable(f) == \A T \in Elements(f) : \A p \in Elements(T) : p \notin Native

NoNativeSites == \A s \in Sites : s[3] \notin Native

Already == Len(file) - Len(unread)

(* The history has the lines read so far, and what is saved then. *)
Remembered ==
  /\ Len(unread) <= Len(file)
  /\ \A i \in 1..Len(unread) : unread[i] = file[Already + i]
  /\ unread # <<>> => unsaved = {}
  /\ Elements(history) \ {<<>>} = ({file[i] : i \in 1..Already} \cup unsaved) \ {<<>>}
  /\ \A k \in 1..loaded : history[k] # <<>>
  /\ NoDoubles(file) /\ Readable(file)

LEMMA NothingEqualsNone ==
  ASSUME NEW T
  PROVE  ~TemplateEquals(<<>>, T)
BY DEF TemplateEquals

LEMMA SavedRemembered ==
  ASSUME NoNativeSites,
         NEW h \in Seq(Seq(Labels)), NEW f \in Seq(Seq(Positions)), NEW u,
         NEW g, NEW e, NEW w, Saved(h, f, u, g, e, w),
         Elements(h) \ {<<>>} = Noted(f, u) \ {<<>>}, NoDoubles(f), Readable(f)
  PROVE  /\ Elements(g) \ {<<>>} = Noted(e, w) \ {<<>>} /\ NoDoubles(e) /\ Readable(e)
         /\ Elements(f) \subseteq Elements(e)
<1>1. CASE g = h /\ e = f /\ w = u
  BY <1>1
<1>3. ASSUME NEW T \in Seq(Positions), g = Append(h, T), e = f, w = u \cup {T}
      PROVE  /\ Elements(g) \ {<<>>} = Noted(e, w) \ {<<>>} /\ NoDoubles(e) /\ Readable(e)
             /\ Elements(f) \subseteq Elements(e)
  <2>1. PICK S : S = Seq(Labels) /\ h \in Seq(S)
    OBVIOUS
  <2>2. Elements(Append(h, T)) = Elements(h) \cup {T}
    BY ONLY <2>1, AppendListed
  <2> QED BY <1>3, <2>2 DEF Noted
<1>2. ASSUME NEW T \in Seq(Positions), ~IsKnown(h, T), g = Append(h, T), e = Append(f, T), w = u,
             \A p \in Elements(T) : \E x : <<x, p>> \in Entered
      PROVE  /\ Elements(g) \ {<<>>} = Noted(e, w) \ {<<>>} /\ NoDoubles(e) /\ Readable(e)
             /\ Elements(f) \subseteq Elements(e)
  <2>1. /\ Elements(e) = Elements(f) \cup {T}
        /\ Len(f) \in Nat /\ DOMAIN f = 1..Len(f) /\ DOMAIN e = 1..(Len(f) + 1)
        /\ \A i \in 1..Len(f) : e[i] = f[i]
        /\ e[Len(f) + 1] = T
    <3>1. PICK S : S = Seq(Positions) /\ f \in Seq(S)
      OBVIOUS
    <3>2. /\ Elements(Append(f, T)) = Elements(f) \cup {T}
          /\ Len(f) \in Nat /\ DOMAIN f = 1..Len(f) /\ DOMAIN Append(f, T) = 1..(Len(f) + 1)
          /\ \A i \in 1..Len(f) : Append(f, T)[i] = f[i]
          /\ Append(f, T)[Len(f) + 1] = T
      BY ONLY <3>1, AppendElements
    <3> QED BY <1>2, <3>2
  <2>2. Elements(g) = Elements(h) \cup {T}
    <3>1. PICK S : S = Seq(Labels) /\ h \in Seq(S)
      OBVIOUS
    <3>2. Elements(Append(h, T)) = Elements(h) \cup {T}
      BY ONLY <3>1, AppendListed
    <3> QED BY <1>2, <3>2
  <2>3. Elements(g) \ {<<>>} = Noted(e, w) \ {<<>>}
    BY <1>2, <2>1, <2>2 DEF Noted
  <2>4. \A S \in Elements(f) : ~TemplateEquals(S, T)
    <3>1. TAKE S \in Elements(f)
    <3>2. CASE S = <<>>
      BY <3>2, NothingEqualsNone
    <3>3. CASE S # <<>>
      <4>1. S \in Elements(h)
        BY <3>3 DEF Noted
      <4> QED BY <1>2, <4>1 DEF IsKnown, Elements
    <3> QED BY <3>2, <3>3
  <2>5. ASSUME NEW i \in DOMAIN e, NEW j \in DOMAIN e, i < j PROVE ~TemplateEquals(e[i], e[j])
    <3>1. i \in 1..Len(f) /\ e[i] = f[i] /\ f[i] \in Elements(f)
      BY <2>1, <2>5 DEF Elements
    <3>2. CASE j \in 1..Len(f)
      BY <2>1, <2>5, <3>1, <3>2 DEF NoDoubles
    <3>3. CASE j = Len(f) + 1
      BY <2>1, <2>4, <3>1, <3>3
    <3> QED BY <2>1, <3>2, <3>3
  <2>6. Readable(e)
    <3>1. ASSUME NEW p \in Elements(T) PROVE p \notin Native
      <4>1. PICK x : <<x, p>> \in Entered
        BY <1>2
      <4>2. PICK s \in Sites : s[3] = p
        BY <4>1, EnteredFacts
      <4> QED BY <4>2 DEF NoNativeSites
    <3> QED BY <2>1, <3>1 DEF Readable
  <2> QED BY <2>1, <2>3, <2>5, <2>6 DEF NoDoubles
<1> QED BY <1>1, <1>2, <1>3 DEF Saved

(* A line is read as it is, and is not yet there. *)
LEMMA LineIsNew ==
  ASSUME Inv, Types, Remembered, LoadLine
  PROVE  LET T == Head(unread) IN
         /\ unread # <<>> /\ unread' = Tail(unread) /\ file' = file /\ unsaved = {} /\ unsaved' = {}
         /\ loaded' = Len(history')
         /\ loaded = Len(history)
         /\ T = file[Already + 1] /\ Already + 1 \in 1..Len(file)
         /\ \/ T = <<>> /\ history' = history
            \/ T # <<>> /\ history' = Append(history, T)
<1> DEFINE T == Head(unread)
<1>1. /\ unread # <<>> /\ unread' = Tail(unread) /\ file' = file /\ unsaved = {} /\ unsaved' = {}
         /\ loaded' = Len(history')
      /\ history' = IF Elements(T) = {} THEN history ELSE AddToHistory(history, ReadBack(T))
  BY DEF LoadLine, Remembered
<1>2. /\ unread \in Seq(Seq(Positions)) /\ file \in Seq(Seq(Positions)) /\ history \in Seq(Seq(Labels))
  BY DEF Types, Typed
<1>3. loaded = Len(history)
  BY <1>1 DEF Inv, Loading
<1>4. Len(unread) \in 1..Len(file) /\ Len(file) \in Nat /\ T = unread[1] /\ T \in Seq(Positions)
  BY <1>1, <1>2 DEF Remembered
<1>5. T = file[Already + 1] /\ Already + 1 \in 1..Len(file) /\ Already \in Nat
  BY <1>4 DEF Remembered, Already
<1> HIDE DEF T
<1>6. T \in Elements(file)
  BY <1>2, <1>5 DEF Elements
<1>7. ReadBack(T) = T
  <2>1. \A i \in DOMAIN T : T[i] \notin Native
    BY <1>6 DEF Remembered, Readable, Elements
  <2>2. ReadBack(T) = [i \in DOMAIN T |-> T[i]]
    BY <2>1 DEF ReadBack
  <2> QED BY <1>4, <2>2
<1>8. Elements(T) = {} <=> T = <<>>
  <2>1. Elements(T) = {} <=> DOMAIN T = {}
    BY DEF Elements
  <2>2. DOMAIN T = 1..Len(T) /\ Len(T) \in Nat /\ (Len(T) = 0 <=> T = <<>>)
    BY <1>4, EmptySeq
  <2> QED BY <2>1, <2>2
<1>9. ~IsKnown(history, T)
  <2> SUFFICES ASSUME NEW k \in DOMAIN history, TemplateEquals(history[k], T) PROVE FALSE
    BY DEF IsKnown
  <2>1. k \in 1..loaded /\ history[k] \in Elements(history)
    BY <1>2, <1>3 DEF Elements
  <2>2. history[k] # <<>>
    BY <2>1 DEF Remembered
  <2>5. Elements(history) \ {<<>>} = {file[i] : i \in 1..Already} \ {<<>>}
    BY <1>1 DEF Remembered
  <2>3. PICK i \in 1..Already : history[k] = file[i]
    BY <2>1, <2>2, <2>5
  <2>4. i \in DOMAIN file /\ Already + 1 \in DOMAIN file /\ i < Already + 1
    BY <1>2, <1>5
  <2> QED BY <1>5, <2>3, <2>4 DEF Remembered, NoDoubles
<1>10. \/ T = <<>> /\ history' = history
       \/ T # <<>> /\ history' = Append(history, T)
  BY <1>1, <1>7, <1>8, <1>9 DEF AddToHistory
<1> QED BY <1>1, <1>3, <1>5, <1>10 DEF T

LEMMA RequestAfterReading ==
  ASSUME Inv, NEW t \in Threads, NEW m \in Monitors, NEW p \in Positions, Requests(t, m, p)
  PROVE  unread = <<>> /\ unread' = <<>>
<1>1. unread = <<>>
  BY ReadsFirst DEF Requests, Step
<1> QED BY <1>1, RequestAsks DEF Asks, Requests

LEMMA RememberedKeeps ==
  ASSUME NoNativeSites, Inv, Types, Remembered, Next
  PROVE  Remembered'
<1>1. /\ history \in Seq(Seq(Labels)) /\ file \in Seq(Seq(Positions)) /\ unread \in Seq(Seq(Positions))
      /\ Len(file) \in Nat /\ Len(unread) \in Nat /\ loaded \in 0..Len(history)
  BY DEF Types, Typed, Inv, Shape
<1>2. CASE Restart
  <2>1. /\ unread' = file /\ file' = file /\ unsaved' = {} /\ history' = <<>> /\ loaded' = 0
    BY <1>2 DEF Restart
  <2>2. Already' = 0 /\ Elements(history') = {}
    BY <1>1, <2>1 DEF Already, Elements
  <2> QED BY <1>1, <2>1, <2>2 DEF Remembered
<1>3. CASE LoadLine
  <2>1. PICK T, a : T = Head(unread) /\ a = Already
    OBVIOUS
  <2>2. /\ unread # <<>> /\ unread' = Tail(unread) /\ file' = file /\ unsaved = {} /\ unsaved' = {}
         /\ loaded' = Len(history')
        /\ loaded = Len(history)
        /\ T = file[a + 1] /\ a + 1 \in 1..Len(file)
        /\ \/ T = <<>> /\ history' = history
           \/ T # <<>> /\ history' = Append(history, T)
    BY <1>3, <2>1, LineIsNew
  <2>3. Len(unread') = Len(unread) - 1 /\ Len(unread) # 0
        /\ \A i \in 1..Len(unread') : unread'[i] = unread[i + 1]
    BY <1>1, <2>2
  <2>4. Already' = a + 1 /\ a = Len(file) - Len(unread) /\ a \in Nat
    BY <1>1, <2>1, <2>2, <2>3 DEF Already, Remembered
  <2>5. \A i \in 1..Len(unread') : unread'[i] = file[Already' + i]
    <3>1. TAKE i \in 1..Len(unread')
    <3>2. i + 1 \in 1..Len(unread)
      BY <1>1, <2>3
    <3>3. unread[i + 1] = file[a + (i + 1)]
      BY <2>1, <3>2 DEF Remembered
    <3>4. a + (i + 1) = Already' + i
      BY <2>4
    <3> QED BY <2>3, <3>3, <3>4
  <2>6. Elements(history') \ {<<>>} = (Elements(history) \ {<<>>}) \cup ({T} \ {<<>>})
    <3>1. PICK S : S = Seq(Labels) /\ history \in Seq(S)
      BY <1>1
    <3>2. Elements(Append(history, T)) = Elements(history) \cup {T}
      BY ONLY <3>1, AppendListed
    <3> QED BY <2>2, <3>2
  <2>7. {file[i] : i \in 1..(a + 1)} = {file[i] : i \in 1..a} \cup {T}
    BY <2>2, <2>4
  <2>8. Elements(history') \ {<<>>} = ({file'[i] : i \in 1..Already'} \cup unsaved') \ {<<>>}
    <3>1. Elements(history) \ {<<>>} = {file[i] : i \in 1..a} \ {<<>>}
      BY <2>1, <2>2 DEF Remembered
    <3>2. {file'[i] : i \in 1..Already'} = {file[i] : i \in 1..(a + 1)}
      BY <2>2, <2>4
    <3> QED BY <2>2, <2>6, <2>7, <3>1, <3>2
  <2>9. \A k \in 1..loaded' : history'[k] # <<>>
    <3>1. CASE history' = history
      BY <2>2, <3>1 DEF Remembered
    <3>2. CASE T # <<>> /\ history' = Append(history, T)
      <4>1. /\ Len(history) \in Nat
            /\ Len(history') = Len(history) + 1
            /\ \A i \in 1..Len(history) : history'[i] = history[i]
            /\ history'[Len(history) + 1] = T
        BY <1>1, <3>2
      <4>2. ASSUME NEW k \in 1..loaded' PROVE history'[k] # <<>>
        <5>1. CASE k \in 1..loaded
          BY <2>2, <4>1, <5>1 DEF Remembered
        <5>2. CASE k = Len(history) + 1
          BY <3>2, <4>1, <5>2
        <5> QED BY <2>2, <4>1, <5>1, <5>2
      <4> QED BY <4>2
    <3> QED BY <2>2, <3>1, <3>2
  <2>10. Len(unread') <= Len(file')
    BY <1>1, <2>2, <2>3 DEF Remembered
  <2>11. NoDoubles(file') /\ Readable(file')
    BY <2>2 DEF Remembered
  <2> QED BY <2>2, <2>5, <2>8, <2>9, <2>10, <2>11 DEF Remembered
<1>4. ASSUME NEW t \in Threads, Calm(t) PROVE Remembered'
  <2>1. UNCHANGED <<history, loaded, unread, file, unsaved>>
    BY <1>4 DEF Calm, histVars
  <2> QED BY <2>1 DEF Remembered, Already
<1>5. ASSUME NEW t \in Threads, NEW m \in Monitors, NEW p \in Positions, Requests(t, m, p)
      PROVE  Remembered'
  <2>1. PICK h, f, u :
           /\ h \in Seq(Seq(Labels)) /\ f \in Seq(Seq(Positions)) /\ u \in SUBSET Seq(Positions)
           /\ Saved(history, file, unsaved, h, f, u) /\ Saved(h, f, u, history', file', unsaved')
    BY <1>5, RequestSaves DEF Types
  <2>2. unread = <<>> /\ unread' = <<>>
    BY <1>5, RequestAfterReading
  <2>3. Already = Len(file) /\ Elements(history) \ {<<>>} = Noted(file, unsaved) \ {<<>>}
    <3>1. Already = Len(file)
      BY <1>1, <2>2 DEF Already
    <3>2. Elements(file) = {file[i] : i \in 1..Len(file)}
      BY <1>1 DEF Elements
    <3> QED BY <3>1, <3>2 DEF Remembered, Noted
  <2>4. Elements(h) \ {<<>>} = Noted(f, u) \ {<<>>} /\ NoDoubles(f) /\ Readable(f)
    <3>1. PICK h0, f0, u0 : h0 = history /\ f0 = file /\ u0 = unsaved
      OBVIOUS
    <3>2. /\ h0 \in Seq(Seq(Labels)) /\ f0 \in Seq(Seq(Positions)) /\ Saved(h0, f0, u0, h, f, u)
          /\ Elements(h0) \ {<<>>} = Noted(f0, u0) \ {<<>>} /\ NoDoubles(f0) /\ Readable(f0)
      BY <1>1, <2>1, <2>3, <3>1 DEF Remembered
    <3> QED BY <3>2, SavedRemembered
  <2>5. Elements(history') \ {<<>>} = Noted(file', unsaved') \ {<<>>} /\ NoDoubles(file') /\ Readable(file')
    BY <2>1, <2>4, SavedRemembered
  <2>6. file' \in Seq(Seq(Positions)) /\ Len(file') \in Nat
    <3>1. PICK g, e, w : g = history' /\ e = file' /\ w = unsaved'
      OBVIOUS
    <3>2. e \in Seq(Seq(Positions))
      BY <2>1, <3>1, SavedTypes
    <3> QED BY <3>1, <3>2
  <2>7. Already' = Len(file') /\ Elements(file') = {file'[i] : i \in 1..Len(file')} /\ Len(unread') = 0
    BY <2>2, <2>6 DEF Already, Elements
  <2>8. loaded' = loaded /\ \A k \in 1..loaded : history'[k] = history[k]
    BY <1>1, <1>5, RequestAsks DEF Asks, Requests, Extends
  <2>9. \A k \in 1..loaded' : history'[k] # <<>>
    BY <2>8 DEF Remembered
  <2>10. Elements(history') \ {<<>>} = ({file'[i] : i \in 1..Already'} \cup unsaved') \ {<<>>}
    BY <2>5, <2>7 DEF Noted
  <2> QED BY <2>2, <2>5, <2>6, <2>7, <2>9, <2>10 DEF Remembered
<1> QED BY <1>2, <1>3, <1>4, <1>5, Kinds

-----------------------------------------------------------------------------
(* The steps of the VM as steps of the memory *)

G(p, t) == [pos |-> p, thread |-> t]

LEMMA GivenIs ==
  \A x : x \in Given <=>
    \E p \in Positions, t \in Threads : x = G(p, t) /\ t \in Elements(grantees[p])
BY DEF Given, G

LEMMA KnownKept ==
  ASSUME Inv, Types, Remembered, Remembered', Types', Next
  PROVE  Known' = IF Restart THEN Recorded ELSE Known
<1>1. /\ history \in Seq(Seq(Labels)) /\ file \in Seq(Seq(Positions)) /\ unread \in Seq(Seq(Positions))
      /\ Len(file) \in Nat /\ Len(unread) \in Nat /\ loaded \in 0..Len(history)
  BY DEF Types, Typed, Inv, Shape
<1>2. ASSUME unread' = <<>>, loaded' = Len(history'), unsaved' = {} PROVE Known' = Recorded'
  <2>1. /\ history' \in Seq(Seq(Labels)) /\ file' \in Seq(Seq(Positions))
    BY DEF Types, Typed
  <2>2. Len(unread') = 0 /\ Already' = Len(file')
    BY <1>2, <2>1 DEF Already
  <2>3. Elements(file') = {file'[i] : i \in 1..Len(file')}
        /\ Elements(history') = {history'[k] : k \in 1..loaded'}
    <3>1. DOMAIN file' = 1..Len(file') /\ DOMAIN history' = 1..loaded'
      BY <1>2, <2>1
    <3> QED BY <3>1 DEF Elements
  <2>4. <<>> \notin {history'[k] : k \in 1..loaded'}
    BY DEF Remembered
  <2>5. Elements(history') \ {<<>>} = Elements(file') \ {<<>>}
    BY <1>2, <2>2, <2>3 DEF Remembered
  <2>6. Known' = {history'[k] : k \in 1..loaded'}
    BY <1>2 DEF Known
  <2> QED BY <2>3, <2>4, <2>5, <2>6 DEF Recorded
<1>3. CASE Restart
  <2>1. unread' = file /\ file' = file /\ unsaved' = {} /\ history' = <<>> /\ loaded' = 0
    BY <1>3 DEF Restart
  <2>2. Recorded' = Recorded
    BY <2>1 DEF Recorded
  <2>3. CASE file = <<>>
    <3>1. unread' = <<>> /\ loaded' = Len(history') /\ unsaved' = {}
      BY <2>1, <2>3
    <3> QED BY <1>2, <1>3, <2>2, <3>1
  <2>4. CASE file # <<>>
    BY <1>3, <2>1, <2>2, <2>4 DEF Known
  <2> QED BY <2>3, <2>4
<1>4. CASE LoadLine /\ ~Restart
  <2>1. unread # <<>> /\ file' = file /\ loaded' = Len(history') /\ unsaved' = {}
    BY <1>4 DEF LoadLine, Remembered
  <2>2. Known = Recorded /\ Recorded' = Recorded
    BY <2>1 DEF Known, Recorded
  <2>3. CASE unread' = <<>>
    BY <1>2, <1>4, <2>1, <2>2, <2>3
  <2>4. CASE unread' # <<>>
    BY <1>4, <2>2, <2>4 DEF Known
  <2> QED BY <2>3, <2>4
<1>5. ASSUME NEW t \in Threads, Calm(t), ~Restart PROVE Known' = Known
  <2>1. UNCHANGED <<history, loaded, unread, file, unsaved>>
    BY <1>5 DEF Calm, histVars
  <2> QED BY <2>1 DEF Known, Recorded
<1>6. ASSUME NEW t \in Threads, NEW m \in Monitors, NEW p \in Positions, Requests(t, m, p), ~Restart
      PROVE  Known' = Known
  <2>1. unread = <<>> /\ unread' = <<>>
    BY <1>6, RequestAfterReading
  <2>2. loaded' = loaded /\ \A k \in 1..loaded : history'[k] = history[k]
    BY <1>1, <1>6, RequestAsks DEF Asks, Requests, Extends
  <2> QED BY <2>1, <2>2 DEF Known
<1> QED BY <1>3, <1>4, <1>5, <1>6, Kinds

LEMMA RecordsKept ==
  ASSUME NoNativeSites, Inv, Types, Types', Remembered, Next
  PROVE  /\ Recorded \subseteq Recorded' /\ Recorded' \subseteq Seq(Positions)
         /\ Recorded' = Recorded
              \/ \E t \in Threads, m \in Monitors, p \in Positions : Requests(t, m, p)
<1>1. Recorded' \subseteq Seq(Positions)
  <2>1. file' \in Seq(Seq(Positions))
    BY DEF Types, Typed
  <2> QED BY <2>1 DEF Recorded, Elements
<1>2. CASE UNCHANGED file
  BY <1>1, <1>2 DEF Recorded
<1>3. ASSUME NEW t \in Threads, NEW m \in Monitors, NEW p \in Positions, Requests(t, m, p)
      PROVE  Recorded \subseteq Recorded'
  <2>1. PICK h, f, u :
           /\ h \in Seq(Seq(Labels)) /\ f \in Seq(Seq(Positions)) /\ u \in SUBSET Seq(Positions)
           /\ Saved(history, file, unsaved, h, f, u) /\ Saved(h, f, u, history', file', unsaved')
    BY <1>3, RequestSaves DEF Types
  <2>2. file \in Seq(Seq(Positions))
    BY DEF Types, Typed
  <2>3. Elements(file) \subseteq Elements(f)
    BY <2>1, <2>2, SavedGrows
  <2>4. Elements(f) \subseteq Elements(file')
    BY <2>1, SavedGrows
  <2> QED BY <2>3, <2>4 DEF Recorded
<1>4. UNCHANGED file \/ \E t \in Threads, m \in Monitors, p \in Positions : Requests(t, m, p)
  BY Kinds DEF LoadLine, Restart, Calm, histVars
<1> QED BY <1>1, <1>2, <1>3, <1>4

(* Only a release takes a grant back, and one at a time. *)
LEMMA CalmGiven ==
  ASSUME Inv, NEW t \in Threads, Calm(t)
  PROVE  Given' = Given \/ \E g \in Promise!Grants : Given' = Given \ {g}
<1>1. CASE grantees' = grantees
  BY <1>1 DEF Given
<1>2. ASSUME NEW m \in Monitors, Leaves(t, m), grantees' # grantees
      PROVE  \E g \in Promise!Grants : Given' = Given \/ Given' = Given \ {g}
  <2>1. PICK p : p = acqPos[m]
    OBVIOUS
  <2>2. grantees' = IF p # NULL /\ p \in inHist THEN Ungrant(grantees, p, t) ELSE grantees
    BY <1>2, <2>1, LeavesEffect
  <2>3. grantees' = Ungrant(grantees, p, t) /\ p \in Positions /\ grantees \in Lists
    BY <1>2, <2>1, <2>2 DEF Inv, Shape
  <2>4. /\ \A q \in Positions : Elements(grantees'[q]) \subseteq Elements(grantees[q])
        /\ \A q \in Positions \ {p} : grantees'[q] = grantees[q]
        /\ grantees' \in Lists
        /\ \A q \in Positions, u \in Threads :
              Count(grantees'[q], u) = Count(grantees[q], u)
                - (IF q = p /\ u = t /\ Count(grantees[q], u) > 0 THEN 1 ELSE 0)
    BY <2>3, ListWithout
  <2>5. \A u \in Threads \ {t} : u \in Elements(grantees'[p]) <=> u \in Elements(grantees[p])
    <3>1. TAKE u \in Threads \ {t}
    <3>2. grantees'[p] \in Seq(Threads) /\ grantees[p] \in Seq(Threads)
      BY <2>3, <2>4 DEF Lists
    <3>3. Count(grantees'[p], u) = Count(grantees[p], u)
      <4>1. Count(grantees[p], u) \in Nat
        BY <3>2, PlacesFinite
      <4> QED BY <2>3, <2>4, <4>1
    <3> QED BY <3>2, <3>3, CountedIsListed
  <2>6. G(p, t) \in Promise!Grants
    BY <2>3 DEF Promise!Grants, G
  <2>7. CASE t \in Elements(grantees'[p])
    <3>1. \A q \in Positions, u \in Threads : u \in Elements(grantees'[q]) <=> u \in Elements(grantees[q])
      BY <2>4, <2>5, <2>7
    <3>2. Given' = Given
      BY <3>1 DEF Given
    <3> QED BY <2>6, <3>2
  <2>8. CASE t \notin Elements(grantees'[p])
    <3>1. \A q \in Positions, u \in Threads :
            u \in Elements(grantees'[q]) <=> u \in Elements(grantees[q]) /\ ~(q = p /\ u = t)
      BY <2>4, <2>5, <2>8
    <3>2. Given' = Given \ {G(p, t)}
      BY <3>1 DEF Given, G
    <3> QED BY <2>6, <3>2
  <2> QED BY <2>7, <2>8
<1>3. grantees' = grantees \/ \E m \in Monitors : Leaves(t, m)
  BY DEF Calm, Local, After
<1> QED BY <1>1, <1>2, <1>3

(* A request adds its grant, or none. *)
LEMMA RequestGiven ==
  ASSUME Inv, Inv', NEW t \in Threads, NEW m \in Monitors, NEW p \in Positions, Requests(t, m, p)
  PROVE  \/ Given' = Given
         \/ /\ Given' = Given \cup {G(p, t)}
            /\ G(p, t) \in Promise!Grants
            /\ \A T \in Known' : ~Promise!Occupied(Given', T)
<1>1. grantees \in Lists /\ (Unasked(t, p) \/ Granted(t, p) \/ Yielding(t, p))
  BY RequestAsks DEF Asks, Inv, Shape, Requests
<1>2. CASE Unasked(t, p)
  BY <1>2 DEF Unasked, Given
<1>3. CASE Yielding(t, p)
  <2>1. grantees' = Ungrant([grantees EXCEPT ![p] = Append(@, t)], p, t)
    BY <1>3 DEF Yielding, Asked
  <2>2. grantees \in Lists
    BY <1>1
  <2>3. \A q \in Positions : Elements(grantees'[q]) = Elements(grantees[q])
    BY ONLY <2>1, <2>2, ListSame, t \in Threads, p \in Positions
  <2> QED BY <2>3 DEF Given
<1>4. CASE Granted(t, p)
  <2>1. grantees' = [grantees EXCEPT ![p] = Append(@, t)]
    BY <1>4 DEF Granted, Asked
  <2>2. /\ grantees'[p] = Append(grantees[p], t)
        /\ \A q \in Positions \ {p} : grantees'[q] = grantees[q]
        /\ grantees[p] \in Seq(Threads)
    BY <1>1, <2>1 DEF Lists
  <2>3. Elements(grantees'[p]) = Elements(grantees[p]) \cup {t}
    BY <2>2, AppendElements
  <2>4. \A q \in Positions, u \in Threads :
          u \in Elements(grantees'[q]) <=> u \in Elements(grantees[q]) \/ (q = p /\ u = t)
    BY <2>2, <2>3
  <2>5. Given' = Given \cup {G(p, t)} /\ G(p, t) \in Promise!Grants
    BY <2>4 DEF Given, G, Promise!Grants
  <2>6. unread' = <<>> /\ grantees' \in Lists /\ NoOccupation'
    BY RequestAfterReading DEF Inv, Shape
  <2>7. ASSUME NEW T \in Known', Promise!Occupied(Given', T) PROVE FALSE
    <3>1. PICK k \in 1..loaded' : T = history'[k]
      BY <2>6, <2>7 DEF Known
    <3>2. PICK f \in [DOMAIN T -> Threads] :
            /\ \A i \in DOMAIN T : [pos |-> T[i], thread |-> f[i]] \in Given'
            /\ \A i, j \in DOMAIN T : f[i] = f[j] => i = j
      BY <2>7 DEF Promise!Occupied
    <3>3. \A i \in DOMAIN T : T[i] \in Positions /\ f[i] \in Elements(grantees'[T[i]])
      BY <3>2 DEF Given
    <3>4. f \in Occupants(T, grantees')
      BY <3>2, <3>3 DEF Occupants
    <3> QED BY <2>6, <3>1, <3>4, InstanceIs DEF NoOccupation
  <2> QED BY <2>5, <2>7
<1> QED BY <1>1, <1>2, <1>3, <1>4

LEMMA MemoryStep ==
  ASSUME NoNativeSites, Inv, Inv', Types, Types', Remembered, Remembered', Next
  PROVE  Promise!Next \/ UNCHANGED <<Given, Known, Recorded>>
<1>1. /\ Known' = IF Restart THEN Recorded ELSE Known
      /\ Recorded \subseteq Recorded' /\ Recorded' \subseteq Seq(Positions)
      /\ Recorded' = Recorded
           \/ \E t \in Threads, m \in Monitors, p \in Positions : Requests(t, m, p)
  BY KnownKept, RecordsKept
<1>2. CASE Restart
  <2>1. \A p \in Positions : Elements(grantees'[p]) = {}
    BY <1>2 DEF Restart, Elements
  <2>2. Given' = {}
    BY <2>1 DEF Given
  <2>3. Recorded' = Recorded
    BY <1>2 DEF Restart, Recorded
  <2>4. Promise!Restart
    BY <1>1, <1>2, <2>2, <2>3 DEF Promise!Restart
  <2> QED BY <2>4 DEF Promise!Next
<1>3. CASE LoadLine /\ ~Restart
  <2>1. Given' = Given /\ Recorded' = Recorded
    BY <1>3 DEF LoadLine, Given, Recorded
  <2> QED BY <1>1, <1>3, <2>1
<1>4. ASSUME NEW t \in Threads, Calm(t), ~Restart
      PROVE  Promise!Next \/ UNCHANGED <<Given, Known, Recorded>>
  <2>1. Known' = Known /\ Recorded' = Recorded
    BY <1>1, <1>4 DEF Calm, histVars, Recorded
  <2>2. CASE Given' = Given
    BY <2>1, <2>2
  <2>3. ASSUME NEW g \in Promise!Grants, Given' = Given \ {g} PROVE Promise!Next
    <3>1. Promise!Revoke(g)
      BY <2>1, <2>3 DEF Promise!Revoke
    <3> QED BY <3>1 DEF Promise!Next
  <2> QED BY <1>4, <2>2, <2>3, CalmGiven
<1>5. ASSUME NEW t \in Threads, NEW m \in Monitors, NEW p \in Positions, Requests(t, m, p), ~Restart
      PROVE  Promise!Next
  <2>1. Promise!Learn
    BY <1>1, <1>5 DEF Promise!Learn
  <2>2. CASE Given' = Given
    BY <2>1, <2>2 DEF Promise!Next, Promise!Notice
  <2>3. CASE /\ Given' = Given \cup {G(p, t)}
             /\ G(p, t) \in Promise!Grants
             /\ \A T \in Known' : ~Promise!Occupied(Given', T)
    <3>1. Known' = Known
      BY <1>1, <1>5
    <3>2. Promise!Grant(G(p, t))
      BY <2>1, <2>3, <3>1 DEF Promise!Grant
    <3> QED BY <2>3, <3>2 DEF Promise!Next
  <2> QED BY <1>5, <2>2, <2>3, RequestGiven
<1> QED BY <1>2, <1>3, <1>4, <1>5, Kinds

(* The VM keeps the promise of Memory over all its restarts: what it has   *)
(* recorded it knows from the next start on, it loses no record, and no    *)
(* grant ever puts different threads on all positions of what it knows.    *)
(* The positions must be such that fscanf reads back what fprintf writes,  *)
(* and the file as the program itself leaves it, with no line twice.       *)
THEOREM MemoryKept ==
  ASSUME NoNativeSites, Readable(FirstFile), NoDoubles(FirstFile)
  PROVE  Spec => ImplementsMemory
<1>1. Init => Remembered /\ Promise!Init
  <2> SUFFICES ASSUME Init PROVE Remembered /\ Promise!Init
    OBVIOUS
  <2>1. /\ unread = FirstFile /\ file = FirstFile /\ history = <<>> /\ loaded = 0
        /\ unsaved = {} /\ \A p \in Positions : Elements(grantees[p]) = {}
        /\ FirstFile \in Seq(Seq(Positions))
    BY FileAssumption DEF Init, Elements
  <2>2. Already = 0 /\ Elements(history) = {}
    BY <2>1 DEF Already, Elements
  <2>3. Remembered
    BY <2>1, <2>2 DEF Remembered
  <2>4. Given = {} /\ Recorded \subseteq Seq(Positions)
    <3>1. \A i \in DOMAIN FirstFile : FirstFile[i] \in Seq(Positions)
      BY <2>1
    <3>2. Given = {}
      BY <2>1 DEF Given
    <3> QED BY <2>1, <3>1, <3>2 DEF Recorded, Elements
  <2>5. Known = Recorded
    <3>1. CASE FirstFile = <<>>
      BY <2>1, <3>1 DEF Known, Recorded, Elements
    <3>2. CASE FirstFile # <<>>
      BY <2>1, <3>2 DEF Known
    <3> QED BY <3>1, <3>2
  <2> QED BY <2>3, <2>4, <2>5 DEF Promise!Init
<1>2. Inv /\ Types /\ Remembered /\ [Next]_vars => Remembered'
  <2>1. UNCHANGED vars /\ Remembered => Remembered'
    BY DEF vars, histVars, Remembered, Already
  <2> QED BY <2>1, RememberedKeeps
<1>3. /\ Inv /\ Inv' /\ Types /\ Types' /\ Remembered /\ Remembered' /\ [Next]_vars
      => [Promise!Next]_(Promise!vars)
  <2>1. UNCHANGED vars => UNCHANGED <<Given, Known, Recorded>>
    BY DEF vars, histVars, Given, Known, Recorded
  <2> QED BY <2>1, MemoryStep DEF Promise!vars
<1> QED BY <1>1, <1>2, <1>3, InvAlways, TypesAlways, PTL DEF Spec, ImplementsMemory, Promise!Spec
=============================================================================
