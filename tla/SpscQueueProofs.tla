--------------------------- MODULE SpscQueueProofs ---------------------------
(***************************************************************************)
(* What SpscQueue proves of the event queue, for any events, any number of *)
(* nodes and any bound on the length: its variables keep their types, it   *)
(* never needs more nodes than it has, and it implements EventFifo.        *)
(*                                                                         *)
(* The argument is about the one list c that is in memory at any moment:   *)
(* it starts at first_, passes tail_copy_ and tail_ in this order and ends *)
(* at head_, or at the new node once that is linked.  What is in the queue *)
(* is the part of c after tail_; what the producer uses again, the part    *)
(* before tail_copy_.                                                      *)
(***************************************************************************)
EXTENDS SpscQueue, FiniteSetTheorems, SequenceTheorems, WellFoundedInduction, TLAPS

(* The list c, with tail_copy_ at place a and tail_ at place b. *)
Lists(c, a, b) ==
  /\ a \in 1..Len(c) /\ b \in a..Len(c)
  /\ \A i, j \in DOMAIN c : c[i] = c[j] => i = j
  /\ IsChain(c)
  /\ c[1] = first /\ c[a] = tailCopy /\ c[b] = tail

(* Where the list ends: at head_, or at the node linked to it. *)
Ends(c) ==
  IF ppc \in {"count", "counted", "advance"}
  THEN Len(c) >= 2 /\ head = c[Len(c) - 1] /\ n = c[Len(c)]
  ELSE head = c[Len(c)]

(* Every node is in the list, or not allocated, or the one being filled.   *)
Taken == IF ppc \in {"fill", "publish"} THEN {n} ELSE {}

Accounted(c) ==
  /\ \A i \in DOMAIN c : c[i] \notin heap \cup Taken
  /\ Taken \cap heap = {}
  /\ \A m \in Nodes : m \in heap \cup Taken \/ \E i \in DOMAIN c : c[i] = m

(* What the producer knows in the middle of an enqueue. *)
Producing(c, b) ==
  /\ ppc # "idle" => v \in Values
  /\ ppc \in {"fill", "publish"} => n \in Nodes
  /\ ppc = "publish" => next[n] = NULL /\ value[n] = v
  /\ ppc \in {"alloc", "realloc"} => Len(c) - b < Cap
  /\ ppc = "realloc" /\ first = tailCopy => Len(c) <= Cap

(* What the monitor knows in the middle of a dequeue. *)
Consuming(c, b) ==
  /\ cpc \in {"advance", "count", "counted"} => size # 0
  /\ cpc = "advance" => b < Len(c) /\ event = value[c[b + 1]]

IsList(c, a, b) ==
  Lists(c, a, b) /\ Ends(c) /\ Accounted(c) /\ Producing(c, b) /\ Consuming(c, b)

Inv == QueueTypeOK /\ \E c \in Seq(Nodes), a, b \in Nat : IsList(c, a, b)

-----------------------------------------------------------------------------
(* Sequences and lists *)

(* A non-empty set of natural numbers has a least element. *)
LEMMA LeastNat ==
  ASSUME NEW S, S \subseteq Nat, S # {}
  PROVE  \E m \in S : \A k \in S : m <= k
<1>1. IsWellFoundedOn(OpToRel(<, Nat), Nat)
  BY NatLessThanWellFounded
<1>2. PICK m \in S : \A k \in S : ~ (<<k, m>> \in OpToRel(<, Nat))
  BY <1>1, WFMin
<1>3. ASSUME NEW k \in S PROVE m <= k
  <2>1. k \in Nat /\ m \in Nat
    OBVIOUS
  <2>2. ~ (k < m)
    BY <1>2, <2>1 DEF OpToRel
  <2> QED
    BY <2>1, <2>2
<1> QED
  BY <1>3

(* A list is determined by its first node and the next_ fields. *)
LEMMA OneList ==
  ASSUME NEW nx, NEW c \in Seq(Nodes), NEW d \in Seq(Nodes),
         c # << >>, d # << >>, c[1] = d[1],
         \A i \in DOMAIN c : nx[c[i]] = (IF i = Len(c) THEN NULL ELSE c[i + 1]),
         \A i \in DOMAIN d : nx[d[i]] = (IF i = Len(d) THEN NULL ELSE d[i + 1])
  PROVE  c = d
<1> DEFINE Differ == {i \in Nat \ {0} : i \in DOMAIN c /\ (i \notin DOMAIN d \/ c[i] # d[i])}
<1>0. /\ Len(c) \in Nat \ {0} /\ DOMAIN c = 1..Len(c) /\ \A i \in DOMAIN c : c[i] \in Nodes
      /\ Len(d) \in Nat \ {0} /\ DOMAIN d = 1..Len(d) /\ \A i \in DOMAIN d : d[i] \in Nodes
  OBVIOUS
<1>1. Differ = {}
  <2> SUFFICES ASSUME Differ # {} PROVE FALSE
    OBVIOUS
  <2>1. PICK m \in Differ : \A k \in Differ : m <= k
    BY LeastNat
  <2>2. m # 1
    BY <1>0, <2>1
  <2>3. m - 1 \in DOMAIN c /\ m - 1 \notin Differ
    <3>1. m \in 1..Len(c) /\ m - 1 \in 1..Len(c) /\ m - 1 \in Nat /\ ~ (m <= m - 1)
      BY <1>0, <2>1, <2>2
    <3> HIDE DEF Differ
    <3> QED
      BY <1>0, <2>1, <3>1
  <2>4. m - 1 \in DOMAIN d /\ c[m - 1] = d[m - 1]
    BY <1>0, <2>1, <2>2, <2>3
  <2>5. nx[c[m - 1]] = c[m] /\ c[m] \in Nodes
    BY <1>0, <2>1, <2>3
  <2>6. m - 1 # Len(d)
    BY <2>4, <2>5, NullAssumption
  <2>7. m \in DOMAIN d /\ nx[d[m - 1]] = d[m]
    BY <1>0, <2>1, <2>4, <2>6
  <2> QED
    BY <2>1, <2>4, <2>5, <2>7
<1>2. \A i \in DOMAIN c : i \in DOMAIN d /\ c[i] = d[i]
  BY <1>0, <1>1
<1>3. Len(c) = Len(d)
  <2>1. Len(c) \in DOMAIN d /\ nx[d[Len(c)]] = NULL
    BY <1>0, <1>2
  <2>2. ASSUME Len(c) # Len(d) PROVE FALSE
    <3>1. nx[d[Len(c)]] = d[Len(c) + 1]
      BY <2>1, <2>2
    <3>2. Len(c) \in 1..Len(d)
      BY <1>0, <2>1
    <3>3. Len(c) + 1 \in 1..Len(d)
      BY ONLY Len(c) \in Nat, Len(d) \in Nat, Len(c) # Len(d), <3>2
    <3> QED
      BY <1>0, <2>1, <3>1, <3>3, NullAssumption
  <2> QED
    BY <2>2
<1> QED
  BY <1>0, <1>2, <1>3, SeqEqual

(* A sequence without repetitions is no longer than there are nodes. *)
LEMMA ShortList ==
  ASSUME NEW c \in Seq(Nodes), \A i, j \in DOMAIN c : c[i] = c[j] => i = j
  PROVE  Len(c) <= Cardinality(Nodes)
<1> DEFINE R == {c[i] : i \in 1..Len(c)}
<1>0. Len(c) \in Nat /\ DOMAIN c = 1..Len(c)
  OBVIOUS
<1>1. IsFiniteSet(1..Len(c)) /\ Cardinality(1..Len(c)) = Len(c)
  BY <1>0, FS_Interval
<1>2. [i \in 1..Len(c) |-> c[i]] \in Bijection(1..Len(c), R)
  BY <1>0 DEF Bijection, Injection, Surjection, IsInjective
<1>3. ExistsBijection(1..Len(c), R)
  BY <1>2 DEF ExistsBijection
<1>4. Cardinality(R) = Len(c)
  BY <1>1, <1>3, FS_Bijection
<1>5. R \subseteq Nodes
  OBVIOUS
<1>6. Cardinality(R) <= Cardinality(Nodes)
  BY <1>5, FS_Subset, NodesAssumption
<1> QED
  BY <1>4, <1>6

(* A sequence that has every node is at least as long as there are nodes. *)
LEMMA FewNodes ==
  ASSUME NEW c \in Seq(Nodes), \A m \in Nodes : \E i \in 1..Len(c) : c[i] = m
  PROVE  Cardinality(Nodes) <= Len(c)
<1>1. \A i \in 1..Len(c) : c[i] \in Nodes
  OBVIOUS
<1>2. IsFiniteSet(1..Len(c)) /\ Cardinality(1..Len(c)) = Len(c)
  <2>1. Len(c) \in Nat
    OBVIOUS
  <2> QED
    BY ONLY <2>1, FS_Interval
<1>3. [i \in 1..Len(c) |-> c[i]] \in Surjection(1..Len(c), Nodes)
  BY <1>1 DEF Surjection
<1> QED
  BY <1>2, <1>3, FS_Surjection

(* The events in the queue are those in the list after tail_. *)
LEMMA ContentIs ==
  ASSUME NEW c \in Seq(Nodes), NEW a \in Nat, NEW b \in Nat, Lists(c, a, b)
  PROVE  Content = [i \in 1..(Len(c) - b) |-> value[c[b + i]]]
<1> DEFINE d == [i \in 1..(Len(c) - b + 1) |-> c[b + i - 1]]
<1>0. /\ Len(c) \in Nat /\ DOMAIN c = 1..Len(c) /\ \A i \in DOMAIN c : c[i] \in Nodes
      /\ b \in 1..Len(c)
  BY DEF Lists
<1>1. d \in Seq(Nodes) /\ Len(d) = Len(c) - b + 1 /\ DOMAIN d = 1..Len(d)
  <2>1. Len(c) - b + 1 \in Nat
    BY <1>0
  <2>2. \A i \in 1..(Len(c) - b + 1) : c[b + i - 1] \in Nodes
    BY <1>0
  <2>3. d \in Seq(Nodes)
    BY <2>1, <2>2, IsASeq
  <2> QED
    BY <2>1, <2>3
<1>2. d[1] = tail /\ IsChain(d)
  <2>1. d[1] = tail
    BY <1>0 DEF Lists
  <2>2. ASSUME NEW i \in DOMAIN d PROVE next[d[i]] = IF i = Len(d) THEN NULL ELSE d[i + 1]
    <3>1. i \in 1..Len(d) /\ b + i - 1 \in DOMAIN c /\ d[i] = c[b + i - 1]
      BY <1>0, <1>1, <2>2
    <3>2. next[d[i]] = IF b + i - 1 = Len(c) THEN NULL ELSE c[b + i]
      BY <1>0, <3>1 DEF Lists, IsChain
    <3>3. ASSUME i # Len(d) PROVE d[i + 1] = c[b + i]
      <4>1. i + 1 \in 1..(Len(c) - b + 1) /\ b + (i + 1) - 1 = b + i
        BY <1>0, <1>1, <3>1, <3>3
      <4> QED
        BY <4>1
    <3> QED
      BY <1>0, <1>1, <3>1, <3>2, <3>3
  <2> QED
    BY <2>1, <2>2 DEF IsChain
<1>3. d \in Chains
  <2>1. Len(c) <= Cardinality(Nodes)
    BY ShortList DEF Lists
  <2>2. Len(d) \in 1..Cardinality(Nodes)
    BY <1>0, <1>1, <2>1, NodesAssumption, FS_CardinalityType
  <2> HIDE DEF d
  <2>3. d \in [1..Len(d) -> Nodes]
    BY <1>1
  <2> QED
    BY <2>2, <2>3 DEF Chains
<1> HIDE DEF d
<1>4. From(tail) \in Chains /\ From(tail)[1] = tail /\ IsChain(From(tail))
  BY <1>2, <1>3 DEF From
<1>5. From(tail) \in Seq(Nodes) /\ From(tail) # << >>
  <2>1. PICK k \in 1..Cardinality(Nodes) : From(tail) \in [1..k -> Nodes]
    BY <1>4 DEF Chains
  <2>2. k \in Nat \ {0}
    BY NodesAssumption, FS_CardinalityType
  <2> QED
    BY <2>1, <2>2
<1>6. d # << >>
  BY <1>0, <1>1
<1>7. From(tail) = d
  <2>1. PICK e : e = From(tail)
    OBVIOUS
  <2>2. e \in Seq(Nodes) /\ e # << >> /\ e[1] = d[1]
    BY <1>2, <1>4, <1>5, <2>1
  <2>3. \A i \in DOMAIN d : next[d[i]] = IF i = Len(d) THEN NULL ELSE d[i + 1]
    BY <1>2 DEF IsChain
  <2>4. \A i \in DOMAIN e : next[e[i]] = IF i = Len(e) THEN NULL ELSE e[i + 1]
    BY <1>4, <2>1 DEF IsChain
  <2>5. e = d
    BY ONLY <1>1, <1>6, <2>2, <2>3, <2>4, OneList
  <2> QED
    BY <2>1, <2>5
<1>8. Content = [i \in 1..(Len(d) - 1) |-> value[d[i + 1]]]
  BY <1>7 DEF Content
<1>9. \A i \in 1..(Len(c) - b) : d[i + 1] = c[b + i]
  BY <1>0 DEF d
<1> QED
  BY <1>0, <1>1, <1>8, <1>9

-----------------------------------------------------------------------------
(* The invariant *)

(* What a list is as a sequence. *)
LEMMA ListFacts ==
  ASSUME NEW c \in Seq(Nodes), NEW a \in Nat, NEW b \in Nat, Lists(c, a, b)
  PROVE  /\ Len(c) \in Nat \ {0} /\ DOMAIN c = 1..Len(c)
         /\ \A i \in 1..Len(c) : c[i] \in Nodes
         /\ a \in 1..Len(c) /\ b \in a..Len(c) /\ b \in 1..Len(c)
         /\ \A i \in 1..Len(c) : next[c[i]] = IF i = Len(c) THEN NULL ELSE c[i + 1]
  BY DEF Lists, IsChain

LEMMA InitList == Init => Inv
<1> SUFFICES ASSUME Init PROVE Inv
  OBVIOUS
<1>1. PICK m \in Nodes :
        /\ next = [k \in Nodes |-> NULL] /\ value = [k \in Nodes |-> NULL]
        /\ heap = Nodes \ {m}
        /\ first = m /\ tailCopy = m /\ head = m /\ tail = m
        /\ length \in Garbage
        /\ ppc = "idle" /\ v = NULL /\ n = NULL /\ plen = 0
        /\ cpc = "idle" /\ size = 0 /\ event = NULL /\ clen = 0
  BY DEF Init
<1>2. QueueTypeOK
  BY <1>1, WidthAssumption DEF QueueTypeOK
<1>3. <<m>> \in Seq(Nodes) /\ Len(<<m>>) = 1 /\ DOMAIN <<m>> = {1} /\ <<m>>[1] = m
  OBVIOUS
<1>4. Lists(<<m>>, 1, 1)
  BY <1>1, <1>3 DEF Lists, IsChain
<1>5. Ends(<<m>>) /\ Accounted(<<m>>)
  BY <1>1, <1>3 DEF Ends, Accounted, Taken
<1>6. Producing(<<m>>, 1) /\ Consuming(<<m>>, 1)
  BY <1>1 DEF Producing, Consuming
<1>7. IsList(<<m>>, 1, 1)
  BY <1>4, <1>5, <1>6 DEF IsList
<1> QED
  BY <1>2, <1>3, <1>7 DEF Inv

(* The steps that leave the list as it is. *)
LEMMA EnqueueKeeps ==
  ASSUME NEW c \in Seq(Nodes), NEW a \in Nat, NEW b \in Nat, QueueTypeOK, IsList(c, a, b),
         NEW w \in Values, Enqueue(w)
  PROVE  QueueTypeOK' /\ IsList(c, a, b)'
<1>1. /\ ppc = "idle" /\ Len(Content) < Cap /\ v' = w /\ ppc' = "alloc"
      /\ UNCHANGED <<next, value, heap, first, tailCopy, head, tail, length, n, plen,
                     cpc, size, event, clen>>
  BY DEF Enqueue, memVars, consVars
<1>2. QueueTypeOK'
  BY <1>1 DEF QueueTypeOK
<1>3. Lists(c, a, b)' /\ Ends(c)' /\ Accounted(c)' /\ Consuming(c, b)'
  BY <1>1 DEF IsList, Lists, IsChain, Ends, Accounted, Taken, Consuming
<1>4. Len(c) - b < Cap
  <2>1. Len(c) - b \in Nat
    BY ListFacts DEF IsList
  <2>2. Len(Content) = Len(c) - b
    BY <2>1, ContentIs DEF IsList
  <2> QED
    BY <1>1, <2>2
<1>5. Producing(c, b)'
  BY <1>1, <1>4 DEF Producing
<1> QED
  BY <1>2, <1>3, <1>5 DEF IsList

LEMMA AllocateNodeKeeps ==
  ASSUME NEW c \in Seq(Nodes), NEW a \in Nat, NEW b \in Nat, QueueTypeOK, IsList(c, a, b),
         AllocateNode
  PROVE  QueueTypeOK' /\ IsList(c, a, b)'
<1>1. PICK m \in heap : n' = m /\ heap' = heap \ {m}
  BY DEF AllocateNode
<1>2. /\ ppc = "realloc" /\ ppc' = "fill"
      /\ UNCHANGED <<next, value, first, tailCopy, head, tail, length, v, plen,
                     cpc, size, event, clen>>
  BY DEF AllocateNode, consVars
<1>3. QueueTypeOK'
  BY <1>1, <1>2 DEF QueueTypeOK
<1>4. Lists(c, a, b)' /\ Ends(c)' /\ Consuming(c, b)'
  BY <1>2 DEF IsList, Lists, IsChain, Ends, Consuming
<1>5. Taken = {} /\ Taken' = {m}
  BY <1>1, <1>2 DEF Taken
<1>6. Accounted(c)'
  BY <1>1, <1>5 DEF IsList, Accounted
<1>7. Producing(c, b)'
  BY <1>1, <1>2 DEF IsList, Producing, QueueTypeOK
<1> QED
  BY <1>3, <1>4, <1>6, <1>7 DEF IsList

LEMMA FillKeeps ==
  ASSUME NEW c \in Seq(Nodes), NEW a \in Nat, NEW b \in Nat, QueueTypeOK, IsList(c, a, b), Fill
  PROVE  QueueTypeOK' /\ IsList(c, a, b)' /\ \A i \in DOMAIN c : value'[c[i]] = value[c[i]]
<1>1. /\ ppc = "fill" /\ ppc' = "publish"
      /\ next' = [next EXCEPT ![n] = NULL] /\ value' = [value EXCEPT ![n] = v]
      /\ UNCHANGED <<heap, first, tailCopy, head, tail, length, v, n, plen,
                     cpc, size, event, clen>>
  BY DEF Fill, consVars
<1>2. n \in Nodes /\ \A i \in DOMAIN c : c[i] # n
  BY <1>1 DEF IsList, Accounted, Producing, Taken
<1>3. QueueTypeOK'
  BY <1>1, <1>2 DEF QueueTypeOK
<1>4. \A i \in DOMAIN c : c[i] \in Nodes /\ next'[c[i]] = next[c[i]] /\ value'[c[i]] = value[c[i]]
  BY <1>1, <1>2 DEF QueueTypeOK
<1>5. Lists(c, a, b)'
  BY <1>1, <1>4 DEF IsList, Lists, IsChain
<1>6. Ends(c)' /\ Accounted(c)'
  BY <1>1 DEF IsList, Ends, Accounted, Taken
<1>7. Producing(c, b)'
  BY <1>1, <1>2 DEF IsList, Producing, QueueTypeOK
<1>8. Consuming(c, b)'
  <2>1. cpc = "advance" => b + 1 \in DOMAIN c
    BY ListFacts DEF IsList, Consuming
  <2> QED
    BY <1>1, <1>4, <2>1 DEF IsList, Consuming
<1> QED
  BY <1>3, <1>4, <1>5, <1>6, <1>7, <1>8 DEF IsList

LEMMA CountingKeeps ==
  ASSUME NEW c \in Seq(Nodes), NEW a \in Nat, NEW b \in Nat, QueueTypeOK, IsList(c, a, b),
         IncrementRead \/ IncrementWrite
  PROVE  QueueTypeOK' /\ IsList(c, a, b)'
<1>1. /\ ppc \in {"count", "counted"} /\ ppc' \in {"counted", "advance"}
      /\ UNCHANGED <<next, value, heap, first, tailCopy, head, tail, v, n,
                     cpc, size, event, clen>>
      /\ plen' \in {plen, length} /\ length' \in {length, (plen + 1) % Width}
  BY DEF IncrementRead, IncrementWrite, memVars, consVars
<1>2. (plen + 1) % Width \in 0..(Width - 1)
  BY WidthAssumption DEF QueueTypeOK
<1>3. QueueTypeOK'
  BY <1>1, <1>2 DEF QueueTypeOK
<1>4. Lists(c, a, b)' /\ Ends(c)' /\ Consuming(c, b)'
  BY <1>1 DEF IsList, Lists, IsChain, Ends, Consuming
<1>5. Accounted(c)' /\ Producing(c, b)'
  BY <1>1 DEF IsList, Accounted, Taken, Producing
<1> QED
  BY <1>3, <1>4, <1>5 DEF IsList

LEMMA MoveHeadKeeps ==
  ASSUME NEW c \in Seq(Nodes), NEW a \in Nat, NEW b \in Nat, QueueTypeOK, IsList(c, a, b), MoveHead
  PROVE  QueueTypeOK' /\ IsList(c, a, b)'
<1>1. /\ ppc = "advance" /\ ppc' = "idle" /\ head' = n
      /\ UNCHANGED <<next, value, heap, first, tailCopy, tail, length, v, n, plen,
                     cpc, size, event, clen>>
  BY DEF MoveHead, memVars, consVars
<1>2. n = c[Len(c)] /\ n \in Nodes
  BY <1>1, ListFacts DEF IsList, Ends
<1>3. QueueTypeOK'
  BY <1>1, <1>2 DEF QueueTypeOK
<1>4. Lists(c, a, b)' /\ Ends(c)' /\ Consuming(c, b)'
  BY <1>1, <1>2 DEF IsList, Lists, IsChain, Ends, Consuming
<1>5. Accounted(c)' /\ Producing(c, b)'
  BY <1>1 DEF IsList, Accounted, Taken, Producing
<1> QED
  BY <1>3, <1>4, <1>5 DEF IsList

(* The monitor's steps, but for those that take an event. *)
LEMMA PassKeeps ==
  ASSUME NEW c \in Seq(Nodes), NEW a \in Nat, NEW b \in Nat, QueueTypeOK, IsList(c, a, b),
         StartPass \/ EndPass \/ DecrementRead \/ DecrementWrite
  PROVE  QueueTypeOK' /\ IsList(c, a, b)'
<1>1. UNCHANGED <<next, value, heap, first, tailCopy, head, tail, ppc, v, n, plen, event>>
  BY DEF StartPass, EndPass, DecrementRead, DecrementWrite, memVars, prodVars
<1>2. Lists(c, a, b)' /\ Ends(c)' /\ Accounted(c)' /\ Producing(c, b)'
  BY <1>1 DEF IsList, Lists, IsChain, Ends, Accounted, Taken, Producing
<1>3. CASE StartPass \/ EndPass
  <2>1. cpc' \in {"idle", "dequeue"} /\ size' \in {size, length} /\ UNCHANGED <<length, clen>>
    BY <1>3 DEF StartPass, EndPass
  <2>2. QueueTypeOK'
    BY <1>1, <2>1 DEF QueueTypeOK
  <2>3. Consuming(c, b)'
    BY <2>1 DEF Consuming
  <2> QED
    BY <1>2, <2>2, <2>3 DEF IsList
<1>4. CASE DecrementRead
  <2>1. cpc = "count" /\ cpc' = "counted" /\ clen' = length /\ UNCHANGED <<size, length>>
    BY <1>4 DEF DecrementRead
  <2>2. QueueTypeOK'
    BY <1>1, <2>1 DEF QueueTypeOK
  <2>3. Consuming(c, b)'
    BY <2>1 DEF IsList, Consuming
  <2> QED
    BY <1>2, <2>2, <2>3 DEF IsList
<1>5. CASE DecrementWrite
  <2>1. /\ cpc = "counted" /\ cpc' = "dequeue" /\ UNCHANGED clen
        /\ length' = (clen + Width - 1) % Width /\ size' = size - 1
    BY <1>5 DEF DecrementWrite
  <2>2. size # 0
    BY <2>1 DEF IsList, Consuming
  <2>3. length' \in 0..(Width - 1) /\ size' \in 0..(Width - 1)
    BY <2>1, <2>2, WidthAssumption DEF QueueTypeOK
  <2>4. QueueTypeOK'
    BY <1>1, <2>1, <2>3 DEF QueueTypeOK
  <2>5. Consuming(c, b)'
    BY <2>1 DEF Consuming
  <2> QED
    BY <1>2, <2>4, <2>5 DEF IsList
<1> QED
  BY <1>3, <1>4, <1>5

(* The steps that move along the list or change it. *)
LEMMA LoadTailKeeps ==
  ASSUME NEW c \in Seq(Nodes), NEW a \in Nat, NEW b \in Nat, QueueTypeOK, IsList(c, a, b), LoadTail
  PROVE  QueueTypeOK' /\ IsList(c, b, b)'
<1>1. /\ ppc = "alloc" /\ ppc' = "realloc" /\ tailCopy' = tail
      /\ UNCHANGED <<next, value, heap, first, head, tail, length, v, n, plen,
                     cpc, size, event, clen>>
  BY DEF LoadTail, memVars, consVars
<1>2. QueueTypeOK'
  BY <1>1 DEF QueueTypeOK
<1>3. Lists(c, b, b)'
  BY <1>1, ListFacts DEF IsList, Lists, IsChain
<1>4. Ends(c)' /\ Accounted(c)' /\ Consuming(c, b)'
  BY <1>1 DEF IsList, Ends, Accounted, Taken, Consuming
<1>5. first = tail => Len(c) <= Cap
  <2>1. Len(c) - b < Cap
    BY <1>1 DEF IsList, Producing
  <2>2. first = tail => b = 1
    BY ListFacts DEF IsList, Lists
  <2> QED
    BY <2>1, <2>2, ListFacts, CapAssumption DEF IsList
<1>6. Producing(c, b)'
  BY <1>1, <1>5 DEF IsList, Producing
<1> QED
  BY <1>2, <1>3, <1>4, <1>6 DEF IsList

(* The first node leaves the list: it is neither tail_ nor after it. *)
LEMMA RecycleKeeps ==
  ASSUME NEW c \in Seq(Nodes), NEW a \in Nat, NEW b \in Nat, QueueTypeOK, IsList(c, a, b), Recycle,
         NEW d \in Seq(Nodes), Len(d) = Len(c) - 1, \A i \in 1..Len(d) : d[i] = c[i + 1]
  PROVE  QueueTypeOK' /\ a - 1 \in Nat /\ b - 1 \in Nat /\ IsList(d, a - 1, b - 1)'
<1>1. /\ ppc \in {"alloc", "realloc"} /\ ppc' = "fill" /\ n' = first /\ first' = next[first]
      /\ first # tailCopy
      /\ UNCHANGED <<next, value, heap, tailCopy, head, tail, length, v, plen,
                     cpc, size, event, clen>>
  BY DEF Recycle, memVars, consVars
<1>2. /\ Len(c) \in Nat \ {0} /\ DOMAIN c = 1..Len(c) /\ \A i \in 1..Len(c) : c[i] \in Nodes
      /\ \A i, j \in DOMAIN c : c[i] = c[j] => i = j
      /\ \A i \in 1..Len(c) : next[c[i]] = IF i = Len(c) THEN NULL ELSE c[i + 1]
      /\ c[1] = first /\ c[a] = tailCopy /\ c[b] = tail /\ head = c[Len(c)]
  BY <1>1, ListFacts DEF IsList, Lists, Ends
<1>3. a \in 2..Len(c) /\ b \in a..Len(c)
  <2>1. a \in 1..Len(c) /\ b \in a..Len(c) /\ a # 1
    BY <1>1, <1>2, ListFacts DEF IsList
  <2> QED
    BY <1>2, <2>1
<1>4. /\ d \in Seq(Nodes) /\ Len(d) = Len(c) - 1 /\ Len(d) \in Nat /\ DOMAIN d = 1..Len(d)
      /\ \A i \in 1..Len(d) : d[i] = c[i + 1]
  OBVIOUS
<1>5. a - 1 \in 1..Len(d) /\ b - 1 \in (a - 1)..Len(d) /\ a - 1 \in Nat /\ b - 1 \in Nat
  BY <1>2, <1>3, <1>4
<1>6. d[1] = next[first] /\ d[a - 1] = tailCopy /\ d[b - 1] = tail
  BY <1>2, <1>3, <1>4
<1>7. QueueTypeOK'
  <2>1. first' \in Nodes /\ n' \in Nodes
    BY <1>1, <1>4, <1>5, <1>6 DEF QueueTypeOK
  <2> QED
    BY <1>1, <2>1 DEF QueueTypeOK
<1>8. Lists(d, a - 1, b - 1)'
  <2>1. \A i, j \in DOMAIN d : d[i] = d[j] => i = j
    BY <1>2, <1>4
  <2>2. \A i \in DOMAIN d : next[d[i]] = IF i = Len(d) THEN NULL ELSE d[i + 1]
    <3> SUFFICES ASSUME NEW i \in 1..Len(d)
                 PROVE  next[d[i]] = IF i = Len(d) THEN NULL ELSE d[i + 1]
      BY <1>4
    <3>1. i + 1 \in 1..Len(c) /\ d[i] = c[i + 1] /\ (i # Len(d) => i + 1 \in 1..Len(d))
      BY <1>2, <1>4
    <3>2. i # Len(d) => d[i + 1] = c[i + 2]
      BY <1>4, <3>1
    <3> QED
      BY <1>2, <1>4, <3>1, <3>2
  <2> QED
    BY <1>1, <1>5, <1>6, <2>1, <2>2 DEF Lists, IsChain
<1>9. Ends(d)'
  BY <1>1, <1>2, <1>3, <1>4 DEF Ends
<1>10. Accounted(d)'
  <2>1. Taken = {} /\ Taken' = {first}
    BY <1>1 DEF Taken
  <2>2. ASSUME NEW i \in 1..Len(d) PROVE d[i] \notin heap /\ d[i] # first
    <3>1. i + 1 \in 1..Len(c) /\ i + 1 # 1 /\ 1 \in 1..Len(c) /\ d[i] = c[i + 1]
      BY <1>2, <1>4
    <3>2. c[i + 1] \notin heap
      BY <1>2, <3>1 DEF IsList, Accounted
    <3> QED
      BY <1>2, <3>1, <3>2
  <2>3. first \notin heap
    BY <1>2 DEF IsList, Accounted
  <2>4. ASSUME NEW m \in Nodes, m \notin heap, m # first PROVE \E i \in DOMAIN d : d[i] = m
    <3>1. PICK i \in 1..Len(c) : c[i] = m
      BY <1>2, <2>1, <2>4 DEF IsList, Accounted
    <3>2. i - 1 \in 1..Len(d) /\ d[i - 1] = m
      BY <1>2, <1>4, <2>4, <3>1
    <3> QED
      BY <1>4, <3>2
  <2> QED
    BY <1>1, <1>4, <2>1, <2>2, <2>3, <2>4 DEF Accounted
<1>11. Producing(d, b - 1)'
  BY <1>1, <1>2 DEF IsList, Producing
<1>12. Consuming(d, b - 1)'
  <2>1. cpc = "advance" => b < Len(c) /\ b \in 1..Len(d) /\ d[b] = c[b + 1] /\ b - 1 < Len(d)
    BY <1>2, <1>3, <1>4 DEF IsList, Consuming
  <2>2. (b - 1) + 1 = b
    BY <1>3
  <2> QED
    BY <1>1, <2>1, <2>2 DEF IsList, Consuming
<1> QED
  BY <1>4, <1>5, <1>7, <1>8, <1>9, <1>10, <1>11, <1>12 DEF IsList

(* The node that was filled becomes the last one. *)
LEMMA PublishKeeps ==
  ASSUME NEW c \in Seq(Nodes), NEW a \in Nat, NEW b \in Nat, QueueTypeOK, IsList(c, a, b), Publish,
         NEW d \in Seq(Nodes), Len(d) = Len(c) + 1, d[Len(d)] = n,
         \A i \in 1..Len(c) : d[i] = c[i]
  PROVE  QueueTypeOK' /\ IsList(d, a, b)'
<1>1. /\ ppc = "publish" /\ ppc' = "count" /\ next' = [next EXCEPT ![head] = n]
      /\ UNCHANGED <<value, heap, first, tailCopy, head, tail, length, v, n, plen,
                     cpc, size, event, clen>>
  BY DEF Publish, consVars
<1>2. PICK k \in Nat \ {0} : k = Len(c)
  BY ListFacts DEF IsList
<1>3. a \in 1..k /\ b \in a..k /\ b \in 1..k
  BY <1>2, ListFacts DEF IsList
<1>4. DOMAIN c = 1..k /\ DOMAIN d = 1..(k + 1) /\ Len(d) = k + 1
  BY <1>2
<1>5. d[k + 1] = n /\ \A i \in 1..k : d[i] = c[i] /\ c[i] \in Nodes
  BY <1>2, <1>4
<1>6. c[1] = first /\ c[a] = tailCopy /\ c[b] = tail /\ c[k] = head
  BY <1>1, <1>2 DEF IsList, Lists, Ends
<1>7. \A i, j \in 1..k : c[i] = c[j] => i = j
  BY <1>4 DEF IsList, Lists
<1>8. \A i \in 1..k : next[c[i]] = IF i = k THEN NULL ELSE c[i + 1]
  BY <1>2, <1>4 DEF IsList, Lists, IsChain
<1>9. n \in Nodes /\ next[n] = NULL /\ \A i \in 1..k : c[i] # n
  BY <1>1, <1>4 DEF IsList, Accounted, Producing, Taken
<1>10. QueueTypeOK'
  BY <1>1, <1>9 DEF QueueTypeOK
<1>11. Lists(d, a, b)'
  <2>1. ASSUME NEW i \in 1..(k + 1), NEW j \in 1..(k + 1), d[i] = d[j] PROVE i = j
    <3>1. CASE i \in 1..k /\ j \in 1..k
      BY <1>5, <1>7, <2>1, <3>1
    <3>2. CASE i \notin 1..k \/ j \notin 1..k
      BY <1>5, <1>9, <2>1, <3>2
    <3> QED
      BY <3>1, <3>2
  <2>2. ASSUME NEW i \in 1..(k + 1)
        PROVE  next'[d[i]] = IF i = k + 1 THEN NULL ELSE d[i + 1]
    <3>1. next \in [Nodes -> Nodes \cup {NULL}] /\ k \in 1..k /\ n # head /\ head \in Nodes
      BY <1>5, <1>6, <1>9 DEF QueueTypeOK
    <3>2. CASE i = k + 1
      BY <1>1, <1>5, <1>9, <3>1, <3>2
    <3>3. CASE i = k
      BY <1>1, <1>5, <1>6, <3>1, <3>3
    <3>4. CASE i # k + 1 /\ i # k
      <4>1. i \in 1..k /\ i + 1 \in 1..k
        BY <3>4
      <4>2. d[i] = c[i] /\ d[i + 1] = c[i + 1] /\ c[i] # head /\ c[i] \in Nodes
        BY <1>5, <1>6, <1>7, <3>1, <3>4, <4>1
      <4> QED
        BY <1>1, <1>8, <3>1, <3>4, <4>1, <4>2
    <3> QED
      BY <3>2, <3>3, <3>4
  <2>3. a \in 1..(k + 1) /\ b \in a..(k + 1)
    BY <1>3
  <2>4. d[1] = first /\ d[a] = tailCopy /\ d[b] = tail
    BY <1>3, <1>5, <1>6
  <2>5. d[1] = first' /\ d[a] = tailCopy' /\ d[b] = tail'
    BY <1>1, <2>4
  <2> QED
    BY <1>4, <2>1, <2>2, <2>3, <2>5 DEF Lists, IsChain
<1>12. Ends(d)'
  <2>1. k + 1 >= 2 /\ d[(k + 1) - 1] = head /\ d[k + 1] = n
    BY <1>5, <1>6
  <2> QED
    BY <1>1, <1>4, <2>1 DEF Ends
<1>13. Accounted(d)'
  <2>1. Taken = {n} /\ Taken' = {} /\ heap' = heap
    BY <1>1 DEF Taken
  <2>2. /\ \A i \in 1..k : c[i] \notin heap
        /\ n \notin heap
        /\ \A m \in Nodes : m \in heap \/ m = n \/ \E i \in 1..k : c[i] = m
    BY <1>4, <2>1 DEF IsList, Accounted
  <2>3. ASSUME NEW i \in 1..(k + 1) PROVE d[i] \notin heap
    BY <1>5, <2>2
  <2>4. ASSUME NEW m \in Nodes, m \notin heap PROVE \E i \in 1..(k + 1) : d[i] = m
    <3>1. k + 1 \in 1..(k + 1) /\ \A i \in 1..k : i \in 1..(k + 1)
      OBVIOUS
    <3> QED
      BY <1>5, <2>2, <2>4, <3>1
  <2> QED
    BY <1>4, <2>1, <2>3, <2>4 DEF Accounted
<1>14. Producing(d, b)'
  BY <1>1 DEF IsList, Producing
<1>15. Consuming(d, b)'
  <2>1. cpc = "advance" => b < k /\ event = value[c[b + 1]]
    BY <1>2 DEF IsList, Consuming
  <2>2. cpc = "advance" => b + 1 \in 1..k /\ b < k + 1
    BY <1>3, <2>1
  <2>3. cpc = "advance" => event = value[d[b + 1]]
    BY <1>5, <2>1, <2>2
  <2>4. cpc \in {"advance", "count", "counted"} => size # 0
    BY DEF IsList, Consuming
  <2> QED
    BY <1>1, <1>4, <2>2, <2>3, <2>4 DEF Consuming
<1> QED
  BY <1>10, <1>11, <1>12, <1>13, <1>14, <1>15 DEF IsList

LEMMA ReadValueKeeps ==
  ASSUME NEW c \in Seq(Nodes), NEW a \in Nat, NEW b \in Nat, QueueTypeOK, IsList(c, a, b), ReadValue
  PROVE  /\ QueueTypeOK' /\ IsList(c, a, b)'
         /\ b < Len(c) /\ event' = value[c[b + 1]]
<1>1. /\ cpc = "dequeue" /\ cpc' = "advance" /\ size # 0 /\ next[tail] # NULL
      /\ event' = value[next[tail]]
      /\ UNCHANGED <<next, value, heap, first, tailCopy, head, tail, length, ppc, v, n, plen,
                     size, clen>>
  BY DEF ReadValue, memVars, prodVars
<1>2. b < Len(c) /\ next[tail] = c[b + 1] /\ next[tail] \in Nodes
  BY <1>1, ListFacts DEF IsList, Lists
<1>3. QueueTypeOK'
  BY <1>1, <1>2 DEF QueueTypeOK
<1>4. Lists(c, a, b)' /\ Ends(c)' /\ Accounted(c)' /\ Producing(c, b)'
  BY <1>1 DEF IsList, Lists, IsChain, Ends, Accounted, Taken, Producing
<1>5. Consuming(c, b)'
  BY <1>1, <1>2 DEF Consuming
<1> QED
  BY <1>1, <1>2, <1>3, <1>4, <1>5 DEF IsList

LEMMA MoveTailKeeps ==
  ASSUME NEW c \in Seq(Nodes), NEW a \in Nat, NEW b \in Nat, QueueTypeOK, IsList(c, a, b), MoveTail
  PROVE  QueueTypeOK' /\ IsList(c, a, b + 1)'
<1>1. /\ cpc = "advance" /\ cpc' = "count" /\ tail' = next[tail]
      /\ UNCHANGED <<next, value, heap, first, tailCopy, head, length, ppc, v, n, plen,
                     size, event, clen>>
  BY DEF MoveTail, memVars, prodVars
<1>2. b < Len(c) /\ next[tail] = c[b + 1] /\ next[tail] \in Nodes
  BY <1>1, ListFacts DEF IsList, Lists, Consuming
<1>3. QueueTypeOK'
  BY <1>1, <1>2 DEF QueueTypeOK
<1>4. Lists(c, a, b + 1)'
  BY <1>1, <1>2, ListFacts DEF IsList, Lists, IsChain
<1>5. Ends(c)' /\ Accounted(c)'
  BY <1>1 DEF IsList, Ends, Accounted, Taken
<1>6. Producing(c, b + 1)'
  BY <1>1, ListFacts, CapAssumption DEF IsList, Producing
<1>7. Consuming(c, b + 1)'
  BY <1>1 DEF IsList, Consuming
<1> QED
  BY <1>3, <1>4, <1>5, <1>6, <1>7 DEF IsList

LEMMA StepKeepsList == Inv /\ [Next]_vars => Inv'
<1> SUFFICES ASSUME Inv, [Next]_vars PROVE Inv'
  OBVIOUS
<1>1. QueueTypeOK
  BY DEF Inv
<1>2. PICK c \in Seq(Nodes), a \in Nat, b \in Nat : IsList(c, a, b)
  BY DEF Inv
<1> DEFINE Kept == QueueTypeOK' /\ \E d \in Seq(Nodes), e, f \in Nat : IsList(d, e, f)'
<1>3. CASE \E w \in Values : Enqueue(w)
  <2>1. Kept
    BY <1>1, <1>2, <1>3, EnqueueKeeps
  <2> QED
    BY <2>1 DEF Inv
<1>4. CASE Recycle
  <2>1. c # << >>
    BY <1>2 DEF IsList, Lists
  <2>2. PICK d \in Seq(Nodes) : Len(d) = Len(c) - 1 /\ \A i \in 1..Len(d) : d[i] = c[i + 1]
    BY <2>1, HeadTailProperties
  <2>3. QueueTypeOK' /\ a - 1 \in Nat /\ b - 1 \in Nat /\ IsList(d, a - 1, b - 1)'
    BY <1>1, <1>2, <1>4, <2>2, RecycleKeeps
  <2> QED
    BY <2>3 DEF Inv
<1>5. CASE LoadTail
  BY <1>1, <1>2, <1>5, LoadTailKeeps DEF Inv
<1>6. CASE AllocateNode
  BY <1>1, <1>2, <1>6, AllocateNodeKeeps DEF Inv
<1>7. CASE Fill
  BY <1>1, <1>2, <1>7, FillKeeps DEF Inv
<1>8. CASE Publish
  <2>1. n \in Nodes
    BY <1>2, <1>8 DEF Publish, IsList, Producing
  <2>2. PICK d \in Seq(Nodes) : /\ Len(d) = Len(c) + 1 /\ d[Len(d)] = n
                                /\ \A i \in 1..Len(c) : d[i] = c[i]
    <3>1. /\ Append(c, n) \in Seq(Nodes) /\ Len(Append(c, n)) = Len(c) + 1
          /\ \A i \in 1..Len(c) : Append(c, n)[i] = c[i]
          /\ Append(c, n)[Len(c) + 1] = n
      BY <2>1, AppendProperties
    <3> QED
      BY <3>1
  <2>3. QueueTypeOK' /\ IsList(d, a, b)'
    BY <1>1, <1>2, <1>8, <2>2, PublishKeeps
  <2> QED
    BY <2>3 DEF Inv
<1>9. CASE IncrementRead \/ IncrementWrite
  BY <1>1, <1>2, <1>9, CountingKeeps DEF Inv
<1>10. CASE MoveHead
  BY <1>1, <1>2, <1>10, MoveHeadKeeps DEF Inv
<1>11. CASE StartPass \/ EndPass \/ DecrementRead \/ DecrementWrite
  BY <1>1, <1>2, <1>11, PassKeeps DEF Inv
<1>12. CASE ReadValue
  BY <1>1, <1>2, <1>12, ReadValueKeeps DEF Inv
<1>13. CASE MoveTail
  <2>1. QueueTypeOK' /\ IsList(c, a, b + 1)' /\ b + 1 \in Nat
    BY <1>1, <1>2, <1>13, MoveTailKeeps
  <2> QED
    BY <2>1 DEF Inv
<1>14. CASE UNCHANGED vars
  <2>1. UNCHANGED <<next, value, heap, first, tailCopy, head, tail, length, ppc, v, n, plen,
                    cpc, size, event, clen>>
    BY <1>14 DEF vars, memVars, prodVars, consVars
  <2>2. QueueTypeOK'
    BY <1>1, <2>1 DEF QueueTypeOK
  <2>3. IsList(c, a, b)'
    BY <1>2, <2>1 DEF IsList, Lists, IsChain, Ends, Accounted, Taken, Producing, Consuming
  <2> QED
    BY <2>2, <2>3 DEF Inv
<1> QED
  BY <1>3, <1>4, <1>5, <1>6, <1>7, <1>8, <1>9, <1>10, <1>11, <1>12, <1>13, <1>14
     DEF Next, Producer, Consumer

LEMMA ListAlways == Spec => []Inv
  BY InitList, StepKeepsList, PTL DEF Spec

-----------------------------------------------------------------------------
(* The refinement *)

(* The events in the list after place r.  While the monitor is between     *)
(* reading a value and moving tail_, r is the place after tail_.           *)
Events(c, r) == [i \in 1..(Len(c) - r) |-> value[c[r + i]]]
Reads(b) == IF cpc = "advance" THEN b + 1 ELSE b

(* What SpscQueue puts for the queue of EventFifo *)
Queue == IF cpc = "advance" THEN Tail(Content) ELSE Content

QueueIsEvents ==
  \A c \in Seq(Nodes), a, b \in Nat :
    QueueTypeOK /\ IsList(c, a, b) => Queue = Events(c, Reads(b))

(* Head and tail of a sequence that is given by its elements *)
LEMMA HeadTailOf ==
  ASSUME NEW k \in Nat \ {0}, NEW S, NEW s \in Seq(S), Len(s) = k
  PROVE  Head(s) = s[1] /\ Tail(s) = [i \in 1..(k - 1) |-> s[i + 1]]
<1>1. s # << >>
  OBVIOUS
<1>2. Tail(s) \in Seq(S) /\ Len(Tail(s)) = k - 1 /\ \A i \in 1..(k - 1) : Tail(s)[i] = s[i + 1]
  BY <1>1, HeadTailProperties
<1>3. Tail(s) = [i \in 1..(k - 1) |-> Tail(s)[i]]
  <2>1. PICK u \in Seq(S) : u = Tail(s)
    BY <1>2
  <2>2. Len(u) = k - 1
    BY <1>2, <2>1
  <2>3. u = [i \in 1..Len(u) |-> u[i]]
    OBVIOUS
  <2> QED
    BY ONLY <2>1, <2>2, <2>3
<1> QED
  BY <1>1, <1>2, <1>3

(* The events are a sequence, and without the first one the events from    *)
(* the next place on.                                                      *)
LEMMA EventsFacts ==
  ASSUME NEW c \in Seq(Nodes), NEW r \in Nat, r <= Len(c),
         value \in [Nodes -> Values \cup {NULL}]
  PROVE  /\ Events(c, r) \in Seq(Values \cup {NULL})
         /\ Len(Events(c, r)) = Len(c) - r
         /\ r < Len(c) => /\ Events(c, r) # << >>
                          /\ Head(Events(c, r)) = value[c[r + 1]]
                          /\ Tail(Events(c, r)) = Events(c, r + 1)
<1>1. PICK k \in Nat : k = Len(c) - r
  OBVIOUS
<1>2. \A i \in 1..k : r + i \in 1..Len(c) /\ c[r + i] \in Nodes
  BY <1>1
<1>3. \A i \in 1..k : value[c[r + i]] \in Values \cup {NULL}
  BY <1>2
<1>4. PICK s : s = Events(c, r)
  OBVIOUS
<1>5. s = [i \in 1..k |-> value[c[r + i]]]
  BY <1>1, <1>4 DEF Events
<1>6. s \in Seq(Values \cup {NULL}) /\ Len(s) = k
  BY <1>3, <1>5, IsASeq
<1>7. ASSUME r < Len(c)
      PROVE  s # << >> /\ Head(s) = value[c[r + 1]] /\ Tail(s) = Events(c, r + 1)
  <2>1. k \in Nat \ {0}
    BY <1>1, <1>7
  <2>2. Head(s) = s[1] /\ Tail(s) = [i \in 1..(k - 1) |-> s[i + 1]]
    BY <1>6, <2>1, HeadTailOf
  <2>3. \A i \in 1..(k - 1) : s[i + 1] = value[c[(r + 1) + i]]
    <3>1. \A i \in 1..(k - 1) : i + 1 \in 1..k /\ r + (i + 1) = (r + 1) + i
      BY <2>1
    <3> QED
      BY <1>5, <3>1
  <2>4. k - 1 = Len(c) - (r + 1)
    BY <1>1
  <2>5. s[1] = value[c[r + 1]]
    BY <1>5, <2>1
  <2> QED
    BY <1>6, <2>1, <2>2, <2>3, <2>4, <2>5 DEF Events
<1> QED
  BY <1>1, <1>4, <1>6, <1>7

LEMMA QueueNow == QueueIsEvents
<1> SUFFICES ASSUME NEW c \in Seq(Nodes), NEW a \in Nat, NEW b \in Nat,
                    QueueTypeOK, IsList(c, a, b)
             PROVE  Queue = Events(c, Reads(b))
  BY DEF QueueIsEvents
<1>1. Content = Events(c, b)
  BY ContentIs DEF IsList, Events
<1>2. CASE cpc = "advance"
  <2>1. b < Len(c)
    BY <1>2 DEF IsList, Consuming
  <2>2. Len(c) \in Nat /\ value \in [Nodes -> Values \cup {NULL}]
    BY DEF QueueTypeOK
  <2>3. b <= Len(c)
    BY ONLY b \in Nat, <2>1, <2>2
  <2>4. Tail(Events(c, b)) = Events(c, b + 1)
    BY ONLY c \in Seq(Nodes), b \in Nat, <2>1, <2>2, <2>3, EventsFacts
  <2> QED
    BY <1>1, <1>2, <2>4 DEF Queue, Reads
<1>3. CASE cpc # "advance"
  BY <1>1, <1>3 DEF Queue, Reads
<1> QED
  BY <1>2, <1>3

LEMMA QueueNext == QueueIsEvents'
  BY QueueNow, PTL

LEMMA StepMaps == Inv /\ [Next]_vars => [F!Next]_(F!vars)
<1> SUFFICES ASSUME Inv, [Next]_vars
             PROVE  \/ Queue' = Queue /\ event' = event
                    \/ \E w \in Values : Queue' = Append(Queue, w) /\ event' = event
                    \/ Queue # << >> /\ event' = Head(Queue) /\ Queue' = Tail(Queue)
  BY DEF F!Next, F!vars, F!Put, F!Take, Queue
<1>1. QueueTypeOK
  BY DEF Inv
<1>2. PICK c \in Seq(Nodes), a \in Nat, b \in Nat : IsList(c, a, b)
  BY DEF Inv
<1>3. /\ Len(c) \in Nat \ {0} /\ DOMAIN c = 1..Len(c) /\ b \in 1..Len(c)
      /\ cpc = "advance" => b < Len(c)
  BY <1>2, ListFacts DEF IsList, Consuming
<1>4. PICK r \in Nat : r = Reads(b)
  BY DEF Reads
<1>5. Queue = Events(c, r)
  BY <1>1, <1>2, <1>4, QueueNow DEF QueueIsEvents
<1> DEFINE L == Len(c)
<1>0. L \in Nat \ {0} /\ r <= L /\ L - r \in Nat
  BY <1>3, <1>4 DEF Reads
<1>a. value \in [Nodes -> Values \cup {NULL}]
  BY <1>1 DEF QueueTypeOK
<1>6. CASE \/ \E w \in Values : Enqueue(w)
           \/ LoadTail \/ AllocateNode \/ IncrementRead \/ IncrementWrite \/ MoveHead
           \/ StartPass \/ EndPass \/ DecrementRead \/ DecrementWrite \/ UNCHANGED vars
  <2>1. /\ value' = value /\ event' = event
        /\ cpc = "advance" <=> cpc' = "advance"
    BY <1>6 DEF Enqueue, LoadTail, AllocateNode, IncrementRead, IncrementWrite, MoveHead,
                StartPass, EndPass, DecrementRead, DecrementWrite, vars, memVars, prodVars,
                consVars
  <2>2. QueueTypeOK' /\ \E e \in Nat : IsList(c, e, b)'
    <3>1. CASE UNCHANGED vars
      <4>1. UNCHANGED <<next, value, heap, first, tailCopy, head, tail, length, ppc, v, n,
                        plen, cpc, size, event, clen>>
        BY <3>1 DEF vars, memVars, prodVars, consVars
      <4>2. QueueTypeOK'
        BY <1>1, <4>1 DEF QueueTypeOK
      <4>3. IsList(c, a, b)'
        BY <1>2, <4>1 DEF IsList, Lists, IsChain, Ends, Accounted, Taken, Producing, Consuming
      <4> QED
        BY <4>2, <4>3
    <3> QED
      BY <1>1, <1>2, <1>6, <3>1, EnqueueKeeps, LoadTailKeeps, AllocateNodeKeeps,
         CountingKeeps, MoveHeadKeeps, PassKeeps
  <2>3. r = Reads(b)'
    BY <1>4, <2>1 DEF Reads
  <2>4. Queue' = Events(c, r)'
    BY <2>2, <2>3, QueueNext DEF QueueIsEvents
  <2>5. Queue' = Queue
    BY <1>5, <2>1, <2>4 DEF Events
  <2> QED
    BY <2>1, <2>5
<1>7. CASE Fill
  <2>1. QueueTypeOK' /\ IsList(c, a, b)' /\ \A i \in DOMAIN c : value'[c[i]] = value[c[i]]
    BY <1>1, <1>2, <1>7, FillKeeps
  <2>2. UNCHANGED <<cpc, event>>
    BY <1>7 DEF Fill, consVars
  <2>3. r = Reads(b)'
    BY <1>4, <2>2 DEF Reads
  <2>4. \A i \in 1..(L - r) : r + i \in DOMAIN c
    BY <1>0, <1>3
  <2>5. \A i \in 1..(Len(c) - r) : value'[c[r + i]] = value[c[r + i]]
    BY <2>1, <2>4
  <2>6. Queue' = Events(c, r)'
    BY <2>1, <2>3, QueueNext DEF QueueIsEvents
  <2>7. Queue' = Queue
    BY <1>5, <2>5, <2>6 DEF Events
  <2> QED
    BY <2>2, <2>7
<1>8. CASE Recycle
  <2>1. PICK d \in Seq(Nodes) : Len(d) = Len(c) - 1 /\ \A i \in 1..Len(d) : d[i] = c[i + 1]
    <3>1. c # << >>
      BY <1>3
    <3> QED
      BY <3>1, HeadTailProperties
  <2>2. QueueTypeOK' /\ a - 1 \in Nat /\ b - 1 \in Nat /\ IsList(d, a - 1, b - 1)'
    BY <1>1, <1>2, <1>8, <2>1, RecycleKeeps
  <2>3. UNCHANGED <<value, cpc, event>>
    BY <1>8 DEF Recycle, memVars, consVars
  <2>4. r - 1 = Reads(b - 1)' /\ r >= 1
    BY <1>3, <1>4, <2>3 DEF Reads
  <2>5. Len(d) - (r - 1) = Len(c) - r
    BY <1>3, <2>1
  <2>6. ASSUME NEW i \in 1..(Len(c) - r) PROVE d[(r - 1) + i] = c[r + i]
    <3>1. (r - 1) + i \in 1..Len(d) /\ ((r - 1) + i) + 1 = r + i
      BY <1>3, <2>1, <2>4
    <3> QED
      BY <2>1, <3>1
  <2>7. Queue' = Events(d, r - 1)'
    BY <2>2, <2>4, QueueNext DEF QueueIsEvents
  <2>8. Events(d, r - 1)' = Events(c, r)
    BY <2>3, <2>5, <2>6 DEF Events
  <2> QED
    BY <1>5, <2>3, <2>7, <2>8
<1>9. CASE Publish
  <2>1. n \in Nodes /\ v \in Values /\ value[n] = v
    BY <1>2, <1>9 DEF Publish, IsList, Producing
  <2>2. PICK d \in Seq(Nodes) : /\ Len(d) = Len(c) + 1 /\ d[Len(d)] = n
                                /\ \A i \in 1..Len(c) : d[i] = c[i]
    <3>1. /\ Append(c, n) \in Seq(Nodes) /\ Len(Append(c, n)) = Len(c) + 1
          /\ \A i \in 1..Len(c) : Append(c, n)[i] = c[i]
          /\ Append(c, n)[Len(c) + 1] = n
      BY <2>1, AppendProperties
    <3> QED
      BY <3>1
  <2>3. QueueTypeOK' /\ IsList(d, a, b)'
    BY <1>1, <1>2, <1>9, <2>2, PublishKeeps
  <2>4. UNCHANGED <<value, cpc, event>>
    BY <1>9 DEF Publish, consVars
  <2>5. r = Reads(b)'
    BY <1>4, <2>4 DEF Reads
  <2>6. Queue' = Events(d, r)'
    BY <2>3, <2>5, QueueNext DEF QueueIsEvents
  <2>7. Events(d, r)' = Events(d, r)
    BY <2>4 DEF Events
  <2>8. PICK k \in Nat : k = L - r
    BY <1>0
  <2>9. Len(d) = L + 1 /\ r <= L + 1 /\ Len(d) - r = k + 1 /\ r + (k + 1) = Len(d)
    <3>1. Len(d) = L + 1
      BY <2>2
    <3> QED
      BY ONLY <1>0, <2>8, <3>1, r \in Nat
  <2>a. /\ Events(c, r) \in Seq(Values \cup {NULL}) /\ Len(Events(c, r)) = k
        /\ Events(d, r) \in Seq(Values \cup {NULL}) /\ Len(Events(d, r)) = k + 1
    <3>1. c \in Seq(Nodes) /\ d \in Seq(Nodes) /\ r \in Nat /\ r <= Len(c) /\ r <= Len(d)
      BY <1>0, <2>9
    <3>2. Events(c, r) \in Seq(Values \cup {NULL}) /\ Len(Events(c, r)) = Len(c) - r
      BY ONLY <1>a, <3>1, EventsFacts
    <3>3. Events(d, r) \in Seq(Values \cup {NULL}) /\ Len(Events(d, r)) = Len(d) - r
      BY ONLY <1>a, <3>1, EventsFacts
    <3> QED
      BY <2>8, <2>9, <3>2, <3>3
  <2>10. /\ \A i \in 1..k : Events(d, r)[i] = Events(c, r)[i]
         /\ Events(d, r)[k + 1] = v
    <3>1. Events(d, r) = [i \in 1..(k + 1) |-> value[d[r + i]]]
      BY <2>9 DEF Events
    <3>2. Events(c, r) = [i \in 1..k |-> value[c[r + i]]]
      BY <2>8 DEF Events
    <3>3. \A i \in 1..k : r + i \in 1..Len(c)
      BY <1>0, <2>8
    <3>4. \A i \in 1..k : d[r + i] = c[r + i]
      BY <2>2, <3>3
    <3>5. d[r + (k + 1)] = n
      BY <2>2, <2>9
    <3>6. k + 1 \in 1..(k + 1) /\ \A i \in 1..k : i \in 1..(k + 1)
      OBVIOUS
    <3>7. ASSUME NEW i \in 1..k PROVE Events(d, r)[i] = Events(c, r)[i]
      <4>1. Events(d, r)[i] = value[d[r + i]]
        BY ONLY <3>1, <3>6, i \in 1..k
      <4>2. Events(c, r)[i] = value[c[r + i]]
        BY ONLY <3>2, i \in 1..k
      <4> QED
        BY ONLY <3>4, <4>1, <4>2, i \in 1..k
    <3>8. Events(d, r)[k + 1] = value[d[r + (k + 1)]]
      BY ONLY <3>1, <3>6
    <3> QED
      BY ONLY <2>1, <3>5, <3>7, <3>8
  <2>11. PICK s, t : s = Events(c, r) /\ t = Events(d, r)
    OBVIOUS
  <2>12. /\ s \in Seq(Values \cup {NULL}) /\ Len(s) = k
         /\ t \in Seq(Values \cup {NULL}) /\ Len(t) = k + 1
         /\ t[k + 1] = v /\ \A i \in 1..k : t[i] = s[i]
    BY ONLY <2>a, <2>10, <2>11
  <2>13. t = Append(s, v)
    <3>1. v \in Values \cup {NULL} /\ k \in Nat
      BY <2>1
    <3>2. /\ Append(s, v) \in Seq(Values \cup {NULL}) /\ Len(Append(s, v)) = k + 1
          /\ Append(s, v)[k + 1] = v /\ \A i \in 1..k : Append(s, v)[i] = s[i]
      BY ONLY <2>12, <3>1, AppendProperties
    <3>3. \A i \in 1..(k + 1) : t[i] = Append(s, v)[i]
      BY ONLY <2>12, <3>1, <3>2
    <3> QED
      BY ONLY <2>12, <3>2, <3>3, SeqEqual
  <2> QED
    BY <1>5, <2>1, <2>4, <2>6, <2>7, <2>11, <2>13
<1>10. CASE ReadValue
  <2>1. QueueTypeOK' /\ IsList(c, a, b)' /\ b < Len(c) /\ event' = value[c[b + 1]]
    BY <1>1, <1>2, <1>10, ReadValueKeeps
  <2>2. cpc # "advance" /\ cpc' = "advance" /\ value' = value
    BY <1>10 DEF ReadValue, memVars
  <2>3. r = b /\ b + 1 = Reads(b)'
    BY <1>4, <2>2 DEF Reads
  <2>4. Queue' = Events(c, b + 1)'
    BY <2>1, <2>3, QueueNext DEF QueueIsEvents
  <2>5. Events(c, b + 1)' = Events(c, b + 1)
    BY <2>2 DEF Events
  <2>6. /\ Events(c, b) # << >> /\ Head(Events(c, b)) = value[c[b + 1]]
        /\ Tail(Events(c, b)) = Events(c, b + 1)
    <3>1. b <= Len(c) /\ c \in Seq(Nodes) /\ b \in Nat
      BY <1>0, <2>3
    <3> QED
      BY ONLY <1>a, <2>1, <3>1, EventsFacts
  <2> QED
    BY <1>5, <2>1, <2>3, <2>4, <2>5, <2>6
<1>11. CASE MoveTail
  <2>1. QueueTypeOK' /\ IsList(c, a, b + 1)' /\ b + 1 \in Nat
    BY <1>1, <1>2, <1>11, MoveTailKeeps
  <2>2. cpc = "advance" /\ cpc' = "count" /\ UNCHANGED <<value, event>>
    BY <1>11 DEF MoveTail, memVars
  <2>3. r = b + 1 /\ r = Reads(b + 1)'
    BY <1>4, <2>2 DEF Reads
  <2>4. Queue' = Events(c, r)'
    BY <2>1, <2>3, QueueNext DEF QueueIsEvents
  <2>5. Queue' = Queue
    BY <1>5, <2>2, <2>4 DEF Events
  <2> QED
    BY <2>2, <2>5
<1> QED
  BY <1>6, <1>7, <1>8, <1>9, <1>10, <1>11 DEF Next, Producer, Consumer

LEMMA InitMaps == Init => F!Init
<1> SUFFICES ASSUME Init PROVE Queue = << >> /\ event = NULL
  BY DEF F!Init, Queue
<1>1. Inv
  BY InitList
<1>2. event = NULL /\ cpc = "idle" /\ tail = head /\ ppc = "idle" /\ tail \in Nodes
      /\ next[tail] = NULL
  BY DEF Init
<1>3. PICK c \in Seq(Nodes), a \in Nat, b \in Nat : IsList(c, a, b)
  BY <1>1 DEF Inv
<1>4. b = Len(c)
  <2>1. c[b] = tail /\ b \in 1..Len(c) /\ next[c[b]] = IF b = Len(c) THEN NULL ELSE c[b + 1]
    BY <1>3, ListFacts DEF IsList, Lists
  <2>2. b # Len(c) => c[b + 1] \in Nodes
    BY <1>3, <2>1, ListFacts DEF IsList
  <2> QED
    BY <1>2, <2>1, <2>2, NullAssumption
<1>5. Queue = Events(c, b)
  BY <1>1, <1>2, <1>3, QueueNow DEF QueueIsEvents, Reads, Inv
<1>6. Events(c, b) \in Seq(Values \cup {NULL}) /\ Len(Events(c, b)) = 0
  <2>1. value \in [Nodes -> Values \cup {NULL}] /\ b <= Len(c) /\ Len(c) - b = 0
    BY <1>1, <1>4 DEF Inv, QueueTypeOK
  <2> QED
    BY ONLY c \in Seq(Nodes), b \in Nat, <2>1, EventsFacts
<1> QED
  BY <1>2, <1>5, <1>6

-----------------------------------------------------------------------------
(* Theorems *)

(* Every variable of the queue, of the thread that enqueues and of the     *)
(* monitor keeps its type: none of first_, tail_copy_, tail_ and head_     *)
(* runs past the last node, although nothing in enqueue and dequeue checks *)
(* next_ for being null but the test of dequeue (spsc_queue.h).            *)
THEOREM TypeCorrect == Spec => []QueueTypeOK
  BY ListAlways, PTL DEF Inv

(* When alloc_node must allocate, there are at most Cap nodes: recycling   *)
(* never lets the number of nodes exceed what the longest queue needed.    *)
THEOREM RecyclingSuffices == Spec => []NodesSuffice
<1>1. Inv => NodesSuffice
  <2> SUFFICES ASSUME Inv, ppc = "realloc", first = tailCopy, heap = {} PROVE FALSE
    BY DEF NodesSuffice
  <2>1. PICK c \in Seq(Nodes), a \in Nat, b \in Nat : IsList(c, a, b)
    BY DEF Inv
  <2>2. Len(c) <= Cap /\ Len(c) \in Nat /\ DOMAIN c = 1..Len(c)
    BY <2>1 DEF IsList, Producing
  <2>3. \A m \in Nodes : \E i \in 1..Len(c) : c[i] = m
    BY <2>1, <2>2 DEF IsList, Accounted, Taken
  <2>4. Cardinality(Nodes) <= Len(c)
    BY <2>1, <2>2, <2>3, FewNodes
  <2> QED
    BY <2>2, <2>4, NodesAssumption, CapAssumption, FS_CardinalityType
<1> QED
  BY <1>1, ListAlways, PTL

(* The queue is a FIFO of events: the monitor gets every event once,       *)
(* unchanged and in the order the thread enqueued them, however the steps  *)
(* of both interleave, although nothing but the order of their accesses    *)
(* protects the nodes that are used again.                                 *)
THEOREM QueueImplementsFifo == Spec => ImplementsFifo
<1>1. Init => F!Init
  BY InitMaps
<1>2. Inv /\ [Next]_vars => [F!Next]_(F!vars)
  BY StepMaps
<1> QED
  BY <1>1, <1>2, ListAlways, PTL DEF Spec, ImplementsFifo, F!Spec
=============================================================================
