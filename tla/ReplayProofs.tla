---------------------------- MODULE ReplayProofs -----------------------------
(***************************************************************************)
(* The graph of the monitor is exact: once the queue of a thread is read,  *)
(* it has the locks of that thread, for any number of threads and mutexes, *)
(* any history and any queues, whatever sequences of events were dropped   *)
(* and whatever the search for cycles finds.                               *)
(*                                                                         *)
(* The argument follows one thread t.  What the graph shows of t is a set  *)
(* of HOLD edges for each mutex, h, and a set of edges to a mutex, a.      *)
(* Every event has an effect on these two (Effect); an event held back     *)
(* has it once it is processed, and dropping a lock/unlock sequence leaves *)
(* the effect of the whole of it.  Events of others have none (Keeps).     *)
(***************************************************************************)
EXTENDS Replay, AvoidanceProofs, FiniteSetTheorems, SequenceTheorems, WellFoundedInduction

-----------------------------------------------------------------------------
(* Sequences of edges *)

(* A non-empty set of natural numbers has a least element. *)
LEMMA LeastNat ==
  ASSUME NEW S \in SUBSET Nat, S # {}
  PROVE  \E m \in S : \A k \in S : m <= k
<1>1. PICK R : R = OpToRel(<, Nat)
  OBVIOUS
<1>2. PICK m \in S : \A k \in S : ~ (<<k, m>> \in R)
  BY <1>1, NatLessThanWellFounded, WFMin
<1>3. R = {x \in Nat \X Nat : x[1] < x[2]}
  BY <1>1, Zenon DEF OpToRel
<1>4. \A k \in S : ~ (k < m)
  BY <1>2, <1>3
<1> QED BY <1>4

(* An edge that is added counts if it is in S. *)
LEMMA ExactlyAppend ==
  ASSUME NEW es \in Seq(Edges), NEW S, NEW X, Exactly(es, S, X), NEW e \in Edges
  PROVE  /\ Append(es, e) \in Seq(Edges)
         /\ e \notin S => Exactly(Append(es, e), S, X)
         /\ e \in S /\ X = {} => Exactly(Append(es, e), S, {e})
<1>1. /\ Append(es, e) \in Seq(Edges)
      /\ Elements(Append(es, e)) = Elements(es) \cup {e}
  BY AppendElements
<1>2. /\ Len(es) \in Nat /\ DOMAIN es = 1..Len(es)
      /\ DOMAIN Append(es, e) = 1..(Len(es) + 1)
      /\ \A i \in 1..Len(es) : Append(es, e)[i] = es[i] /\ es[i] \in Elements(es)
      /\ Append(es, e)[Len(es) + 1] = e
  BY DEF Elements
<1>3. Elements(es) \cap S = X /\ \A i, j \in 1..Len(es) : es[i] \in S /\ es[i] = es[j] => i = j
  BY <1>2 DEF Exactly
<1>4. ASSUME e \notin S PROVE Exactly(Append(es, e), S, X)
  BY <1>1, <1>2, <1>3, <1>4 DEF Exactly
<1>5. ASSUME e \in S, X = {} PROVE Exactly(Append(es, e), S, {e})
  BY <1>1, <1>2, <1>3, <1>5 DEF Exactly
<1> QED BY <1>1, <1>4, <1>5

(* The edges es without the one at index i. *)
LEMMA ExactlyRemove ==
  ASSUME NEW es \in Seq(Edges), NEW i \in DOMAIN es, NEW S, NEW X, Exactly(es, S, X)
  PROVE  LET r == SubSeq(es, 1, i - 1) \o SubSeq(es, i + 1, Len(es)) IN
         /\ r \in Seq(Edges) /\ Elements(r) \subseteq Elements(es)
         /\ es[i] \notin S => Exactly(r, S, X)
         /\ es[i] \in S /\ X = {es[i]} => Exactly(r, S, {})
<1>1. i \in 1..Len(es) /\ Len(es) \in Nat /\ DOMAIN es = 1..Len(es)
  OBVIOUS
<1>2. PICK a : a = SubSeq(es, 1, i - 1)
  OBVIOUS
<1>3. PICK b : b = SubSeq(es, i + 1, Len(es))
  OBVIOUS
<1>4. a \in Seq(Edges) /\ Len(a) = i - 1 /\ \A k \in 1..(i - 1) : a[k] = es[k]
  BY <1>1, <1>2, SubSeqProperties, ElementOfSeq
<1>5. b \in Seq(Edges) /\ Len(b) = Len(es) - i /\ \A k \in 1..(Len(es) - i) : b[k] = es[k + i]
  <2>1. \A k \in (i + 1)..Len(es) : es[k] \in Edges
    BY <1>1
  <2>2. /\ b \in Seq(Edges)
        /\ Len(b) = IF i + 1 <= Len(es) THEN Len(es) - (i + 1) + 1 ELSE 0
        /\ \A k \in 1..(Len(es) - (i + 1) + 1) : b[k] = es[i + 1 + k - 1]
    BY <2>1, <1>1, <1>3, SubSeqProperties
  <2>3. Len(b) = Len(es) - i
    BY <2>2, <1>1
  <2>4. ASSUME NEW k \in 1..(Len(es) - i) PROVE b[k] = es[k + i]
    <3>1. k \in 1..(Len(es) - (i + 1) + 1) /\ i + 1 + k - 1 = k + i
      BY <1>1
    <3> QED BY <2>2, <3>1
  <2> QED BY <2>2, <2>3, <2>4
<1>6. PICK r : r = a \o b
  OBVIOUS
<1>7. /\ r \in Seq(Edges) /\ Len(r) = Len(es) - 1 /\ DOMAIN r = 1..(Len(es) - 1)
      /\ \A k \in 1..(Len(es) - 1) : r[k] = IF k < i THEN es[k] ELSE es[k + 1]
  <2>1. /\ r \in Seq(Edges) /\ Len(r) = Len(a) + Len(b)
        /\ \A k \in 1..(Len(a) + Len(b)) : r[k] = IF k <= Len(a) THEN a[k] ELSE b[k - Len(a)]
    BY <1>4, <1>5, <1>6, ConcatProperties
  <2>2. Len(r) = Len(es) - 1 /\ DOMAIN r = 1..(Len(es) - 1)
    BY <2>1, <1>1, <1>4, <1>5
  <2>3. ASSUME NEW k \in 1..(Len(es) - 1) PROVE r[k] = IF k < i THEN es[k] ELSE es[k + 1]
    <3>1. CASE k < i
      <4>1. k \in 1..(i - 1) /\ k \in 1..(Len(a) + Len(b)) /\ k <= Len(a)
        BY <1>1, <1>4, <1>5, <3>1
      <4> QED BY <2>1, <1>4, <3>1, <4>1
    <3>2. CASE ~ (k < i)
      <4>1. k - (i - 1) \in 1..(Len(es) - i) /\ k - (i - 1) + i = k + 1
        BY <1>1, <3>2
      <4>2. r[k] = b[k - (i - 1)]
        BY <2>1, <1>1, <1>4, <1>5, <3>2
      <4> QED BY <1>5, <3>2, <4>1, <4>2
    <3> QED BY <3>1, <3>2
  <2> QED BY <2>1, <2>2, <2>3
<1>8. Elements(r) \subseteq Elements(es)
  <2> SUFFICES ASSUME NEW e \in Elements(r) PROVE e \in Elements(es)
    OBVIOUS
  <2>1. PICK k \in 1..(Len(es) - 1) : e = r[k]
    BY <1>7 DEF Elements
  <2>2. PICK l \in 1..Len(es) : e = es[l]
    BY <1>1, <1>7, <2>1
  <2> QED BY <1>1, <2>2 DEF Elements
<1>9. \A k \in 1..Len(es) : k # i => es[k] \in Elements(r)
  <2> SUFFICES ASSUME NEW k \in 1..Len(es), k # i PROVE \E l \in 1..(Len(es) - 1) : r[l] = es[k]
    BY <1>7 DEF Elements
  <2>1. CASE k < i
    BY <1>1, <1>7, <2>1
  <2>2. CASE k > i
    <3>1. k - 1 \in 1..(Len(es) - 1) /\ ~ (k - 1 < i) /\ k - 1 + 1 = k
      BY <1>1, <2>2
    <3> QED BY <1>7, <3>1
  <2> QED BY <1>1, <2>1, <2>2
<1>10. Elements(es) \cap S = X /\ \A k, l \in 1..Len(es) : es[k] \in S /\ es[k] = es[l] => k = l
  BY <1>1 DEF Exactly
<1>11. \A k, l \in DOMAIN r : r[k] \in S /\ r[k] = r[l] => k = l
  <2> SUFFICES ASSUME NEW k \in 1..(Len(es) - 1), NEW l \in 1..(Len(es) - 1), r[k] \in S, r[k] = r[l]
               PROVE  k = l
    BY <1>7
  <2>1. PICK k2 \in 1..Len(es) : k2 = (IF k < i THEN k ELSE k + 1) /\ r[k] = es[k2]
    BY <1>1, <1>7
  <2>2. PICK l2 \in 1..Len(es) : l2 = (IF l < i THEN l ELSE l + 1) /\ r[l] = es[l2]
    BY <1>1, <1>7
  <2>3. k2 = l2
    BY <1>10, <2>1, <2>2
  <2> QED BY <1>1, <2>1, <2>2, <2>3
<1>12. Elements(es) = Elements(r) \cup {es[i]}
  BY <1>1, <1>8, <1>9 DEF Elements
<1>13. ASSUME es[i] \in S PROVE es[i] \notin Elements(r)
  <2> SUFFICES ASSUME NEW k \in 1..(Len(es) - 1), r[k] = es[i] PROVE FALSE
    BY <1>7 DEF Elements
  <2>1. PICK k2 \in 1..Len(es) : k2 = (IF k < i THEN k ELSE k + 1) /\ r[k] = es[k2]
    BY <1>1, <1>7
  <2>2. k2 = i
    BY <1>1, <1>10, <1>13, <2>1
  <2> QED BY <1>1, <2>1, <2>2
<1>14. es[i] \notin S => Exactly(r, S, X)
  BY <1>10, <1>11, <1>12 DEF Exactly
<1>15. es[i] \in S /\ X = {es[i]} => Exactly(r, S, {})
  BY <1>8, <1>10, <1>11, <1>13 DEF Exactly
<1> QED BY <1>2, <1>3, <1>6, <1>7, <1>8, <1>14, <1>15

(* The edges es with another edge at index i. *)
LEMMA ExactlyReplace ==
  ASSUME NEW es \in Seq(Edges), NEW i \in DOMAIN es, NEW e \in Edges, NEW S,
         Exactly(es, S, {es[i]}), es[i] \in S, e \in S
  PROVE  /\ [es EXCEPT ![i] = e] \in Seq(Edges)
         /\ Exactly([es EXCEPT ![i] = e], S, {e})
         /\ Elements([es EXCEPT ![i] = e]) \subseteq Elements(es) \cup {e}
<1>1. i \in 1..Len(es) /\ Len(es) \in Nat /\ DOMAIN es = 1..Len(es)
  OBVIOUS
<1>2. PICK r : r = [es EXCEPT ![i] = e]
  OBVIOUS
<1>3. /\ r \in Seq(Edges) /\ DOMAIN r = 1..Len(es)
      /\ r[i] = e /\ \A k \in 1..Len(es) : k # i => r[k] = es[k]
  BY <1>1, <1>2
<1>4. \A k \in 1..Len(es) : k # i => es[k] \notin S
  <2> SUFFICES ASSUME NEW k \in 1..Len(es), es[k] \in S PROVE k = i
    OBVIOUS
  <2>1. es[k] = es[i]
    BY <1>1 DEF Exactly, Elements
  <2> QED BY <1>1, <2>1 DEF Exactly
<1>5. Exactly(r, S, {e})
  BY <1>1, <1>3, <1>4 DEF Exactly, Elements
<1>6. Elements(r) \subseteq Elements(es) \cup {e}
  BY <1>1, <1>3 DEF Elements
<1> QED BY <1>2, <1>3, <1>5, <1>6

(* Edges outside S that are added at the end change nothing. *)
LEMMA ExactlyConcat ==
  ASSUME NEW es \in Seq(Edges), NEW ys \in Seq(Edges), NEW S, NEW X, Exactly(es, S, X),
         \A i \in DOMAIN ys : ys[i] \notin S
  PROVE  /\ es \o ys \in Seq(Edges)
         /\ Exactly(es \o ys, S, X)
         /\ Elements(es \o ys) = Elements(es) \cup Elements(ys)
<1>1. PICK r : r = es \o ys
  OBVIOUS
<1>2. /\ Len(es) \in Nat /\ DOMAIN es = 1..Len(es) /\ Len(ys) \in Nat /\ DOMAIN ys = 1..Len(ys)
      /\ r \in Seq(Edges) /\ DOMAIN r = 1..(Len(es) + Len(ys))
      /\ \A i \in 1..(Len(es) + Len(ys)) : r[i] = IF i <= Len(es) THEN es[i] ELSE ys[i - Len(es)]
  BY <1>1, ConcatProperties
<1>3. \A i \in 1..Len(es) : i \in DOMAIN r /\ r[i] = es[i]
  BY <1>2
<1>4. \A i \in 1..Len(ys) : i + Len(es) \in DOMAIN r /\ r[i + Len(es)] = ys[i]
  <2> SUFFICES ASSUME NEW i \in 1..Len(ys) PROVE i + Len(es) \in DOMAIN r /\ r[i + Len(es)] = ys[i]
    OBVIOUS
  <2>1. /\ i + Len(es) \in 1..(Len(es) + Len(ys)) /\ ~ (i + Len(es) <= Len(es))
        /\ i + Len(es) - Len(es) = i
    BY <1>2
  <2> QED BY <1>2, <2>1
<1>5. \A k \in DOMAIN r : k \in 1..Len(es) \/ \E i \in 1..Len(ys) : k = i + Len(es)
  <2> SUFFICES ASSUME NEW k \in 1..(Len(es) + Len(ys)), ~ (k \in 1..Len(es))
               PROVE  \E i \in 1..Len(ys) : k = i + Len(es)
    BY <1>2
  <2>1. k - Len(es) \in 1..Len(ys) /\ k = (k - Len(es)) + Len(es)
    BY <1>2
  <2> QED BY <2>1
<1>6. Elements(r) = Elements(es) \cup Elements(ys)
  <2>1. ASSUME NEW e \in Elements(r) PROVE e \in Elements(es) \cup Elements(ys)
    <3>1. PICK k \in DOMAIN r : e = r[k]
      BY DEF Elements
    <3> QED BY <1>2, <1>3, <1>4, <1>5, <3>1 DEF Elements
  <2>2. ASSUME NEW e \in Elements(es) \cup Elements(ys) PROVE e \in Elements(r)
    <3>1. CASE e \in Elements(es)
      BY <1>2, <1>3, <3>1 DEF Elements
    <3>2. CASE e \in Elements(ys)
      BY <1>2, <1>4, <3>2 DEF Elements
    <3> QED BY <3>1, <3>2
  <2> QED BY <2>1, <2>2
<1>7. \A i, j \in DOMAIN r : r[i] \in S /\ r[i] = r[j] => i = j
  <2> SUFFICES ASSUME NEW i \in DOMAIN r, NEW j \in DOMAIN r, r[i] \in S, r[i] = r[j] PROVE i = j
    OBVIOUS
  <2>1. i \in 1..Len(es) /\ j \in 1..Len(es)
    BY <1>2, <1>4, <1>5
  <2> QED BY <1>2, <1>3, <2>1 DEF Exactly
<1>8. Elements(ys) \cap S = {}
  BY DEF Elements
<1>9. Exactly(r, S, X)
  BY <1>6, <1>7, <1>8 DEF Exactly
<1> QED BY <1>1, <1>2, <1>6, <1>9

(* LockEdges is well defined: its recursion goes down to 0. *)
LEMMA RestExists ==
  ASSUME NEW es, NEW n \in Nat
  PROVE  \E rest : rest = [i \in 0..n |->
           IF i = 0 THEN <<>>
           ELSE IF es[i].type = "YIELD" THEN rest[i - 1] ELSE Append(rest[i - 1], es[i])]
<1> DEFINE Defined(k) ==
      \E rest : rest = [i \in 0..k |->
        IF i = 0 THEN <<>>
        ELSE IF es[i].type = "YIELD" THEN rest[i - 1] ELSE Append(rest[i - 1], es[i])]
<1> SUFFICES ASSUME ~ Defined(n) PROVE FALSE
  OBVIOUS
<1>1. PICK m \in Nat : ~ Defined(m) /\ \A k \in Nat : ~ Defined(k) => m <= k
  <2>1. {k \in Nat : ~ Defined(k)} \in SUBSET Nat /\ n \in {k \in Nat : ~ Defined(k)}
    OBVIOUS
  <2> HIDE DEF Defined
  <2> QED BY <2>1, LeastNat
<1>2. m # 0
  <2> SUFFICES ASSUME m = 0 PROVE Defined(0)
    BY <1>1
  <2>1. PICK r : r = [i \in 0..0 |-> <<>>]
    OBVIOUS
  <2>2. r = [i \in 0..0 |->
          IF i = 0 THEN <<>>
          ELSE IF es[i].type = "YIELD" THEN r[i - 1] ELSE Append(r[i - 1], es[i])]
    BY <2>1
  <2> QED BY <2>2
<1>3. m - 1 \in Nat /\ ~ (m <= m - 1)
  BY <1>2
<1>4. Defined(m - 1)
  <2> HIDE DEF Defined
  <2> QED BY <1>1, <1>3
<1>5. PICK r : r = [i \in 0..(m - 1) |->
        IF i = 0 THEN <<>>
        ELSE IF es[i].type = "YIELD" THEN r[i - 1] ELSE Append(r[i - 1], es[i])]
  BY <1>4
<1>6. PICK q : q = [i \in 0..m |->
        IF i < m THEN r[i]
        ELSE IF es[i].type = "YIELD" THEN r[i - 1] ELSE Append(r[i - 1], es[i])]
  OBVIOUS
<1>7. q = [i \in 0..m |->
        IF i = 0 THEN <<>>
        ELSE IF es[i].type = "YIELD" THEN q[i - 1] ELSE Append(q[i - 1], es[i])]
  <2>1. \A i \in 0..m : i # 0 => q[i - 1] = r[i - 1]
    BY <1>6
  <2>2. ASSUME NEW i \in 0..m
        PROVE  q[i] = IF i = 0 THEN <<>>
                      ELSE IF es[i].type = "YIELD" THEN q[i - 1] ELSE Append(q[i - 1], es[i])
    <3>1. CASE i = m
      BY <1>2, <1>6, <2>1, <3>1
    <3>2. CASE i # m
      <4>1. i \in 0..(m - 1) /\ i < m
        BY <3>2
      <4>2. r[i] = IF i = 0 THEN <<>>
                   ELSE IF es[i].type = "YIELD" THEN r[i - 1] ELSE Append(r[i - 1], es[i])
        BY <1>5, <4>1
      <4>3. q[i] = r[i]
        BY <1>6, <4>1
      <4> QED BY <2>1, <4>2, <4>3
    <3> QED BY <3>1, <3>2
  <2> QED BY <1>6, <2>2
<1>8. Defined(m)
  BY <1>7
<1> QED BY <1>1, <1>8

(* The edges of a vertex that are not YIELD edges are the same without the *)
(* others.                                                                 *)
LEMMA LockEdgesExact ==
  ASSUME NEW es \in Seq(Edges), NEW X, Exactly(es, EdgesToLocks, X)
  PROVE  /\ Graph!LockEdges(es) \in Seq(Edges)
         /\ Elements(Graph!LockEdges(es)) \subseteq EdgesToLocks
         /\ Exactly(Graph!LockEdges(es), EdgesToLocks, X)
<1>1. Len(es) \in Nat /\ DOMAIN es = 1..Len(es) /\ \A i \in 1..Len(es) : es[i] \in Edges
  OBVIOUS
<1>2. PICK rest : /\ rest = [i \in 0..Len(es) |->
                       IF i = 0 THEN <<>>
                       ELSE IF es[i].type = "YIELD" THEN rest[i - 1] ELSE Append(rest[i - 1], es[i])]
                  /\ Graph!LockEdges(es) = rest[Len(es)]
  BY <1>1, RestExists DEF Graph!LockEdges
<1>3. /\ rest[0] = <<>>
      /\ \A i \in 1..Len(es) :
           rest[i] = IF es[i].type = "YIELD" THEN rest[i - 1] ELSE Append(rest[i - 1], es[i])
  <2>1. rest = [i \in 0..Len(es) |->
          IF i = 0 THEN <<>>
          ELSE IF es[i].type = "YIELD" THEN rest[i - 1] ELSE Append(rest[i - 1], es[i])]
    BY <1>2
  <2>2. \A i \in 0..Len(es) :
          rest[i] = IF i = 0 THEN <<>>
                    ELSE IF es[i].type = "YIELD" THEN rest[i - 1] ELSE Append(rest[i - 1], es[i])
    BY ONLY <2>1
  <2> QED BY ONLY <1>1, <2>2
<1> DEFINE Before(k) == {es[i] : i \in {j \in 1..k : es[j] \in EdgesToLocks}}
           Right(k) == rest[k] \in Seq(Edges) /\ Elements(rest[k]) = Before(k) /\ DistinctBut(rest[k], {})
<1>4. \A k \in 0..Len(es) : Right(k)
  <2> SUFFICES ASSUME NEW n \in 0..Len(es), ~ Right(n) PROVE FALSE
    OBVIOUS
  <2>1. PICK m \in 0..Len(es) : ~ Right(m) /\ \A k \in 0..Len(es) : ~ Right(k) => m <= k
    <3>1. {k \in 0..Len(es) : ~ Right(k)} \in SUBSET Nat /\ n \in {k \in 0..Len(es) : ~ Right(k)}
      OBVIOUS
    <3> HIDE DEF Right
    <3> QED BY <3>1, LeastNat
  <2>2. m # 0
    <3> SUFFICES Right(0)
      BY <2>1
    <3>1. rest[0] \in Seq(Edges) /\ Elements(rest[0]) = {} /\ DistinctBut(rest[0], {}) /\ Before(0) = {}
      BY <1>3 DEF Elements, DistinctBut
    <3> QED BY <3>1
  <2>3. m \in 1..Len(es) /\ m - 1 \in 0..Len(es) /\ ~ (m <= m - 1)
    BY <1>1, <2>2
  <2>4. Right(m - 1)
    <3> HIDE DEF Right
    <3> QED BY <2>1, <2>3
  <2>5. CASE es[m].type = "YIELD"
    <3>1. rest[m] = rest[m - 1]
      BY <1>3, <2>3, <2>5
    <3>2. Before(m) = Before(m - 1)
      BY <2>3, <2>5 DEF EdgesToLocks
    <3> QED BY <2>1, <2>4, <3>1, <3>2
  <2>6. CASE es[m].type # "YIELD"
    <3>1. rest[m] = Append(rest[m - 1], es[m]) /\ es[m] \in Edges /\ es[m] \in EdgesToLocks
      BY <1>1, <1>3, <2>3, <2>6 DEF EdgesToLocks
    <3>2. Before(m) = Before(m - 1) \cup {es[m]}
      <4>1. \A j \in 1..m : j = m \/ j \in 1..(m - 1)
        BY <2>3
      <4>2. m \in 1..m /\ \A j \in 1..(m - 1) : j \in 1..m
        BY <2>3
      <4> QED BY <3>1, <4>1, <4>2
    <3>3. es[m] \notin Elements(rest[m - 1])
      <4>1. \A j \in 1..(m - 1) : es[j] # es[m]
        BY <1>1, <2>3, <3>1 DEF Exactly
      <4> QED BY <2>4, <4>1
    <3>4. PICK r \in Seq(Edges) : r = rest[m - 1] /\ Elements(r) = Before(m - 1) /\ DistinctBut(r, {})
      BY <2>4
    <3>5. /\ Append(r, es[m]) \in Seq(Edges)
          /\ Elements(Append(r, es[m])) = Elements(r) \cup {es[m]}
          /\ DistinctBut(Append(r, es[m]), {})
      BY <3>1, <3>3, <3>4, AppendElements, AppendDistinct
    <3>6. Right(m)
      BY <3>1, <3>2, <3>4, <3>5
    <3> QED BY <2>1, <3>6
  <2> QED BY <2>5, <2>6
<1>5. PICK r : r = rest[Len(es)] /\ r \in Seq(Edges) /\ Elements(r) = Before(Len(es)) /\ DistinctBut(r, {})
  <2>1. Right(Len(es))
    <3> HIDE DEF Right
    <3> QED BY <1>1, <1>4
  <2> QED BY <2>1
<1>6. Before(Len(es)) = X
  BY <1>1 DEF Exactly, Elements
<1>7. X \subseteq EdgesToLocks
  BY DEF Exactly
<1>8. Exactly(r, EdgesToLocks, X)
  BY <1>5, <1>6, <1>7 DEF Exactly, DistinctBut
<1> QED BY <1>2, <1>5, <1>6, <1>7, <1>8

-----------------------------------------------------------------------------
(* The methods of the graph *)

Vertices == Threads \cup Mutexes
EdgeTypes == {"REQUEST", "GRANT", "HOLD", "YIELD"}

Graphs == [edges : [Vertices -> Seq(Edges)], valued : SUBSET Vertices, kafa : SUBSET Vertices]

(* Graph N is G with the edges es from v, and with some more values.       *)
Rewrites(G, N, v, es) ==
  /\ N \in Graphs
  /\ N.edges[v] = es
  /\ \A w \in Vertices \ {v} : N.edges[w] = G.edges[w]
  /\ G.valued \subseteq N.valued

LEMMA RewritesEdges ==
  ASSUME NEW G \in Graphs, NEW v \in Vertices, NEW es \in Seq(Edges)
  PROVE  Rewrites(G, [G EXCEPT !.edges[v] = es], v, es)
<1>1. PICK N : N = [G EXCEPT !.edges[v] = es]
  OBVIOUS
<1>2. /\ N = [edges |-> [G.edges EXCEPT ![v] = es], valued |-> G.valued, kafa |-> G.kafa]
      /\ G.edges \in [Vertices -> Seq(Edges)] /\ G.valued \in SUBSET Vertices
      /\ G.kafa \in SUBSET Vertices
  BY <1>1 DEF Graphs
<1>3. [G.edges EXCEPT ![v] = es] \in [Vertices -> Seq(Edges)]
  BY <1>2
<1>4. /\ N.edges = [G.edges EXCEPT ![v] = es] /\ N.valued = G.valued /\ N \in Graphs
  BY <1>2, <1>3 DEF Graphs
<1> QED BY <1>1, <1>2, <1>4 DEF Rewrites

LEMMA AddRewrites ==
  ASSUME NEW G \in Graphs, NEW v \in Vertices, NEW to \in Vertices, NEW type \in EdgeTypes,
         NEW p \in Positions \cup {NULL}
  PROVE  /\ [to |-> to, type |-> type, pos |-> p] \in Edges
         /\ Rewrites(G, Graph!Add(G, v, to, type, p), v,
                     Append(G.edges[v], [to |-> to, type |-> type, pos |-> p]))
         /\ Graph!Add(G, v, to, type, p).valued = G.valued
<1>1. G.edges[v] \in Seq(Edges) /\ [to |-> to, type |-> type, pos |-> p] \in Edges
  BY DEF Graphs, Edges, EdgeTypes, Vertices
<1>2. Append(G.edges[v], [to |-> to, type |-> type, pos |-> p]) \in Seq(Edges)
  BY <1>1, AppendElements
<1>3. Graph!Add(G, v, to, type, p)
        = [G EXCEPT !.edges[v] = Append(G.edges[v], [to |-> to, type |-> type, pos |-> p])]
  BY DEF Graph!Add, Graphs
<1>4. Graph!Add(G, v, to, type, p).valued = G.valued
  BY <1>3 DEF Graphs
<1> QED BY <1>1, <1>2, <1>3, <1>4, RewritesEdges

LEMMA RequestRewrites ==
  ASSUME NEW G \in Graphs, NEW t \in Threads, NEW m \in Mutexes, NEW p \in Positions \cup {NULL}
  PROVE  /\ [to |-> m, type |-> "REQUEST", pos |-> p] \in Edges
         /\ Rewrites(G, Graph!Request(G, t, m, p), t,
                     Append(G.edges[t], [to |-> m, type |-> "REQUEST", pos |-> p]))
         /\ {t, m} \subseteq Graph!Request(G, t, m, p).valued
<1>1. PICK A : A = Graph!Add(G, t, m, "REQUEST", p)
  OBVIOUS
<1>2. /\ [to |-> m, type |-> "REQUEST", pos |-> p] \in Edges
      /\ Rewrites(G, A, t, Append(G.edges[t], [to |-> m, type |-> "REQUEST", pos |-> p]))
  BY <1>1, AddRewrites DEF Vertices, EdgeTypes
<1>3. PICK N : N = [A EXCEPT !.valued = @ \cup {t, m}]
  OBVIOUS
<1>4. A \in Graphs
  BY <1>2 DEF Rewrites
<1>5. N.edges = A.edges /\ N.valued = A.valued \cup {t, m} /\ N \in Graphs
  BY <1>3, <1>4 DEF Graphs, Vertices
<1>6. Graph!Request(G, t, m, p) = N
  BY <1>1, <1>3 DEF Graph!Request
<1> QED BY <1>2, <1>5, <1>6 DEF Rewrites

LEMMA RemoveRewrites ==
  ASSUME NEW G \in Graphs, NEW v \in Vertices, NEW i \in DOMAIN G.edges[v]
  PROVE  /\ Rewrites(G, Graph!Remove(G, v, i), v,
                     SubSeq(G.edges[v], 1, i - 1) \o SubSeq(G.edges[v], i + 1, Len(G.edges[v])))
         /\ Graph!Remove(G, v, i).valued = G.valued
<1>1. G.edges[v] \in Seq(Edges)
  BY DEF Graphs
<1>2. PICK r : r = SubSeq(G.edges[v], 1, i - 1) \o SubSeq(G.edges[v], i + 1, Len(G.edges[v]))
  OBVIOUS
<1>3. Exactly(G.edges[v], {}, {})
  BY DEF Exactly
<1>4. r \in Seq(Edges)
  BY <1>1, <1>2, <1>3, ExactlyRemove
<1>5. Graph!Remove(G, v, i) = [G EXCEPT !.edges[v] = r]
  BY <1>2 DEF Graph!Remove
<1>6. Graph!Remove(G, v, i).valued = G.valued
  BY <1>5 DEF Graphs
<1>7. Rewrites(G, Graph!Remove(G, v, i), v, r)
  BY <1>4, <1>5, RewritesEdges
<1> QED BY <1>2, <1>6, <1>7

(* An edge that is alone in its target is found. *)
LEMMA EdgeFound ==
  ASSUME NEW G \in Graphs, NEW v \in Vertices, NEW x \in Vertices, x \in G.valued,
         NEW i \in DOMAIN G.edges[v], G.edges[v][i].to = x,
         \A j \in DOMAIN G.edges[v] : G.edges[v][j].to = x => j = i
  PROVE  Graph!HasEdgeTo(G, v, x) /\ Graph!EdgeTo(G, v, x) = i
<1>0. x # NULL
  BY NullAssumption DEF Vertices
<1>1. Graph!Value(G, G.edges[v][i].to) = x
  BY DEF Graph!Value
<1>2. \A j \in DOMAIN G.edges[v] : Graph!Value(G, G.edges[v][j].to) = x => j = i
  BY <1>0 DEF Graph!Value
<1>3. Graph!FirstTo(G, v, x, i)
  <2>1. \A j \in 1..(i - 1) : j \in DOMAIN G.edges[v] /\ j # i
    <3>1. G.edges[v] \in Seq(Edges)
      BY DEF Graphs
    <3>2. i \in 1..Len(G.edges[v]) /\ Len(G.edges[v]) \in Nat /\ DOMAIN G.edges[v] = 1..Len(G.edges[v])
      BY <3>1
    <3> QED BY <3>2
  <2> QED BY <1>1, <1>2, <2>1 DEF Graph!FirstTo
<1>4. \A j : Graph!FirstTo(G, v, x, j) => j = i
  BY <1>2 DEF Graph!FirstTo
<1> QED BY <1>1, <1>3, <1>4 DEF Graph!HasEdgeTo, Graph!EdgeTo

-----------------------------------------------------------------------------
(* What the state of the loop over a queue shows of a thread *)

States == [graph : Graphs, req : SUBSET Threads, held : Seq(Events)]
Views == [Mutexes -> SUBSET Edges]

(* Of thread t, the state s shows the HOLD edges h, and in a the edge to   *)
(* the mutex it asks for.  The vertices that events to come look for have  *)
(* their values, and YIELD edges are not mistaken for others.              *)
Shows(s, t, h, a) ==
  /\ \A m \in Mutexes : Exactly(s.graph.edges[m], EdgesTo(t), h[m])
  /\ Exactly(s.graph.edges[t], EdgesToLocks, a)
  /\ \A e \in Elements(s.graph.edges[t]) : e.type = "YIELD" => e.to \in Threads
  /\ t \in s.req <=> a # {}
  /\ a # {} \/ (\E m \in Mutexes : h[m] # {}) => t \in s.graph.valued
  /\ \A e \in a : e.to \in Mutexes \cap s.graph.valued

(* From s to s2, nothing changes for threads other than t. *)
Keeps(t, s, s2) ==
  \A u \in Threads \ {t} : \A h \in Views, a \in SUBSET Edges :
    Shows(s, u, h, a) => Shows(s2, u, h, a)

LEMMA KeepsTransitive ==
  ASSUME NEW t, NEW s1, NEW s2, NEW s3, Keeps(t, s1, s2), Keeps(t, s2, s3)
  PROVE  Keeps(t, s1, s3)
BY DEF Keeps

(* Events of t change the edges of t and those to t. *)
LEMMA KeepsOthers ==
  ASSUME NEW s \in States, NEW s2 \in States, NEW t \in Threads,
         \A u \in Threads \ {t} :
           s2.graph.edges[u] = s.graph.edges[u] /\ (u \in s2.req <=> u \in s.req),
         \A u \in Threads \ {t}, m \in Mutexes, X \in SUBSET Edges :
           Exactly(s.graph.edges[m], EdgesTo(u), X) => Exactly(s2.graph.edges[m], EdgesTo(u), X),
         s.graph.valued \subseteq s2.graph.valued
  PROVE  Keeps(t, s, s2)
<1> SUFFICES ASSUME NEW u \in Threads \ {t}, NEW h \in Views, NEW a \in SUBSET Edges, Shows(s, u, h, a)
             PROVE  Shows(s2, u, h, a)
  BY DEF Keeps
<1>1. \A m \in Mutexes : h[m] \in SUBSET Edges
  BY DEF Views
<1>2. \A m \in Mutexes : Exactly(s2.graph.edges[m], EdgesTo(u), h[m])
  BY <1>1 DEF Shows
<1> QED BY <1>2 DEF Shows

(* A step that changes the graph only in the edges of t, and adds values.  *)
LEMMA OwnEdges ==
  ASSUME NEW s \in States, NEW s2 \in States, NEW t \in Threads, NEW es,
         Rewrites(s.graph, s2.graph, t, es),
         s2.req \ {t} = s.req \ {t}
  PROVE  Keeps(t, s, s2)
<1>1. \A m \in Mutexes : s2.graph.edges[m] = s.graph.edges[m]
  BY NodesAssumption DEF Rewrites, Vertices
<1>2. \A u \in Threads \ {t} : s2.graph.edges[u] = s.graph.edges[u]
  BY DEF Rewrites, Vertices
<1> QED BY <1>1, <1>2, KeepsOthers DEF Rewrites

(* The edge to the mutex a thread asks for is the only edge to it. *)
LEMMA AskedEdge ==
  ASSUME NEW s \in States, NEW t \in Threads, NEW h, NEW e \in Edges, Shows(s, t, h, {e})
  PROVE  \E i \in DOMAIN s.graph.edges[t] :
           /\ s.graph.edges[t][i] = e /\ e \in EdgesToLocks
           /\ Graph!HasEdgeTo(s.graph, t, e.to) /\ Graph!EdgeTo(s.graph, t, e.to) = i
<1>1. PICK es \in Seq(Edges) : es = s.graph.edges[t]
  BY DEF States, Graphs, Vertices
<1>2. PICK i \in DOMAIN es : es[i] = e /\ e \in EdgesToLocks
  BY <1>1 DEF Shows, Exactly, Elements
<1>3. e.to \in Mutexes /\ e.to \in s.graph.valued
  BY DEF Shows
<1>4. ASSUME NEW j \in DOMAIN es, es[j].to = e.to PROVE j = i
  <2>1. es[j] \in Edges /\ es[j] \in Elements(es)
    BY DEF Elements
  <2>2. es[j].type # "YIELD"
    BY <1>1, <1>3, <1>4, <2>1, NodesAssumption DEF Shows
  <2>3. es[j] \in {e}
    BY <1>1, <2>1, <2>2 DEF Shows, Exactly, EdgesToLocks
  <2> QED BY <1>1, <1>2, <2>3 DEF Shows, Exactly
<1>5. s.graph \in Graphs /\ t \in Vertices /\ e.to \in Vertices
  BY <1>3 DEF States, Vertices
<1> QED BY <1>1, <1>2, <1>3, <1>4, <1>5, EdgeFound

(* What event e makes of the view h, a of its thread t, and when t records *)
(* such an event.                                                          *)
Wants(e, type) == [to |-> e.mtx, type |-> type, pos |-> e.pos]
Has(t, e) == [to |-> t, type |-> "HOLD", pos |-> e.pos]

Effect(t, e, h, a, h2, a2) ==
  \/ /\ e.type = "REQUEST" /\ a = {} /\ h[e.mtx] = {}
     /\ h2 = h /\ a2 = {Wants(e, "REQUEST")}
  \/ /\ e.type = "YIELD" /\ IsFiniteSet(e.cause) /\ a = {Wants(e, "REQUEST")}
     /\ h2 = h /\ a2 = a
  \/ /\ e.type = "GRANT" /\ a = {Wants(e, "REQUEST")}
     /\ h2 = h /\ a2 = {Wants(e, "GRANT")}
  \/ /\ e.type = "ACQUIRED" /\ a = {Wants(e, "GRANT")} /\ h[e.mtx] = {}
     /\ h2 = [h EXCEPT ![e.mtx] = {Has(t, e)}] /\ a2 = {}
  \/ /\ e.type = "RELEASE" /\ a = {} /\ h[e.mtx] # {}
     /\ (\E x \in Edges : h[e.mtx] = {x})
     /\ h2 = [h EXCEPT ![e.mtx] = {}] /\ a2 = {}

(* State s2 comes of s by what t did, and shows h and a of it. *)
Becomes(t, s, s2, h, a) ==
  s2 \in States /\ s2.held = s.held /\ Keeps(t, s, s2) /\ Shows(s2, t, h, a)

LEMMA StateWith ==
  ASSUME NEW s \in States, NEW N \in Graphs, NEW R \in SUBSET Threads
  PROVE  /\ [s EXCEPT !.graph = N, !.req = R] \in States
         /\ [s EXCEPT !.graph = N, !.req = R].graph = N
         /\ [s EXCEPT !.graph = N, !.req = R].req = R
         /\ [s EXCEPT !.graph = N, !.req = R].held = s.held
BY DEF States

LEMMA StateWithGraph ==
  ASSUME NEW s \in States, NEW N \in Graphs
  PROVE  /\ [s EXCEPT !.graph = N] \in States
         /\ [s EXCEPT !.graph = N].graph = N
         /\ [s EXCEPT !.graph = N].req = s.req
         /\ [s EXCEPT !.graph = N].held = s.held
BY DEF States

LEMMA RequestShown ==
  ASSUME NEW s \in States, NEW t \in Threads, NEW e \in Events, NEW h \in Views,
         e.type = "REQUEST", Shows(s, t, h, {})
  PROVE  Becomes(t, s, ProcessEvent(s, t, e), h, {Wants(e, "REQUEST")})
<1>1. PICK N : N = Graph!Request(s.graph, t, e.mtx, e.pos)
  OBVIOUS
<1>2. s.graph \in Graphs /\ e.mtx \in Mutexes /\ e.pos \in Positions \cup {NULL} /\ s.req \in SUBSET Threads
  BY DEF States, Events
<1>3. /\ Wants(e, "REQUEST") \in Edges
      /\ Rewrites(s.graph, N, t, Append(s.graph.edges[t], Wants(e, "REQUEST")))
      /\ {t, e.mtx} \subseteq N.valued
  BY <1>1, <1>2, RequestRewrites DEF Wants
<1>4. PICK s2 : s2 = [s EXCEPT !.graph = N, !.req = s.req \cup {t}]
  OBVIOUS
<1>5. ProcessEvent(s, t, e) = s2
  BY <1>1, <1>4 DEF ProcessEvent
<1>6. /\ s2 \in States /\ s2.graph = N /\ s2.req = s.req \cup {t} /\ s2.held = s.held
  <2>1. N \in Graphs /\ s.req \cup {t} \in SUBSET Threads
    BY <1>2, <1>3 DEF Rewrites
  <2> QED BY <2>1, <1>4 DEF States
<1>7. /\ Keeps(t, s, s2)
      /\ \A m \in Mutexes : s2.graph.edges[m] = s.graph.edges[m]
      /\ s2.graph.edges[t] = Append(s.graph.edges[t], Wants(e, "REQUEST"))
  <2>1. /\ Rewrites(s.graph, s2.graph, t, Append(s.graph.edges[t], Wants(e, "REQUEST")))
        /\ s2.req \ {t} = s.req \ {t}
    BY <1>3, <1>6
  <2>3. s2 \in States
    BY <1>6
  <2>2. Keeps(t, s, s2)
    BY <2>1, <2>3, OwnEdges
  <2> QED BY <2>1, <2>2, NodesAssumption DEF Rewrites, Vertices
<1>8. s.graph.edges[t] \in Seq(Edges)
  BY <1>2 DEF Graphs, Vertices
<1>9. Wants(e, "REQUEST") \in EdgesToLocks /\ Wants(e, "REQUEST").to = e.mtx
  BY <1>3 DEF EdgesToLocks, Wants
<1>10. /\ Exactly(s2.graph.edges[t], EdgesToLocks, {Wants(e, "REQUEST")})
       /\ Elements(s2.graph.edges[t]) = Elements(s.graph.edges[t]) \cup {Wants(e, "REQUEST")}
  BY <1>3, <1>7, <1>8, <1>9, ExactlyAppend, AppendElements DEF Shows
<1>11. \A x \in Elements(s2.graph.edges[t]) : x.type = "YIELD" => x.to \in Threads
  BY <1>10 DEF Shows, Wants
<1>12. Shows(s2, t, h, {Wants(e, "REQUEST")})
  BY <1>2, <1>3, <1>6, <1>7, <1>9, <1>10, <1>11 DEF Shows
<1> QED BY <1>5, <1>6, <1>7, <1>12 DEF Becomes

LEMMA GrantShown ==
  ASSUME NEW s \in States, NEW t \in Threads, NEW e \in Events, NEW h \in Views,
         e.type = "GRANT", Shows(s, t, h, {Wants(e, "REQUEST")})
  PROVE  Becomes(t, s, ProcessEvent(s, t, e), h, {Wants(e, "GRANT")})
<1>1. s.graph \in Graphs /\ e.mtx \in Mutexes /\ e.pos \in Positions \cup {NULL}
  BY DEF States, Events
<1>2. /\ Wants(e, "REQUEST") \in Edges /\ Wants(e, "GRANT") \in Edges
      /\ Wants(e, "REQUEST").to = e.mtx /\ Wants(e, "GRANT").to = e.mtx
      /\ Wants(e, "REQUEST") \in EdgesToLocks /\ Wants(e, "GRANT") \in EdgesToLocks
      /\ Wants(e, "GRANT").type # "YIELD"
  BY <1>1 DEF Wants, Edges, EdgesToLocks
<1>3. PICK es \in Seq(Edges) : es = s.graph.edges[t]
  BY <1>1 DEF Graphs, Vertices
<1>4. PICK i \in DOMAIN es :
        /\ es[i] = Wants(e, "REQUEST")
        /\ Graph!HasEdgeTo(s.graph, t, e.mtx) /\ Graph!EdgeTo(s.graph, t, e.mtx) = i
  BY <1>2, <1>3, AskedEdge
<1>5. PICK es2 : es2 = [es EXCEPT ![i] = Wants(e, "GRANT")]
  OBVIOUS
<1>6. /\ es2 \in Seq(Edges) /\ Exactly(es2, EdgesToLocks, {Wants(e, "GRANT")})
      /\ Elements(es2) \subseteq Elements(es) \cup {Wants(e, "GRANT")}
  <2>1. Exactly(es, EdgesToLocks, {es[i]}) /\ es[i] \in EdgesToLocks
    BY <1>2, <1>3, <1>4 DEF Shows
  <2> QED BY <2>1, <1>2, <1>5, ExactlyReplace
<1>7. PICK N : N = [s.graph EXCEPT !.edges[t] = es2]
  OBVIOUS
<1>8. Rewrites(s.graph, N, t, es2)
  BY <1>1, <1>6, <1>7, RewritesEdges DEF Vertices
<1>9. Graph!RequestToGrant(s.graph, t, e.mtx, e.pos) = N
  <2>1. [to |-> es[i].to, type |-> "GRANT", pos |-> e.pos] = Wants(e, "GRANT")
    BY <1>2, <1>4 DEF Wants
  <2>2. Graph!RequestToGrant(s.graph, t, e.mtx, e.pos)
          = [s.graph EXCEPT !.edges[t][i] = [to |-> @.to, type |-> "GRANT", pos |-> e.pos]]
    BY <1>4 DEF Graph!RequestToGrant
  <2>3. s.graph.edges \in [Vertices -> Seq(Edges)] /\ t \in Vertices
    BY <1>1 DEF Graphs, Vertices
  <2>4. [s.graph EXCEPT !.edges[t][i] = [to |-> @.to, type |-> "GRANT", pos |-> e.pos]]
          = [s.graph EXCEPT !.edges[t] = [es EXCEPT ![i] = Wants(e, "GRANT")]]
    BY <2>1, <2>3, <1>1, <1>3
  <2> QED BY <2>2, <2>4, <1>5, <1>7
<1>10. PICK s2 : s2 = [s EXCEPT !.graph = N]
  OBVIOUS
<1>11. ProcessEvent(s, t, e) = s2
  BY <1>9, <1>10 DEF ProcessEvent
<1>12. s2 \in States /\ s2.graph = N /\ s2.req = s.req /\ s2.held = s.held
  BY <1>8, <1>10, StateWithGraph DEF Rewrites
<1>13. /\ Keeps(t, s, s2)
       /\ \A m \in Mutexes : s2.graph.edges[m] = s.graph.edges[m]
       /\ s2.graph.edges[t] = es2
  <2>1. Rewrites(s.graph, s2.graph, t, es2) /\ s2.req \ {t} = s.req \ {t}
    BY <1>8, <1>12
  <2>3. s2 \in States
    BY <1>12
  <2>2. Keeps(t, s, s2)
    BY <2>1, <2>3, OwnEdges
  <2> QED BY <2>1, <2>2, NodesAssumption DEF Rewrites, Vertices
<1>14. s.graph.valued \subseteq s2.graph.valued
  BY <1>8, <1>12 DEF Rewrites
<1>15. Shows(s2, t, h, {Wants(e, "GRANT")})
  BY <1>2, <1>3, <1>6, <1>12, <1>13, <1>14 DEF Shows
<1> QED BY <1>11, <1>12, <1>13, <1>15 DEF Becomes

(* A finite set of causes can be put in a vector. *)
LEMMA VectorType ==
  ASSUME NEW cs \in SUBSET Causes, IsFiniteSet(cs)
  PROVE  Vector(cs) \in [1..Cardinality(cs) -> cs] /\ Cardinality(cs) \in Nat
<1>1. Cardinality(cs) \in Nat /\ ExistsBijection(1..Cardinality(cs), cs)
  BY FS_CardinalityType
<1>2. PICK f \in [1..Cardinality(cs) -> cs] : \A c \in cs : \E i \in 1..Cardinality(cs) : f[i] = c
  BY <1>1 DEF ExistsBijection, Bijection, Injection, Surjection
<1>3. Elements(f) = cs
  BY <1>2 DEF Elements
<1> QED BY <1>1, <1>2, <1>3 DEF Vector

LEMMA YieldShown ==
  ASSUME NEW s \in States, NEW t \in Threads, NEW e \in Events, NEW h \in Views, NEW a,
         e.type = "YIELD", IsFiniteSet(e.cause), Shows(s, t, h, a)
  PROVE  Becomes(t, s, ProcessEvent(s, t, e), h, a)
<1>1. s.graph \in Graphs /\ e.cause \in SUBSET Causes
  BY DEF States, Events
<1>2. PICK v : v = Vector(e.cause)
  OBVIOUS
<1>3. PICK ys : ys = [i \in DOMAIN v |-> [to |-> v[i].thread, type |-> "YIELD", pos |-> v[i].pos]]
  OBVIOUS
<1>4. /\ ys \in Seq(Edges)
      /\ \A i \in DOMAIN ys : ys[i] \notin EdgesToLocks /\ ys[i].to \in Threads
  <2>1. PICK n \in Nat : v \in [1..n -> e.cause]
    BY <1>1, <1>2, VectorType
  <2>2. \A i \in 1..n : v[i].thread \in Threads /\ v[i].pos \in Positions
    BY <1>1, <2>1 DEF Causes
  <2>3. ys \in [1..n -> Edges]
    BY <1>3, <2>1, <2>2 DEF Edges
  <2>4. ys \in Seq(Edges)
    BY <2>3
  <2> QED BY <1>3, <2>1, <2>2, <2>4 DEF EdgesToLocks
<1>5. PICK es \in Seq(Edges) : es = s.graph.edges[t]
  BY <1>1 DEF Graphs, Vertices
<1>6. PICK ls : /\ ls = Graph!LockEdges(es) /\ ls \in Seq(Edges)
                /\ Elements(ls) \subseteq EdgesToLocks /\ Exactly(ls, EdgesToLocks, a)
  BY <1>5, LockEdgesExact DEF Shows
<1>7. /\ ls \o ys \in Seq(Edges) /\ Exactly(ls \o ys, EdgesToLocks, a)
      /\ Elements(ls \o ys) = Elements(ls) \cup Elements(ys)
  BY <1>4, <1>6, ExactlyConcat
<1>8. PICK N : N = [s.graph EXCEPT !.edges[t] = ls \o ys]
  OBVIOUS
<1>9. Rewrites(s.graph, N, t, ls \o ys)
  BY <1>1, <1>7, <1>8, RewritesEdges DEF Vertices
<1>10. Graph!Yield(s.graph, t, v) = N
  BY <1>3, <1>5, <1>6, <1>8 DEF Graph!Yield
<1>11. PICK s2 : s2 = [s EXCEPT !.graph = N]
  OBVIOUS
<1>12. ProcessEvent(s, t, e) = s2
  BY <1>2, <1>10, <1>11 DEF ProcessEvent
<1>13. s2 \in States /\ s2.graph = N /\ s2.req = s.req /\ s2.held = s.held
  BY <1>9, <1>11, StateWithGraph DEF Rewrites
<1>14. Rewrites(s.graph, s2.graph, t, ls \o ys) /\ s2.req \ {t} = s.req \ {t}
  BY <1>9, <1>13
<1>15. Keeps(t, s, s2)
  BY <1>13, <1>14, OwnEdges
<1>16. /\ \A m \in Mutexes : s2.graph.edges[m] = s.graph.edges[m]
       /\ s2.graph.edges[t] = ls \o ys /\ s.graph.valued \subseteq s2.graph.valued
  BY <1>14, NodesAssumption DEF Rewrites, Vertices
<1>17. \A x \in Elements(ls \o ys) : x.type = "YIELD" => x.to \in Threads
  <2>1. \A x \in Elements(ls) : x.type # "YIELD"
    BY <1>6 DEF EdgesToLocks
  <2>2. \A x \in Elements(ys) : x.to \in Threads
    BY <1>4 DEF Elements
  <2> QED BY <1>7, <2>1, <2>2
<1>18. Shows(s2, t, h, a)
  BY <1>7, <1>13, <1>16, <1>17 DEF Shows
<1> QED BY <1>12, <1>13, <1>15, <1>18 DEF Becomes

LEMMA AcquiredShown ==
  ASSUME NEW s \in States, NEW t \in Threads, NEW e \in Events, NEW h \in Views,
         e.type = "ACQUIRED", Shows(s, t, h, {Wants(e, "GRANT")}), h[e.mtx] = {}
  PROVE  Becomes(t, s, ProcessEvent(s, t, e), [h EXCEPT ![e.mtx] = {Has(t, e)}], {})
<1>1. s.graph \in Graphs /\ e.mtx \in Mutexes /\ e.pos \in Positions \cup {NULL} /\ s.req \in SUBSET Threads
  BY DEF States, Events
<1>2. /\ Wants(e, "GRANT") \in Edges /\ Wants(e, "GRANT").to = e.mtx
      /\ Has(t, e) \in Edges /\ Has(t, e) \in EdgesTo(t)
      /\ \A u \in Threads \ {t} : Has(t, e) \notin EdgesTo(u)
  BY <1>1 DEF Wants, Has, Edges, EdgesTo
<1>3. PICK es \in Seq(Edges) : es = s.graph.edges[t]
  BY <1>1 DEF Graphs, Vertices
<1>4. PICK i \in DOMAIN es :
        /\ es[i] = Wants(e, "GRANT") /\ Wants(e, "GRANT") \in EdgesToLocks
        /\ Graph!HasEdgeTo(s.graph, t, e.mtx) /\ Graph!EdgeTo(s.graph, t, e.mtx) = i
  BY <1>2, <1>3, AskedEdge
<1>5. PICK es2 : es2 = SubSeq(es, 1, i - 1) \o SubSeq(es, i + 1, Len(es))
  OBVIOUS
<1>6. /\ es2 \in Seq(Edges) /\ Elements(es2) \subseteq Elements(es)
      /\ Exactly(es2, EdgesToLocks, {})
  <2>1. Exactly(es, EdgesToLocks, {es[i]}) /\ es[i] \in EdgesToLocks
    BY <1>3, <1>4 DEF Shows
  <2> QED BY <2>1, <1>5, ExactlyRemove
<1>7. PICK R : R = Graph!Remove(s.graph, t, i)
  OBVIOUS
<1>8. Rewrites(s.graph, R, t, es2)
  BY <1>1, <1>3, <1>5, <1>7, RemoveRewrites DEF Vertices
<1>9. PICK N : N = Graph!Add(R, e.mtx, t, "HOLD", e.pos)
  OBVIOUS
<1>10. R \in Graphs
  BY <1>8 DEF Rewrites
<1>11. Rewrites(R, N, e.mtx, Append(R.edges[e.mtx], Has(t, e)))
  BY <1>1, <1>9, <1>10, AddRewrites DEF Vertices, EdgeTypes, Has
<1>12. Graph!GrantToHold(s.graph, t, e.mtx, e.pos) = N
  <2>1. Graph!Value(s.graph, e.mtx) = e.mtx
    BY <1>2 DEF Graph!Value, Shows
  <2> QED BY <2>1, <1>4, <1>7, <1>9 DEF Graph!GrantToHold
<1>13. PICK s2 : s2 = [s EXCEPT !.graph = N, !.req = s.req \ {t}]
  OBVIOUS
<1>14. ProcessEvent(s, t, e) = s2
  BY <1>12, <1>13 DEF ProcessEvent
<1>15. s2 \in States /\ s2.graph = N /\ s2.req = s.req \ {t} /\ s2.held = s.held
  <2>1. N \in Graphs /\ s.req \ {t} \in SUBSET Threads
    BY <1>1, <1>11 DEF Rewrites
  <2> QED BY <2>1, <1>13 DEF States
<1>16. /\ s2.graph.edges[t] = es2
       /\ \A u \in Threads \ {t} : s2.graph.edges[u] = s.graph.edges[u]
       /\ \A m \in Mutexes \ {e.mtx} : s2.graph.edges[m] = s.graph.edges[m]
       /\ s2.graph.edges[e.mtx] = Append(s.graph.edges[e.mtx], Has(t, e))
       /\ s.graph.valued \subseteq s2.graph.valued
  <2>1. /\ R.edges[t] = es2 /\ \A w \in Vertices \ {t} : R.edges[w] = s.graph.edges[w]
        /\ s.graph.valued \subseteq R.valued
    BY <1>8 DEF Rewrites
  <2>2. /\ N.edges[e.mtx] = Append(R.edges[e.mtx], Has(t, e))
        /\ \A w \in Vertices \ {e.mtx} : N.edges[w] = R.edges[w]
        /\ R.valued \subseteq N.valued
    BY <1>11 DEF Rewrites
  <2>3. /\ e.mtx \in Vertices \ {t} /\ t \in Vertices \ {e.mtx}
        /\ \A u \in Threads \ {t} : u \in Vertices \ {t} /\ u \in Vertices \ {e.mtx}
        /\ \A m \in Mutexes \ {e.mtx} : m \in Vertices \ {t} /\ m \in Vertices \ {e.mtx}
    BY <1>1, NodesAssumption DEF Vertices
  <2> QED BY <2>1, <2>2, <2>3, <1>15
<1>17. PICK ms \in Seq(Edges) : ms = s.graph.edges[e.mtx]
  BY <1>1 DEF Graphs, Vertices
<1>18. Keeps(t, s, s2)
  <2>1. ASSUME NEW u \in Threads \ {t}, NEW m \in Mutexes, NEW X \in SUBSET Edges,
               Exactly(s.graph.edges[m], EdgesTo(u), X)
        PROVE  Exactly(s2.graph.edges[m], EdgesTo(u), X)
    <3>1. CASE m = e.mtx
      <4>1. Exactly(ms, EdgesTo(u), X)
        BY <1>17, <2>1, <3>1
      <4>2. Has(t, e) \in Edges /\ Has(t, e) \notin EdgesTo(u)
        BY <1>2
      <4>3. Exactly(Append(ms, Has(t, e)), EdgesTo(u), X)
        BY <4>1, <4>2, ExactlyAppend
      <4> QED BY <1>16, <1>17, <3>1, <4>3
    <3>2. CASE m # e.mtx
      BY <1>16, <2>1, <3>2
    <3> QED BY <3>1, <3>2
  <2> QED BY <2>1, <1>15, <1>16, KeepsOthers
<1>19. PICK h2 : h2 = [h EXCEPT ![e.mtx] = {Has(t, e)}]
  OBVIOUS
<1>20. h2[e.mtx] = {Has(t, e)} /\ \A m \in Mutexes \ {e.mtx} : h2[m] = h[m]
  BY <1>1, <1>19 DEF Views
<1>21. ASSUME NEW m \in Mutexes PROVE Exactly(s2.graph.edges[m], EdgesTo(t), h2[m])
  <2>1. Exactly(s.graph.edges[m], EdgesTo(t), h[m])
    BY DEF Shows
  <2>2. CASE m = e.mtx
    <3>1. Exactly(ms, EdgesTo(t), {})
      BY <1>17, <2>1, <2>2
    <3>2. Has(t, e) \in Edges /\ Has(t, e) \in EdgesTo(t)
      BY <1>2
    <3>3. Exactly(Append(ms, Has(t, e)), EdgesTo(t), {Has(t, e)})
      BY <3>1, <3>2, ExactlyAppend
    <3> QED BY <1>16, <1>17, <1>20, <2>2, <3>3
  <2>3. CASE m # e.mtx
    BY <1>16, <1>20, <2>1, <2>3
  <2> QED BY <2>2, <2>3
<1>22. t \in s2.graph.valued
  BY <1>16 DEF Shows
<1>23. \A x \in Elements(s2.graph.edges[t]) : x.type = "YIELD" => x.to \in Threads
  BY <1>3, <1>6, <1>16 DEF Shows
<1>24. Shows(s2, t, h2, {})
  BY <1>6, <1>15, <1>16, <1>21, <1>22, <1>23 DEF Shows
<1> QED BY <1>14, <1>15, <1>18, <1>19, <1>24 DEF Becomes

LEMMA ReleaseShown ==
  ASSUME NEW s \in States, NEW t \in Threads, NEW e \in Events, NEW h \in Views, NEW x \in Edges,
         e.type = "RELEASE", Shows(s, t, h, {}), h[e.mtx] = {x}
  PROVE  Becomes(t, s, ProcessEvent(s, t, e), [h EXCEPT ![e.mtx] = {}], {})
<1>1. s.graph \in Graphs /\ e.mtx \in Mutexes
  BY DEF States, Events
<1>2. PICK es \in Seq(Edges) : es = s.graph.edges[e.mtx]
  BY <1>1 DEF Graphs, Vertices
<1>3. Exactly(es, EdgesTo(t), {x}) /\ t \in s.graph.valued
  BY <1>1, <1>2 DEF Shows
<1>4. PICK i \in DOMAIN es : es[i] = x /\ x \in EdgesTo(t)
  BY <1>3 DEF Exactly, Elements
<1>5. \A j \in DOMAIN es : es[j].to = t => j = i
  <2> SUFFICES ASSUME NEW j \in DOMAIN es, es[j].to = t PROVE j = i
    OBVIOUS
  <2>1. es[j] \in EdgesTo(t) /\ es[j] \in Elements(es)
    BY DEF EdgesTo, Elements
  <2>2. es[j] = es[i]
    BY <1>3, <1>4, <2>1 DEF Exactly
  <2> QED BY <1>3, <2>1, <2>2 DEF Exactly
<1>6. Graph!HasEdgeTo(s.graph, e.mtx, t) /\ Graph!EdgeTo(s.graph, e.mtx, t) = i
  <2>1. es[i].to = t
    BY <1>4 DEF EdgesTo
  <2> QED BY <1>1, <1>2, <1>3, <1>5, <2>1, EdgeFound DEF Vertices
<1>7. PICK es2 : es2 = SubSeq(es, 1, i - 1) \o SubSeq(es, i + 1, Len(es))
  OBVIOUS
<1>8. PICK N : N = Graph!Remove(s.graph, e.mtx, i)
  OBVIOUS
<1>9. Rewrites(s.graph, N, e.mtx, es2)
  BY <1>1, <1>2, <1>7, <1>8, RemoveRewrites DEF Vertices
<1>10. Graph!Release(s.graph, e.mtx, t) = N
  BY <1>6, <1>8 DEF Graph!Release
<1>11. PICK s2 : s2 = [s EXCEPT !.graph = N]
  OBVIOUS
<1>12. ProcessEvent(s, t, e) = s2
  BY <1>10, <1>11 DEF ProcessEvent
<1>13. s2 \in States /\ s2.graph = N /\ s2.req = s.req /\ s2.held = s.held
  BY <1>9, <1>11, StateWithGraph DEF Rewrites
<1>14. /\ s2.graph.edges[e.mtx] = es2
       /\ \A u \in Threads : s2.graph.edges[u] = s.graph.edges[u]
       /\ \A m \in Mutexes \ {e.mtx} : s2.graph.edges[m] = s.graph.edges[m]
       /\ s.graph.valued \subseteq s2.graph.valued
  BY <1>1, <1>9, <1>13, NodesAssumption DEF Rewrites, Vertices
<1>15. Keeps(t, s, s2)
  <2>1. ASSUME NEW u \in Threads \ {t}, NEW m \in Mutexes, NEW X \in SUBSET Edges,
               Exactly(s.graph.edges[m], EdgesTo(u), X)
        PROVE  Exactly(s2.graph.edges[m], EdgesTo(u), X)
    <3>1. CASE m = e.mtx
      <4>1. es[i] \notin EdgesTo(u)
        BY <1>4 DEF EdgesTo
      <4>2. Exactly(es, EdgesTo(u), X)
        BY <1>2, <2>1, <3>1
      <4>3. Exactly(es2, EdgesTo(u), X)
        BY <1>7, <4>1, <4>2, ExactlyRemove
      <4> QED BY <1>14, <3>1, <4>3
    <3>2. CASE m # e.mtx
      BY <1>14, <2>1, <3>2
    <3> QED BY <3>1, <3>2
  <2> QED BY <2>1, <1>13, <1>14, KeepsOthers
<1>16. PICK h2 : h2 = [h EXCEPT ![e.mtx] = {}]
  OBVIOUS
<1>17. h2[e.mtx] = {} /\ \A m \in Mutexes \ {e.mtx} : h2[m] = h[m]
  BY <1>1, <1>16 DEF Views
<1>18. ASSUME NEW m \in Mutexes PROVE Exactly(s2.graph.edges[m], EdgesTo(t), h2[m])
  <2>1. Exactly(s.graph.edges[m], EdgesTo(t), h[m])
    BY DEF Shows
  <2>2. CASE m = e.mtx
    <3>1. Exactly(es, EdgesTo(t), {es[i]}) /\ es[i] \in EdgesTo(t)
      BY <1>3, <1>4
    <3>2. Exactly(es2, EdgesTo(t), {})
      BY <1>7, <3>1, ExactlyRemove
    <3> QED BY <1>14, <1>17, <2>2, <3>2
  <2>3. CASE m # e.mtx
    BY <1>14, <1>17, <2>1, <2>3
  <2> QED BY <2>2, <2>3
<1>19. Shows(s2, t, h2, {})
  BY <1>3, <1>13, <1>14, <1>18 DEF Shows
<1> QED BY <1>12, <1>13, <1>15, <1>16, <1>19 DEF Becomes

(* Each event has its effect. *)
LEMMA EventShown ==
  ASSUME NEW s \in States, NEW t \in Threads, NEW e \in Events,
         NEW h \in Views, NEW a, NEW h2, NEW a2, Shows(s, t, h, a), Effect(t, e, h, a, h2, a2)
  PROVE  Becomes(t, s, ProcessEvent(s, t, e), h2, a2)
<1>1. CASE e.type = "REQUEST"
  <2>1. a = {} /\ h2 = h /\ a2 = {Wants(e, "REQUEST")}
    BY <1>1 DEF Effect
  <2> QED BY <1>1, <2>1, RequestShown
<1>2. CASE e.type = "YIELD"
  <2>1. IsFiniteSet(e.cause) /\ h2 = h /\ a2 = a
    BY <1>2 DEF Effect
  <2> QED BY <1>2, <2>1, YieldShown
<1>3. CASE e.type = "GRANT"
  <2>1. a = {Wants(e, "REQUEST")} /\ h2 = h /\ a2 = {Wants(e, "GRANT")}
    BY <1>3 DEF Effect
  <2> QED BY <1>3, <2>1, GrantShown
<1>4. CASE e.type = "ACQUIRED"
  <2>1. /\ a = {Wants(e, "GRANT")} /\ h[e.mtx] = {}
        /\ h2 = [h EXCEPT ![e.mtx] = {Has(t, e)}] /\ a2 = {}
    BY <1>4 DEF Effect
  <2> QED BY <1>4, <2>1, AcquiredShown
<1>5. CASE e.type = "RELEASE"
  <2>1. PICK x \in Edges : h[e.mtx] = {x}
    BY <1>5 DEF Effect
  <2>2. a = {} /\ h2 = [h EXCEPT ![e.mtx] = {}] /\ a2 = {}
    BY <1>5 DEF Effect
  <2> QED BY <1>5, <2>1, <2>2, ReleaseShown
<1> QED BY <1>1, <1>2, <1>3, <1>4, <1>5 DEF Effect

-----------------------------------------------------------------------------
(* Reading a queue, and processing the events held back *)

(* One turn of the loop over a queue, or of the one over the events held   *)
(* back: both are done with Each.                                          *)
Turn(loop, s, t, e) == IF loop = "flush" THEN ProcessEvent(s, t, e) ELSE HandleEvent(s, t, e)

IsRun(b, s, t, es, n, run) ==
  run = [i \in 0..n |-> IF i = 0 THEN s ELSE Turn(b, run[i - 1], t, es[i])]

(* Each is well defined: its recursion goes down to 0. *)
LEMMA RunExists ==
  ASSUME NEW b, NEW s, NEW t, NEW es, NEW n \in Nat
  PROVE  \E run : IsRun(b, s, t, es, n, run)
<1> DEFINE Defined(k) ==
      \E run : run = [i \in 0..k |-> IF i = 0 THEN s ELSE Turn(b, run[i - 1], t, es[i])]
<1> SUFFICES ASSUME ~ Defined(n) PROVE FALSE
  BY DEF IsRun
<1>1. PICK m \in Nat : ~ Defined(m) /\ \A k \in Nat : ~ Defined(k) => m <= k
  <2>1. {k \in Nat : ~ Defined(k)} \in SUBSET Nat /\ n \in {k \in Nat : ~ Defined(k)}
    OBVIOUS
  <2> HIDE DEF Defined
  <2> QED BY <2>1, LeastNat
<1>2. m # 0
  <2> SUFFICES ASSUME m = 0 PROVE Defined(0)
    BY <1>1
  <2>1. PICK r : r = [i \in 0..0 |-> s]
    OBVIOUS
  <2>2. r = [i \in 0..0 |-> IF i = 0 THEN s ELSE Turn(b, r[i - 1], t, es[i])]
    BY <2>1
  <2> QED BY <2>2
<1>3. m - 1 \in Nat /\ ~ (m <= m - 1)
  BY <1>2
<1>4. Defined(m - 1)
  <2> HIDE DEF Defined
  <2> QED BY <1>1, <1>3
<1>5. PICK r : r = [i \in 0..(m - 1) |-> IF i = 0 THEN s ELSE Turn(b, r[i - 1], t, es[i])]
  BY <1>4
<1>6. PICK q : q = [i \in 0..m |-> IF i < m THEN r[i] ELSE Turn(b, r[i - 1], t, es[i])]
  OBVIOUS
<1>7. q = [i \in 0..m |-> IF i = 0 THEN s ELSE Turn(b, q[i - 1], t, es[i])]
  <2>1. \A i \in 0..m : i # 0 => q[i - 1] = r[i - 1]
    BY <1>6
  <2>2. ASSUME NEW i \in 0..m PROVE q[i] = IF i = 0 THEN s ELSE Turn(b, q[i - 1], t, es[i])
    <3>1. CASE i = m
      BY <1>2, <1>6, <2>1, <3>1
    <3>2. CASE i # m
      <4>1. i \in 0..(m - 1) /\ i < m
        BY <3>2
      <4>2. r[i] = IF i = 0 THEN s ELSE Turn(b, r[i - 1], t, es[i])
        BY <1>5, <4>1
      <4>3. q[i] = r[i]
        BY <1>6, <4>1
      <4> QED BY <2>1, <4>2, <4>3
    <3> QED BY <3>1, <3>2
  <2> QED BY <1>6, <2>2
<1>8. Defined(m)
  BY <1>7
<1> QED BY <1>1, <1>8

(* The state after the events es is the last of the run over them. *)
RunOf(b, s, t, es, run) ==
  /\ run[0] = s
  /\ \A i \in 1..Len(es) : run[i] = Turn(b, run[i - 1], t, es[i])

LEMMA EachRun ==
  ASSUME NEW s, NEW t, NEW es \in Seq(Events)
  PROVE  /\ \E q : RunOf("flush", s, t, es, q) /\ Each(ProcessEvent, s, t, es) = q[Len(es)]
         /\ \E q : RunOf("read", s, t, es, q) /\ Each(HandleEvent, s, t, es) = q[Len(es)]
<1>1. Len(es) \in Nat
  OBVIOUS
<1>2. ASSUME NEW b, NEW q, q = [i \in 0..Len(es) |-> IF i = 0 THEN s ELSE Turn(b, q[i - 1], t, es[i])]
      PROVE  RunOf(b, s, t, es, q)
  <2>1. \A i \in 0..Len(es) : q[i] = IF i = 0 THEN s ELSE Turn(b, q[i - 1], t, es[i])
    BY ONLY <1>2
  <2> QED BY ONLY <1>1, <2>1 DEF RunOf
<1>3. \E q : RunOf("flush", s, t, es, q) /\ Each(ProcessEvent, s, t, es) = q[Len(es)]
  <2>1. \E run : run = [i \in 0..Len(es) |-> IF i = 0 THEN s ELSE ProcessEvent(run[i - 1], t, es[i])]
    <3>1. PICK r : IsRun("flush", s, t, es, Len(es), r)
      BY <1>1, RunExists
    <3>2. r = [i \in 0..Len(es) |-> IF i = 0 THEN s ELSE ProcessEvent(r[i - 1], t, es[i])]
      BY ONLY <3>1 DEF Turn, IsRun
    <3> QED BY <3>2
  <2>2. \E q : /\ q = [i \in 0..Len(es) |-> IF i = 0 THEN s ELSE ProcessEvent(q[i - 1], t, es[i])]
               /\ Each(ProcessEvent, s, t, es) = q[Len(es)]
    BY <2>1 DEF Each
  <2>3. PICK q : /\ q = [i \in 0..Len(es) |-> IF i = 0 THEN s ELSE ProcessEvent(q[i - 1], t, es[i])]
                 /\ Each(ProcessEvent, s, t, es) = q[Len(es)]
    BY <2>2
  <2>4. q = [i \in 0..Len(es) |-> IF i = 0 THEN s ELSE Turn("flush", q[i - 1], t, es[i])]
    BY ONLY <2>3 DEF Turn
  <2> QED BY <1>2, <2>3, <2>4
<1>4. \E q : RunOf("read", s, t, es, q) /\ Each(HandleEvent, s, t, es) = q[Len(es)]
  <2>1. \E run : run = [i \in 0..Len(es) |-> IF i = 0 THEN s ELSE HandleEvent(run[i - 1], t, es[i])]
    <3>1. PICK r : IsRun("read", s, t, es, Len(es), r)
      BY <1>1, RunExists
    <3>2. r = [i \in 0..Len(es) |-> IF i = 0 THEN s ELSE HandleEvent(r[i - 1], t, es[i])]
      BY ONLY <3>1 DEF Turn, IsRun
    <3> QED BY <3>2
  <2>2. \E q : /\ q = [i \in 0..Len(es) |-> IF i = 0 THEN s ELSE HandleEvent(q[i - 1], t, es[i])]
               /\ Each(HandleEvent, s, t, es) = q[Len(es)]
    BY <2>1 DEF Each
  <2>3. PICK q : /\ q = [i \in 0..Len(es) |-> IF i = 0 THEN s ELSE HandleEvent(q[i - 1], t, es[i])]
                 /\ Each(HandleEvent, s, t, es) = q[Len(es)]
    BY <2>2
  <2>4. q = [i \in 0..Len(es) |-> IF i = 0 THEN s ELSE Turn("read", q[i - 1], t, es[i])]
    BY ONLY <2>3 DEF Turn
  <2> QED BY <1>2, <2>3, <2>4
<1> QED BY <1>3, <1>4

(* A run over more events begins like a run over the first of them. *)
LEMMA RunsAgree ==
  ASSUME NEW b, NEW s, NEW t, NEW es \in Seq(Events), NEW e \in Events, NEW q, NEW r,
         RunOf(b, s, t, Append(es, e), q), RunOf(b, s, t, es, r)
  PROVE  q[Len(es) + 1] = Turn(b, r[Len(es)], t, e)
<1>1. PICK n \in Nat : n = Len(es)
  OBVIOUS
<1>2. PICK fs : fs = Append(es, e)
  OBVIOUS
<1>3. Len(fs) = n + 1 /\ fs[n + 1] = e /\ \A i \in 1..n : fs[i] = es[i]
  BY <1>1, <1>2
<1>4. /\ q[0] = s /\ r[0] = s
      /\ \A i \in 1..(n + 1) : q[i] = Turn(b, q[i - 1], t, fs[i])
      /\ \A i \in 1..n : r[i] = Turn(b, r[i - 1], t, es[i])
  BY <1>1, <1>2, <1>3 DEF RunOf
<1> DEFINE Same(k) == q[k] = r[k]
<1>5. \A k \in 0..n : Same(k)
  <2> SUFFICES ASSUME NEW k \in 0..n, ~ Same(k) PROVE FALSE
    OBVIOUS
  <2>1. PICK m \in 0..n : ~ Same(m) /\ \A l \in 0..n : ~ Same(l) => m <= l
    <3>1. {l \in 0..n : ~ Same(l)} \in SUBSET Nat /\ k \in {l \in 0..n : ~ Same(l)}
      OBVIOUS
    <3> HIDE DEF Same
    <3> QED BY <3>1, LeastNat
  <2>2. m # 0
    BY <1>4, <2>1
  <2>3. m \in 1..n /\ m \in 1..(n + 1) /\ m - 1 \in 0..n /\ ~ (m <= m - 1)
    BY <2>2
  <2>4. q[m - 1] = r[m - 1]
    BY <2>1, <2>3
  <2>5. q[m] = Turn(b, q[m - 1], t, fs[m]) /\ r[m] = Turn(b, r[m - 1], t, es[m])
    BY <1>4, <2>3
  <2>6. q[m] = r[m]
    BY <1>3, <2>3, <2>4, <2>5
  <2> QED BY <2>1, <2>6
<1>6. q[n] = r[n]
  BY <1>5
<1>7. q[n + 1] = Turn(b, q[n + 1 - 1], t, fs[n + 1]) /\ n + 1 - 1 = n
  BY <1>4
<1> QED BY <1>1, <1>3, <1>6, <1>7

(* No event changes nothing, and the last one is the last to be done with. *)
LEMMA EachNone ==
  ASSUME NEW s, NEW t
  PROVE  Each(ProcessEvent, s, t, <<>>) = s /\ Each(HandleEvent, s, t, <<>>) = s
<1>1. PICK es \in Seq(Events) : es = <<>> /\ Len(es) = 0
  <2>1. <<>> \in Seq(Events) /\ Len(<<>>) = 0
    OBVIOUS
  <2> QED BY <2>1
<1>2. /\ \E q : RunOf("flush", s, t, es, q) /\ Each(ProcessEvent, s, t, es) = q[Len(es)]
      /\ \E q : RunOf("read", s, t, es, q) /\ Each(HandleEvent, s, t, es) = q[Len(es)]
  BY EachRun
<1>3. Each(ProcessEvent, s, t, es) = s /\ Each(HandleEvent, s, t, es) = s
  BY <1>1, <1>2 DEF RunOf
<1> QED BY <1>1, <1>3

LEMMA EachAppend ==
  ASSUME NEW s, NEW t, NEW es \in Seq(Events), NEW e \in Events
  PROVE  /\ Each(ProcessEvent, s, t, Append(es, e)) = ProcessEvent(Each(ProcessEvent, s, t, es), t, e)
         /\ Each(HandleEvent, s, t, Append(es, e)) = HandleEvent(Each(HandleEvent, s, t, es), t, e)
<1>1. PICK fs \in Seq(Events) : fs = Append(es, e) /\ Len(fs) = Len(es) + 1
  <2>1. Append(es, e) \in Seq(Events) /\ Len(Append(es, e)) = Len(es) + 1
    BY AppendElements
  <2> QED BY <2>1
<1>2. /\ \E q : RunOf("flush", s, t, es, q) /\ Each(ProcessEvent, s, t, es) = q[Len(es)]
      /\ \E q : RunOf("read", s, t, es, q) /\ Each(HandleEvent, s, t, es) = q[Len(es)]
      /\ \E q : RunOf("flush", s, t, fs, q) /\ Each(ProcessEvent, s, t, fs) = q[Len(fs)]
      /\ \E q : RunOf("read", s, t, fs, q) /\ Each(HandleEvent, s, t, fs) = q[Len(fs)]
  BY EachRun
<1>3. Each(ProcessEvent, s, t, fs) = ProcessEvent(Each(ProcessEvent, s, t, es), t, e)
  <2>1. PICK r : RunOf("flush", s, t, es, r) /\ Each(ProcessEvent, s, t, es) = r[Len(es)]
    BY <1>2
  <2>2. PICK q : RunOf("flush", s, t, fs, q) /\ Each(ProcessEvent, s, t, fs) = q[Len(fs)]
    BY <1>2
  <2>3. q[Len(es) + 1] = Turn("flush", r[Len(es)], t, e)
    BY <1>1, <2>1, <2>2, RunsAgree
  <2> QED BY <1>1, <2>1, <2>2, <2>3 DEF Turn
<1>4. Each(HandleEvent, s, t, fs) = HandleEvent(Each(HandleEvent, s, t, es), t, e)
  <2>1. PICK r : RunOf("read", s, t, es, r) /\ Each(HandleEvent, s, t, es) = r[Len(es)]
    BY <1>2
  <2>2. PICK q : RunOf("read", s, t, fs, q) /\ Each(HandleEvent, s, t, fs) = q[Len(fs)]
    BY <1>2
  <2>3. q[Len(es) + 1] = Turn("read", r[Len(es)], t, e)
    BY <1>1, <2>1, <2>2, RunsAgree
  <2> QED BY <1>1, <2>1, <2>2, <2>3 DEF Turn
<1> QED BY <1>1, <1>3, <1>4

(* Holding events back is nothing the graph shows. *)
LEMMA HeldUnseen ==
  ASSUME NEW s \in States, NEW es \in Seq(Events)
  PROVE  /\ [s EXCEPT !.held = es] \in States
         /\ [s EXCEPT !.held = es].held = es
         /\ \A t \in Threads : Keeps(t, s, [s EXCEPT !.held = es])
         /\ \A t, h, a : Shows(s, t, h, a) => Shows([s EXCEPT !.held = es], t, h, a)
<1>1. PICK r : r = [s EXCEPT !.held = es]
  OBVIOUS
<1>2. r \in States /\ r.held = es /\ r.graph = s.graph /\ r.req = s.req
  BY <1>1 DEF States
<1>3. \A t, h, a : Shows(s, t, h, a) => Shows(r, t, h, a)
  BY <1>2 DEF Shows
<1>4. \A t \in Threads : Keeps(t, s, r)
  BY <1>3 DEF Keeps
<1> QED BY <1>1, <1>2, <1>3, <1>4

(* The loop over the queue of t, begun in state s0, is in state s after    *)
(* events that have left t with h and a.  Once the events held back are    *)
(* processed, the graph shows h and a.  If they are dropped instead, it    *)
(* shows h without the mutex they are about, and that is all they did.     *)
Follows(s0, s, t, h, a) ==
  /\ s \in States /\ Keeps(t, s0, s)
  /\ Flush(s, t) \in States /\ Flush(s, t).held = <<>>
  /\ Keeps(t, s0, Flush(s, t)) /\ Shows(Flush(s, t), t, h, a)
  /\ s.held # <<>> =>
       \E x \in Mutexes :
         /\ x = s.held[1].mtx
         /\ Shows(s, t, [h EXCEPT ![x] = {}], {})
         /\ \A e \in a : e.to = x
         /\ h[x] = {} \/ a = {}

(* With nothing held back, there is nothing to process. *)
LEMMA NothingHeld ==
  ASSUME NEW s \in States, NEW t \in Threads, s.held = <<>>
  PROVE  Flush(s, t) = s
<1>1. [s EXCEPT !.held = <<>>] = s
  BY DEF States
<1>2. Each(ProcessEvent, s, t, <<>>) = s
  BY EachNone
<1> QED BY <1>1, <1>2 DEF Flush

LEMMA FollowsDirectly ==
  ASSUME NEW s0, NEW s \in States, NEW t \in Threads, NEW h, NEW a, s.held = <<>>,
         Keeps(t, s0, s), Shows(s, t, h, a)
  PROVE  Follows(s0, s, t, h, a)
<1>1. Flush(s, t) = s
  BY NothingHeld
<1> QED BY <1>1 DEF Follows

(* One more event held back: it is processed last. *)
LEMMA FlushOneMore ==
  ASSUME NEW s \in States, NEW t \in Threads, NEW e \in Events
  PROVE  LET s2 == [s EXCEPT !.held = Append(s.held, e)] IN
         /\ s2 \in States /\ s2.held = Append(s.held, e)
         /\ Keeps(t, s, s2) /\ (\A h, a : Shows(s, t, h, a) => Shows(s2, t, h, a))
         /\ Flush(s2, t) = ProcessEvent(Flush(s, t), t, e)
<1>1. PICK es \in Seq(Events) : es = s.held
  BY DEF States
<1>2. PICK fs \in Seq(Events) : fs = Append(es, e)
  BY AppendElements
<1>3. PICK s2 : s2 = [s EXCEPT !.held = fs]
  OBVIOUS
<1>4. /\ s2 \in States /\ s2.held = fs /\ Keeps(t, s, s2)
      /\ \A h, a : Shows(s, t, h, a) => Shows(s2, t, h, a)
  BY <1>3, HeldUnseen
<1>5. PICK s1 : s1 = [s EXCEPT !.held = <<>>]
  OBVIOUS
<1>6. [s2 EXCEPT !.held = <<>>] = s1
  BY <1>3, <1>5 DEF States
<1>7. Flush(s2, t) = Each(ProcessEvent, s1, t, fs) /\ Flush(s, t) = Each(ProcessEvent, s1, t, es)
  BY <1>1, <1>4, <1>5, <1>6 DEF Flush
<1>8. Each(ProcessEvent, s1, t, Append(es, e)) = ProcessEvent(Each(ProcessEvent, s1, t, es), t, e)
  BY EachAppend
<1> QED BY <1>1, <1>2, <1>3, <1>4, <1>7, <1>8

(* What an event leaves: where it is about the mutex of the events before, *)
(* so is what it did.                                                      *)
LEMMA EffectOnOne ==
  ASSUME NEW t \in Threads, NEW e \in Events, NEW h \in Views, NEW a, NEW h2 \in Views, NEW a2,
         Effect(t, e, h, a, h2, a2), e.type # "RELEASE", h[e.mtx] = {} \/ a = {}
  PROVE  /\ [h2 EXCEPT ![e.mtx] = {}] = [h EXCEPT ![e.mtx] = {}]
         /\ \A d \in a2 : d.to = e.mtx
         /\ h2[e.mtx] = {} \/ a2 = {}
<1>1. e.mtx \in Mutexes
  BY DEF Events
<1>2. \A m \in Mutexes \ {e.mtx} : h2[m] = h[m]
  BY <1>1 DEF Effect, Views
<1>3. [h2 EXCEPT ![e.mtx] = {}] = [h EXCEPT ![e.mtx] = {}]
  BY <1>1, <1>2 DEF Views
<1>4. \A d \in a2 : d.to = e.mtx
  BY DEF Effect, Wants
<1>5. h2[e.mtx] = {} \/ a2 = {}
  BY DEF Effect
<1> QED BY <1>3, <1>4, <1>5

(* One turn of the loop over the queue. *)
LEMMA HandleShown ==
  ASSUME NEW s0 \in States, NEW s, NEW t \in Threads, NEW e \in Events,
         NEW h \in Views, NEW a, NEW h2 \in Views, NEW a2,
         Follows(s0, s, t, h, a), Effect(t, e, h, a, h2, a2)
  PROVE  Follows(s0, HandleEvent(s, t, e), t, h2, a2)
<1>1. s \in States /\ Keeps(t, s0, s)
  BY DEF Follows
<1>2. PICK f \in States : f = Flush(s, t) /\ f.held = <<>> /\ Keeps(t, s0, f) /\ Shows(f, t, h, a)
  BY DEF Follows
<1>3. PICK f2 : f2 = ProcessEvent(f, t, e)
  OBVIOUS
<1>4. f2 \in States /\ f2.held = <<>> /\ Keeps(t, f, f2) /\ Shows(f2, t, h2, a2)
  BY <1>2, <1>3, EventShown DEF Becomes
<1>5. Keeps(t, s0, f2)
  BY <1>2, <1>4, KeepsTransitive
<1>6. e.mtx \in Mutexes
  BY DEF Events
<1>7. CASE s.held = <<>> /\ e.type # "REQUEST"
  <2>1. HandleEvent(s, t, e) = ProcessEvent(s, t, e)
    BY <1>7 DEF HandleEvent
  <2>2. f = s
    BY <1>1, <1>2, <1>7, NothingHeld
  <2>3. HandleEvent(s, t, e) = f2
    BY <1>3, <2>1, <2>2
  <2> QED BY <1>4, <1>5, <2>3, FollowsDirectly
<1>8. CASE s.held = <<>> /\ e.type = "REQUEST"
  <2>1. f = s
    BY <1>1, <1>2, <1>8, NothingHeld
  <2>2. a = {} /\ h[e.mtx] = {} /\ h2 = h /\ a2 = {Wants(e, "REQUEST")}
    BY <1>8 DEF Effect
  <2>3. PICK s2 : s2 = [s EXCEPT !.held = Append(s.held, e)]
    OBVIOUS
  <2>4. /\ s2 \in States /\ s2.held = Append(s.held, e) /\ Keeps(t, s, s2)
        /\ \A g, b : Shows(s, t, g, b) => Shows(s2, t, g, b)
        /\ Flush(s2, t) = f2
    BY <1>1, <1>2, <1>3, <2>3, FlushOneMore
  <2>5. HandleEvent(s, t, e) = s2
    <3>1. Append(<<>>, e) = <<e>>
      OBVIOUS
    <3>2. HandleEvent(s, t, e) = [s EXCEPT !.held = <<e>>]
      BY <1>8 DEF HandleEvent
    <3> QED BY <1>8, <2>3, <3>1, <3>2
  <2>6. s2.held[1] = e
    BY <1>8, <2>4
  <2>7. [h2 EXCEPT ![e.mtx] = {}] = h
    BY <1>6, <2>2 DEF Views
  <2>8. Shows(s2, t, [h2 EXCEPT ![e.mtx] = {}], {})
    BY <1>2, <2>1, <2>2, <2>4, <2>7
  <2>9. Keeps(t, s0, s2)
    BY <1>1, <2>4, KeepsTransitive
  <2>10. \A d \in a2 : d.to = e.mtx
    BY <2>2 DEF Wants
  <2> QED BY <1>4, <1>5, <1>6, <2>2, <2>4, <2>5, <2>6, <2>8, <2>9, <2>10 DEF Follows
<1>9. ASSUME s.held # <<>> PROVE Follows(s0, HandleEvent(s, t, e), t, h2, a2)
  <2>1. PICK x \in Mutexes :
          /\ x = s.held[1].mtx /\ Shows(s, t, [h EXCEPT ![x] = {}], {})
          /\ (\A d \in a : d.to = x) /\ (h[x] = {} \/ a = {})
    BY <1>9 DEF Follows
  <2>2. CASE e.mtx = x /\ e.type = "RELEASE"
    <3>1. h2 = [h EXCEPT ![x] = {}] /\ a2 = {}
      BY <2>2 DEF Effect
    <3>2. PICK s2 : s2 = [s EXCEPT !.held = <<>>]
      OBVIOUS
    <3>3. <<>> \in Seq(Events)
      OBVIOUS
    <3>4. /\ s2 \in States /\ s2.held = <<>> /\ Keeps(t, s, s2)
          /\ \A g, b : Shows(s, t, g, b) => Shows(s2, t, g, b)
      BY <1>1, <3>2, <3>3, HeldUnseen
    <3>5. HandleEvent(s, t, e) = s2
      BY <1>9, <2>1, <2>2, <3>2 DEF HandleEvent
    <3>6. Shows(s2, t, h2, a2)
      BY <2>1, <3>1, <3>4
    <3>7. Keeps(t, s0, s2)
      BY <1>1, <3>4, KeepsTransitive
    <3> QED BY <3>4, <3>5, <3>6, <3>7, FollowsDirectly
  <2>3. CASE e.mtx = x /\ e.type # "RELEASE"
    <3>1. /\ [h2 EXCEPT ![x] = {}] = [h EXCEPT ![x] = {}]
          /\ \A d \in a2 : d.to = x
          /\ h2[x] = {} \/ a2 = {}
      <4>1. e.type # "RELEASE" /\ (h[e.mtx] = {} \/ a = {})
        BY <2>1, <2>3
      <4>2. /\ [h2 EXCEPT ![e.mtx] = {}] = [h EXCEPT ![e.mtx] = {}]
            /\ \A d \in a2 : d.to = e.mtx
            /\ h2[e.mtx] = {} \/ a2 = {}
        BY <4>1, EffectOnOne
      <4> QED BY <2>3, <4>2
    <3>2. PICK s2 : s2 = [s EXCEPT !.held = Append(s.held, e)]
      OBVIOUS
    <3>3. /\ s2 \in States /\ s2.held = Append(s.held, e) /\ Keeps(t, s, s2)
          /\ \A g, b : Shows(s, t, g, b) => Shows(s2, t, g, b)
          /\ Flush(s2, t) = f2
      BY <1>1, <1>2, <1>3, <3>2, FlushOneMore
    <3>4. HandleEvent(s, t, e) = s2
      BY <1>9, <2>1, <2>3, <3>2 DEF HandleEvent
    <3>5. s2.held[1] = s.held[1]
      <4>1. s.held \in Seq(Events) /\ Len(s.held) \in Nat /\ Len(s.held) # 0
        BY <1>1, <1>9 DEF States
      <4> QED BY <3>3, <4>1
    <3>6. Keeps(t, s0, s2)
      BY <1>1, <3>3, KeepsTransitive
    <3>7. Shows(s2, t, [h2 EXCEPT ![x] = {}], {})
      BY <2>1, <3>1, <3>3
    <3> QED BY <1>4, <1>5, <2>1, <3>1, <3>3, <3>4, <3>5, <3>6, <3>7 DEF Follows
  <2>4. CASE e.mtx # x
    <3>1. HandleEvent(s, t, e) = f2
      BY <1>2, <1>3, <1>9, <2>1, <2>4 DEF HandleEvent
    <3> QED BY <1>4, <1>5, <3>1, FollowsDirectly
  <2> QED BY <2>2, <2>3, <2>4
<1> QED BY <1>7, <1>8, <1>9

-----------------------------------------------------------------------------
(* What the graph shows of a thread, and what it will once its queue is    *)
(* read.                                                                   *)

Read(s, t, es) == Each(HandleEvent, s, t, es)

(* A thread does not ask for a mutex it has. *)
Sane(h, a) == \A e \in a : h[e.to] = {}

(* Taking the first events of a queue, one more or all but them. *)
LEMMA PrefixSteps ==
  ASSUME NEW S, NEW es \in Seq(S), NEW n \in 0..Len(es)
  PROVE  /\ SubSeq(es, 1, n) \in Seq(S)
         /\ n # Len(es) => SubSeq(es, 1, n + 1) = Append(SubSeq(es, 1, n), es[n + 1])
<1>1. /\ SubSeq(es, 1, n) \in Seq(S) /\ Len(SubSeq(es, 1, n)) = n
      /\ \A i \in 1..n : SubSeq(es, 1, n)[i] = es[i]
  OBVIOUS
<1>2. CASE n # Len(es)
  <2>1. n + 1 \in 1..Len(es) /\ es[n + 1] \in S
    BY <1>2
  <2>2. /\ SubSeq(es, 1, n + 1) \in Seq(S) /\ Len(SubSeq(es, 1, n + 1)) = n + 1
        /\ \A i \in 1..(n + 1) : SubSeq(es, 1, n + 1)[i] = es[i]
    BY <2>1
  <2>3. PICK p \in Seq(S) : p = SubSeq(es, 1, n) /\ Len(p) = n /\ \A i \in 1..n : p[i] = es[i]
    BY <1>1
  <2>4. PICK q \in Seq(S) : /\ q = SubSeq(es, 1, n + 1) /\ Len(q) = n + 1
                            /\ \A i \in 1..(n + 1) : q[i] = es[i]
    BY <2>2
  <2>5. /\ Append(p, es[n + 1]) \in Seq(S) /\ Len(Append(p, es[n + 1])) = n + 1
        /\ \A i \in 1..(n + 1) : Append(p, es[n + 1])[i] = q[i]
    BY <2>1, <2>3, <2>4
  <2>6. q = Append(p, es[n + 1])
    BY <2>4, <2>5
  <2> QED BY <1>1, <2>3, <2>4, <2>6
<1> QED BY <1>1, <1>2

LEMMA SuffixElements ==
  ASSUME NEW S, NEW es \in Seq(S), NEW n \in 0..Len(es)
  PROVE  /\ SubSeq(es, n + 1, Len(es)) \in Seq(S)
         /\ Len(SubSeq(es, n + 1, Len(es))) = Len(es) - n
         /\ \A i \in 1..(Len(es) - n) : SubSeq(es, n + 1, Len(es))[i] = es[n + i]
<1>1. PICK k \in Nat : k = Len(es) /\ n \in 0..k
  OBVIOUS
<1>2. CASE n = k
  BY <1>1, <1>2
<1>3. CASE n # k
  <2>1. n + 1 \in 1..k
    BY <1>1, <1>3
  <2> QED BY <1>1, <2>1
<1> QED BY <1>2, <1>3

(* In state s, the queue es of thread t makes up the difference between    *)
(* what the graph shows of t and h, a, event by event: hs and as are what  *)
(* t has and asks for after each of them.                                  *)
TracksBy(t, s, es, hs, as) ==
  /\ Shows(s, t, hs[0], as[0])
  /\ \A i \in 0..Len(es) : Sane(hs[i], as[i])
  /\ \A i \in 1..Len(es) : Effect(t, es[i], hs[i - 1], as[i - 1], hs[i], as[i])

Tracks(t, s, es, h, a) ==
  \E hs \in [Nat -> Views], as \in [Nat -> SUBSET Edges] :
    TracksBy(t, s, es, hs, as) /\ hs[Len(es)] = h /\ as[Len(es)] = a

LEMMA TracksNone ==
  ASSUME NEW s, NEW t \in Threads, NEW h \in Views, NEW a \in SUBSET Edges, Shows(s, t, h, a),
         Sane(h, a)
  PROVE  Tracks(t, s, <<>>, h, a)
<1>1. PICK hs \in [Nat -> Views] : hs = [i \in Nat |-> h]
  OBVIOUS
<1>2. PICK as \in [Nat -> SUBSET Edges] : as = [i \in Nat |-> a]
  OBVIOUS
<1>3. /\ Len(<<>>) = 0 /\ 1..0 = {} /\ 0..0 = {0}
      /\ hs[0] = h /\ as[0] = a
  BY <1>1, <1>2
<1>4. TracksBy(t, s, <<>>, hs, as)
  BY <1>3 DEF TracksBy
<1> QED BY <1>3, <1>4 DEF Tracks

LEMMA TracksEvent ==
  ASSUME NEW t \in Threads, NEW s, NEW es \in Seq(Events), NEW h \in Views, NEW a,
         NEW e \in Events, NEW h2 \in Views, NEW a2 \in SUBSET Edges, Sane(h2, a2),
         Tracks(t, s, es, h, a), Effect(t, e, h, a, h2, a2)
  PROVE  Tracks(t, s, Append(es, e), h2, a2)
<1>1. PICK hs \in [Nat -> Views], as \in [Nat -> SUBSET Edges] :
        TracksBy(t, s, es, hs, as) /\ hs[Len(es)] = h /\ as[Len(es)] = a
  BY DEF Tracks
<1>2. PICK n \in Nat : n = Len(es)
  OBVIOUS
<1>3. PICK fs : fs = Append(es, e)
  OBVIOUS
<1>4. Len(fs) = n + 1 /\ fs[n + 1] = e /\ \A i \in 1..n : fs[i] = es[i]
  BY <1>2, <1>3
<1>5. PICK gs \in [Nat -> Views] : gs = [hs EXCEPT ![n + 1] = h2]
  OBVIOUS
<1>6. PICK bs \in [Nat -> SUBSET Edges] : bs = [as EXCEPT ![n + 1] = a2]
  OBVIOUS
<1>7. /\ gs[n + 1] = h2 /\ bs[n + 1] = a2
      /\ \A i \in 0..n : gs[i] = hs[i] /\ bs[i] = as[i]
  <2>1. n + 1 \in Nat /\ \A i \in 0..n : i \in Nat /\ i # n + 1
    BY <1>2
  <2>2. gs[n + 1] = h2 /\ \A i \in 0..n : gs[i] = hs[i]
    BY ONLY <2>1, <1>5
  <2>3. bs[n + 1] = a2 /\ \A i \in 0..n : bs[i] = as[i]
    BY ONLY <2>1, <1>6
  <2> QED BY <2>2, <2>3
<1>8. Shows(s, t, gs[0], bs[0])
  <2>1. Shows(s, t, hs[0], as[0])
    BY <1>1 DEF TracksBy
  <2>2. 0 \in 0..n
    BY <1>2
  <2>3. gs[0] = hs[0] /\ bs[0] = as[0]
    BY <1>7, <2>2
  <2> QED BY <2>1, <2>3
<1>9. \A i \in 0..(n + 1) : Sane(gs[i], bs[i])
  <2> SUFFICES ASSUME NEW i \in 0..(n + 1) PROVE Sane(gs[i], bs[i])
    OBVIOUS
  <2>1. CASE i = n + 1
    BY <1>7, <2>1
  <2>2. CASE i \in 0..n
    BY <1>1, <1>2, <1>7, <2>2 DEF TracksBy
  <2> QED BY <2>1, <2>2
<1>10. \A i \in 1..(n + 1) : Effect(t, fs[i], gs[i - 1], bs[i - 1], gs[i], bs[i])
  <2> SUFFICES ASSUME NEW i \in 1..(n + 1) PROVE Effect(t, fs[i], gs[i - 1], bs[i - 1], gs[i], bs[i])
    OBVIOUS
  <2>1. CASE i = n + 1
    <3>1. i - 1 = n /\ n \in 0..n
      BY <2>1
    <3>2. gs[i - 1] = h /\ bs[i - 1] = a /\ gs[i] = h2 /\ bs[i] = a2 /\ fs[i] = e
      BY <1>1, <1>2, <1>4, <1>7, <2>1, <3>1
    <3> QED BY <3>2
  <2>2. CASE i \in 1..n
    <3>1. i - 1 \in 0..n /\ i \in 0..n
      BY <2>2
    <3>2. gs[i - 1] = hs[i - 1] /\ bs[i - 1] = as[i - 1] /\ gs[i] = hs[i] /\ bs[i] = as[i] /\ fs[i] = es[i]
      BY <1>4, <1>7, <2>2, <3>1
    <3>3. Effect(t, es[i], hs[i - 1], as[i - 1], hs[i], as[i])
      BY <1>1, <1>2, <2>2 DEF TracksBy
    <3> QED BY <3>2, <3>3
  <2> QED BY <2>1, <2>2
<1>11. TracksBy(t, s, fs, gs, bs)
  BY <1>4, <1>8, <1>9, <1>10 DEF TracksBy
<1> QED BY <1>3, <1>4, <1>7, <1>11 DEF Tracks

(* The loop over the first n events follows the views. *)
LEMMA PrefixFollows ==
  ASSUME NEW t \in Threads, NEW s \in States, s.held = <<>>, NEW es \in Seq(Events),
         NEW hs \in [Nat -> Views], NEW as \in [Nat -> SUBSET Edges], TracksBy(t, s, es, hs, as),
         NEW n \in 0..Len(es)
  PROVE  Follows(s, Read(s, t, SubSeq(es, 1, n)), t, hs[n], as[n])
<1> SUFFICES ASSUME ~ Follows(s, Read(s, t, SubSeq(es, 1, n)), t, hs[n], as[n]) PROVE FALSE
  OBVIOUS
<1>1. PICK k \in Nat : k = Len(es) /\ n \in 0..k
  OBVIOUS
<1>2. PICK B : B = {i \in 0..k : ~ Follows(s, Read(s, t, SubSeq(es, 1, i)), t, hs[i], as[i])}
  OBVIOUS
<1>3. B \in SUBSET Nat /\ n \in B
  <2>1. \A i \in B : i \in 0..k
    BY ONLY <1>2
  <2>2. B \in SUBSET Nat
    BY ONLY <2>1, <1>1
  <2>3. n \in B
    BY <1>1, <1>2, Zenon
  <2> QED BY <2>2, <2>3
<1>4. PICK m \in B : \A i \in B : m <= i
  BY <1>3, LeastNat
<1>5. m \in 0..k /\ ~ Follows(s, Read(s, t, SubSeq(es, 1, m)), t, hs[m], as[m])
  BY <1>2
<1>6. CASE m = 0
  <2>1. SubSeq(es, 1, 0) = <<>>
    OBVIOUS
  <2>2. Read(s, t, SubSeq(es, 1, m)) = s
    BY <1>6, <2>1, EachNone DEF Read
  <2>3. Keeps(t, s, s) /\ Shows(s, t, hs[0], as[0])
    BY DEF Keeps, TracksBy
  <2>4. Follows(s, s, t, hs[0], as[0])
    BY <2>3, FollowsDirectly
  <2> QED BY <1>5, <1>6, <2>2, <2>4
<1>7. CASE m # 0
  <2>1. PICK j \in 0..k : j = m - 1 /\ m = j + 1 /\ j # k /\ m \in 1..k
    BY <1>5, <1>7
  <2>2. j \notin B
    BY <1>4, <2>1
  <2>3. Follows(s, Read(s, t, SubSeq(es, 1, j)), t, hs[j], as[j])
    BY <1>2, <2>2
  <2>4. PICK fs \in Seq(Events) : fs = SubSeq(es, 1, j) /\ SubSeq(es, 1, m) = Append(fs, es[m])
    BY <1>1, <2>1, PrefixSteps
  <2>5. PICK e \in Events : e = es[m]
    BY <1>1, <2>1
  <2>6. Effect(t, e, hs[j], as[j], hs[m], as[m])
    BY <1>1, <2>1, <2>5 DEF TracksBy
  <2>7. PICK r : r = Read(s, t, fs)
    OBVIOUS
  <2>8. Read(s, t, SubSeq(es, 1, m)) = HandleEvent(r, t, e)
    <3>1. Read(s, t, Append(fs, e)) = HandleEvent(r, t, e)
      BY <2>7, EachAppend DEF Read
    <3> QED BY <2>4, <2>5, <3>1
  <2>9. Follows(s, r, t, hs[j], as[j])
    BY <2>3, <2>4, <2>7
  <2>10. hs[j] \in Views /\ hs[m] \in Views
    BY <1>5, <2>1
  <2>11. Follows(s, HandleEvent(r, t, e), t, hs[m], as[m])
    BY <2>6, <2>9, <2>10, HandleShown
  <2> QED BY <1>5, <2>8, <2>11
<1> QED BY <1>6, <1>7

(* Whatever number of events is taken from a queue, the rest of it makes   *)
(* up the difference again.                                                *)
LEMMA TracksRead ==
  ASSUME NEW t \in Threads, NEW s \in States, s.held = <<>>, NEW es \in Seq(Events), NEW h, NEW a,
         Tracks(t, s, es, h, a), NEW n \in 0..Len(es)
  PROVE  LET f == Flush(Read(s, t, SubSeq(es, 1, n)), t) IN
         /\ f \in States /\ f.held = <<>> /\ Keeps(t, s, f)
         /\ Tracks(t, f, SubSeq(es, n + 1, Len(es)), h, a)
<1>1. PICK hs \in [Nat -> Views], as \in [Nat -> SUBSET Edges] :
        TracksBy(t, s, es, hs, as) /\ hs[Len(es)] = h /\ as[Len(es)] = a
  BY DEF Tracks
<1>2. PICK r : r = Read(s, t, SubSeq(es, 1, n))
  OBVIOUS
<1>3. Follows(s, r, t, hs[n], as[n])
  BY <1>1, <1>2, PrefixFollows
<1>4. PICK f : f = Flush(r, t)
  OBVIOUS
<1>5. f \in States /\ f.held = <<>> /\ Keeps(t, s, f) /\ Shows(f, t, hs[n], as[n])
  BY <1>3, <1>4 DEF Follows
<1>6. PICK k \in Nat : k = Len(es) /\ n \in 0..k
  OBVIOUS
<1>7. PICK fs \in Seq(Events) : /\ fs = SubSeq(es, n + 1, Len(es)) /\ Len(fs) = k - n
                                /\ \A i \in 1..(k - n) : fs[i] = es[n + i]
  <2>1. PICK fs : fs = SubSeq(es, n + 1, Len(es))
    OBVIOUS
  <2>2. fs \in Seq(Events) /\ Len(fs) = Len(es) - n /\ \A i \in 1..(Len(es) - n) : fs[i] = es[n + i]
    BY <2>1, SuffixElements
  <2>3. fs \in Seq(Events) /\ Len(fs) = k - n /\ \A i \in 1..(k - n) : fs[i] = es[n + i]
    BY <1>6, <2>2
  <2> QED BY <2>1, <2>3
<1>8. PICK gs \in [Nat -> Views] : gs = [i \in Nat |-> hs[n + i]]
  <2>1. \A i \in Nat : n + i \in Nat
    BY <1>6
  <2> QED BY <2>1
<1>9. PICK bs \in [Nat -> SUBSET Edges] : bs = [i \in Nat |-> as[n + i]]
  <2>1. \A i \in Nat : n + i \in Nat
    BY <1>6
  <2> QED BY <2>1
<1>10. \A i \in 0..(k - n) : n + i \in 0..k /\ gs[i] = hs[n + i] /\ bs[i] = as[n + i]
  BY <1>6, <1>8, <1>9
<1>11. Shows(f, t, gs[0], bs[0])
  <2>1. 0 \in 0..(k - n) /\ n + 0 = n
    BY <1>6
  <2>2. gs[0] = hs[n] /\ bs[0] = as[n]
    BY <1>10, <2>1
  <2> QED BY <1>5, <2>2
<1>12. \A i \in 0..(k - n) : Sane(gs[i], bs[i])
  BY <1>1, <1>6, <1>10 DEF TracksBy
<1>13. \A i \in 1..(k - n) : Effect(t, fs[i], gs[i - 1], bs[i - 1], gs[i], bs[i])
  <2> SUFFICES ASSUME NEW i \in 1..(k - n) PROVE Effect(t, fs[i], gs[i - 1], bs[i - 1], gs[i], bs[i])
    OBVIOUS
  <2>1. PICK j \in 1..k : j = n + i /\ j - 1 = n + (i - 1) /\ i - 1 \in 0..(k - n) /\ i \in 0..(k - n)
    BY <1>6
  <2>2. Effect(t, es[j], hs[j - 1], as[j - 1], hs[j], as[j])
    BY <1>1, <1>6 DEF TracksBy
  <2>3. fs[i] = es[j] /\ gs[i] = hs[j] /\ bs[i] = as[j]
    BY <1>7, <1>10, <2>1
  <2>4. gs[i - 1] = hs[j - 1] /\ bs[i - 1] = as[j - 1]
    BY <1>10, <2>1
  <2> QED BY <2>2, <2>3, <2>4
<1>14. TracksBy(t, f, fs, gs, bs)
  BY <1>7, <1>11, <1>12, <1>13 DEF TracksBy
<1>15. gs[Len(fs)] = h /\ bs[Len(fs)] = a
  <2>1. k - n \in 0..(k - n) /\ n + (k - n) = k
    BY <1>6
  <2> QED BY <1>1, <1>6, <1>7, <1>10, <2>1
<1>16. Tracks(t, f, fs, h, a)
  BY <1>14, <1>15 DEF Tracks
<1> QED BY <1>2, <1>4, <1>5, <1>7, <1>16

LEMMA TracksOthers ==
  ASSUME NEW t \in Threads, NEW u \in Threads \ {t}, NEW s, NEW s2, Keeps(t, s, s2),
         NEW es, NEW h, NEW a, Tracks(u, s, es, h, a)
  PROVE  Tracks(u, s2, es, h, a)
<1>1. PICK hs \in [Nat -> Views], as \in [Nat -> SUBSET Edges] :
        TracksBy(u, s, es, hs, as) /\ hs[Len(es)] = h /\ as[Len(es)] = a
  BY DEF Tracks
<1>2. Shows(s2, u, hs[0], as[0])
  BY <1>1 DEF TracksBy, Keeps
<1>3. TracksBy(u, s2, es, hs, as)
  BY <1>1, <1>2 DEF TracksBy
<1> QED BY <1>1, <1>3 DEF Tracks

(* What the graph shows of a thread, however much of its queue is unread,  *)
(* is a sane view of it.                                                   *)
LEMMA TracksSane ==
  ASSUME NEW t, NEW s, NEW es, Len(es) \in Nat, NEW h, NEW a, Tracks(t, s, es, h, a)
  PROVE  \E h0 \in Views, a0 \in SUBSET Edges : Shows(s, t, h0, a0) /\ Sane(h0, a0)
<1>1. PICK hs \in [Nat -> Views], as \in [Nat -> SUBSET Edges] : TracksBy(t, s, es, hs, as)
  BY DEF Tracks
<1>2. Shows(s, t, hs[0], as[0]) /\ Sane(hs[0], as[0])
  <2>1. 0 \in 0..Len(es)
    OBVIOUS
  <2> QED BY <1>1, <2>1 DEF TracksBy
<1>3. hs[0] \in Views /\ as[0] \in SUBSET Edges
  BY <1>1
<1> QED BY <1>2, <1>3

(* Once its queue is read, the graph shows h and a of t. *)
LEMMA TracksShown ==
  ASSUME NEW t, NEW s, NEW h, NEW a, Tracks(t, s, <<>>, h, a)
  PROVE  Shows(s, t, h, a)
<1>1. Len(<<>>) = 0
  OBVIOUS
<1> QED BY <1>1 DEF Tracks, TracksBy

-----------------------------------------------------------------------------
(* What the program records *)

HoldingView(t) == [m \in Mutexes |-> Holding(t, m)]

(* Thread t records nothing, and what it has and asks for is as before ... *)
Still(t) == eq'[t] = eq[t] /\ HoldingView(t)' = HoldingView(t) /\ Asked(t)' = Asked(t)

(* ... or it records one event, to that effect. *)
Records(t) ==
  \E e \in Events :
    /\ eq'[t] = Append(eq[t], e)
    /\ Effect(t, e, HoldingView(t), Asked(t), HoldingView(t)', Asked(t)')

LEMMA StillIf ==
  ASSUME NEW t \in Threads, eq'[t] = eq[t],
         \A m \in Mutexes : /\ owner'[m] = t <=> owner[m] = t
                            /\ owner[m] = t => acqPos'[m] = acqPos[m],
         Asks(t)' <=> Asks(t),
         Asks(t) => /\ arg'[t] = arg[t]
                    /\ pc'[t] \in {"locking", "acquired"} <=> pc[t] \in {"locking", "acquired"}
  PROVE  Still(t)
<1>1. \A m \in Mutexes : Holding(t, m)' = Holding(t, m)
  BY DEF Holding
<1>2. HoldingView(t)' = HoldingView(t)
  BY <1>1 DEF HoldingView
<1>3. Asked(t)' = Asked(t)
  <2>1. CASE Asks(t)
    <3>1. CASE pc[t] \in {"locking", "acquired"}
      BY <2>1, <3>1 DEF Asked
    <3>2. CASE pc[t] \notin {"locking", "acquired"}
      BY <2>1, <3>2 DEF Asked
    <3> QED BY <3>1, <3>2
  <2>2. CASE ~ Asks(t)
    BY <2>2 DEF Asked
  <2> QED BY <2>1, <2>2
<1> QED BY <1>2, <1>3 DEF Still

(* What thread t does is nothing to another one. *)
LEMMA OtherStill ==
  ASSUME TInv, NEW t \in Threads, NEW u \in Threads \ {t},
         eq'[u] = eq[u], pc'[u] = pc[u], arg'[u] = arg[u],
         \A m \in Mutexes : \/ owner'[m] = owner[m] /\ acqPos'[m] = acqPos[m]
                            \/ owner[m] # u /\ owner'[m] # u
  PROVE  Still(u)
<1>1. Asks(u)' <=> Asks(u)
  <2>1. pc[u] # "idle" => arg[u].mtx \in Mutexes
    BY DEF TInv, ArgOK
  <2> QED BY <2>1 DEF Asks
<1> QED BY <1>1, StillIf

(* Threads move along between events. *)
LEMMA MovesStill ==
  ASSUME TInv, UNCHANGED <<arg, owner, acqPos, eq>>,
         \A u \in Threads :
           \/ pc'[u] = pc[u]
           \/ pc[u] \in Asking /\ pc'[u] \in Asking
           \/ pc[u] = "locking" /\ pc'[u] = "acquired"
           \/ pc[u] = "releasing" /\ pc'[u] = "unlocking",
         NEW t \in Threads
  PROVE  Still(t)
<1>1. /\ Asks(t)' <=> Asks(t)
      /\ pc'[t] \in {"locking", "acquired"} <=> pc[t] \in {"locking", "acquired"}
  BY DEF Asks, Asking
<1> QED BY <1>1, StillIf

(* The effect of an event on one mutex of the view. *)
LEMMA RecordsEvent ==
  ASSUME NEW t \in Threads, NEW e \in Events, eq'[t] = Append(eq[t], e),
         Effect(t, e, HoldingView(t), Asked(t), HoldingView(t)', Asked(t)')
  PROVE  Records(t)
BY DEF Records

(* The queue of t has one more event. *)
Queued(t, type, m, p, cause) ==
  \E e \in Events :
    /\ eq'[t] = Append(eq[t], e)
    /\ e.type = type /\ e.mtx = m /\ e.pos = p /\ e.cause = cause

LEMMA Enqueued ==
  ASSUME eq \in [Threads -> Seq(Events)], "events" \in Features,
         NEW t \in Threads, NEW type \in EventTypes, NEW m \in Mutexes,
         NEW p \in Positions \cup {NULL}, NEW cause \in SUBSET Causes,
         Enqueue(t, type, m, p, cause)
  PROVE  /\ \A u \in Threads \ {t} : eq'[u] = eq[u]
         /\ Queued(t, type, m, p, cause)
<1>1. PICK e \in Events : e = [type |-> type, mtx |-> m, pos |-> p, cause |-> cause]
  BY DEF Events
<1>2. eq' = [eq EXCEPT ![t] = Append(eq[t], e)]
  BY <1>1 DEF Enqueue
<1>3. eq'[t] = Append(eq[t], e) /\ \A u \in Threads \ {t} : eq'[u] = eq[u]
  BY <1>2
<1> QED BY <1>1, <1>3 DEF Queued

LEMMA AcquireRecords ==
  ASSUME TInv, "events" \in Features, NEW t \in Threads, NEW m \in Mutexes, NEW p \in Positions,
         Acquire(t, m, p), NEW u \in Threads
  PROVE  Still(u) \/ Records(u)
<1>1. /\ pc[t] = "idle" /\ arg' = [arg EXCEPT ![t] = [mtx |-> m, pos |-> p]]
      /\ owner' = owner /\ acqPos' = acqPos
      /\ \/ owner[m] = t /\ pc' = [pc EXCEPT ![t] = "locking"] /\ eq' = eq
         \/ /\ owner[m] # t /\ pc' = [pc EXCEPT ![t] = "request"]
            /\ Enqueue(t, "REQUEST", m, p, {})
  BY DEF Acquire, Goto, lockVars
<1>2. /\ pc \in [Threads -> PCs] /\ arg \in [Threads -> Args] /\ eq \in [Threads -> Seq(Events)]
      /\ "REQUEST" \in EventTypes /\ {} \in SUBSET Causes
  BY DEF TInv, TypeOK, EventTypes
<1>3. CASE owner[m] = t
  <2>1. eq' = eq /\ pc' = [pc EXCEPT ![t] = "locking"]
    BY <1>1, <1>3
  <2>2. CASE u = t
    <3>1. ~ Asks(t) /\ ~ Asks(t)'
      BY <1>1, <1>2, <1>3, <2>1 DEF Asks
    <3> QED BY <1>1, <2>1, <2>2, <3>1, StillIf
  <2>3. CASE u # t
    BY <1>1, <1>2, <2>1, <2>3, OtherStill
  <2> QED BY <2>2, <2>3
<1>4. CASE owner[m] # t
  <2>1. pc' = [pc EXCEPT ![t] = "request"] /\ Enqueue(t, "REQUEST", m, p, {})
    BY <1>1, <1>4
  <2>2. PICK e \in Events : /\ eq'[t] = Append(eq[t], e)
                            /\ e.type = "REQUEST" /\ e.mtx = m /\ e.pos = p /\ e.cause = {}
    <3>1. Queued(t, "REQUEST", m, p, {})
      BY <1>2, <2>1, Enqueued
    <3> QED BY <3>1 DEF Queued
  <2>3. \A w \in Threads \ {t} : eq'[w] = eq[w]
    BY <1>2, <2>1, Enqueued
  <2>4. CASE u = t
    <3>1. pc'[t] = "request" /\ arg'[t] = [mtx |-> m, pos |-> p]
      BY <1>1, <1>2, <2>1
    <3>2. Asked(t) = {}
      BY <1>1 DEF Asked, Asks
    <3>3. Asked(t)' = {Wants(e, "REQUEST")}
      BY <1>1, <1>4, <2>2, <3>1 DEF Asked, Asks, Wants
    <3>4. HoldingView(t)' = HoldingView(t)
      BY <1>1 DEF HoldingView, Holding
    <3>5. HoldingView(t)[e.mtx] = {}
      BY <1>4, <2>2 DEF HoldingView, Holding
    <3>6. Effect(t, e, HoldingView(t), Asked(t), HoldingView(t)', Asked(t)')
      BY <2>2, <3>2, <3>3, <3>4, <3>5 DEF Effect
    <3>7. Records(t)
      BY <2>2, <3>6, RecordsEvent
    <3> QED BY <2>4, <3>7
  <2>5. CASE u # t
    BY <1>1, <1>2, <2>1, <2>3, <2>5, OtherStill
  <2> QED BY <2>4, <2>5
<1> QED BY <1>3, <1>4

(* The event of a thread that asks for a mutex goes on asking for it. *)
LEMMA AskingRecords ==
  ASSUME TInv, OwnInv, "events" \in Features, NEW t \in Threads, pc[t] \in {"granted", "yielding"},
         NEW type \in {"GRANT", "YIELD"}, NEW cause \in SUBSET Causes, IsFiniteSet(cause),
         Enqueue(t, type, arg[t].mtx, arg[t].pos, cause), UNCHANGED <<arg, owner, acqPos>>,
         pc' = [pc EXCEPT ![t] = IF type = "GRANT" THEN "locking" ELSE "wait"],
         NEW u \in Threads
  PROVE  Still(u) \/ Records(u)
<1>1. /\ pc \in [Threads -> PCs] /\ eq \in [Threads -> Seq(Events)]
      /\ type \in EventTypes /\ arg[t].mtx \in Mutexes /\ arg[t].pos \in Positions \cup {NULL}
  BY DEF TInv, TypeOK, ArgOK, EventTypes
<1>2. PICK e \in Events : /\ eq'[t] = Append(eq[t], e)
                          /\ e.type = type /\ e.mtx = arg[t].mtx /\ e.pos = arg[t].pos
                          /\ e.cause = cause
  <2>1. Queued(t, type, arg[t].mtx, arg[t].pos, cause)
    BY <1>1, Enqueued
  <2> QED BY <2>1 DEF Queued
<1>3. \A w \in Threads \ {t} : eq'[w] = eq[w]
  BY <1>1, Enqueued
<1>4. CASE u = t
  <2>1. owner[arg[t].mtx] # t
    BY DEF OwnInv, OpOK, Asking
  <2>2. Asked(t) = {Wants(e, "REQUEST")}
    BY <1>2, <2>1 DEF Asked, Asks, Wants
  <2>3. pc'[t] = IF type = "GRANT" THEN "locking" ELSE "wait"
    BY <1>1
  <2>4. Asked(t)' = {Wants(e, IF type = "GRANT" THEN "GRANT" ELSE "REQUEST")}
    <3>1. CASE type = "GRANT"
      BY <1>2, <2>1, <2>3, <3>1 DEF Asked, Asks, Wants
    <3>2. CASE type = "YIELD"
      BY <1>2, <2>1, <2>3, <3>2 DEF Asked, Asks, Wants
    <3> QED BY <3>1, <3>2
  <2>5. HoldingView(t)' = HoldingView(t)
    BY DEF HoldingView, Holding
  <2>6. Effect(t, e, HoldingView(t), Asked(t), HoldingView(t)', Asked(t)')
    BY <1>2, <2>2, <2>4, <2>5 DEF Effect
  <2>7. Records(t)
    BY <1>2, <2>6, RecordsEvent
  <2> QED BY <1>4, <2>7
<1>5. CASE u # t
  BY <1>1, <1>3, <1>5, OtherStill
<1> QED BY <1>4, <1>5

LEMMA AcquiredRecords ==
  ASSUME TInv, OwnInv, "events" \in Features, NEW t \in Threads, Acquired(t), NEW u \in Threads
  PROVE  Still(u) \/ Records(u)
<1>1. PICK m : m = arg[t].mtx
  OBVIOUS
<1>2. /\ pc[t] = "acquired" /\ m \in Mutexes
      /\ pc' = [pc EXCEPT ![t] = "idle"] /\ arg' = [arg EXCEPT ![t] = NoArg]
      /\ \/ /\ owner[m] = NULL /\ acqPos' = [acqPos EXCEPT ![m] = lockPos[t]]
            /\ owner' = [owner EXCEPT ![m] = t]
            /\ Enqueue(t, "ACQUIRED", m, lockPos[t], {})
         \/ owner[m] # NULL /\ UNCHANGED <<acqPos, owner, eq>>
  BY <1>1 DEF Acquired, Return, Goto, TInv, ArgOK
<1>3. /\ pc \in [Threads -> PCs] /\ arg \in [Threads -> Args] /\ eq \in [Threads -> Seq(Events)]
      /\ owner \in [Mutexes -> Threads \cup {NULL}] /\ acqPos \in [Mutexes -> Positions \cup {NULL}]
      /\ lockPos[t] \in Positions \cup {NULL} /\ "ACQUIRED" \in EventTypes /\ {} \in SUBSET Causes
  BY DEF TInv, TypeOK, EventTypes
<1>4. holder[m] = t /\ (owner[m] = t \/ lockPos[t] = arg[t].pos) /\ (owner[m] # NULL => owner[m] = holder[m])
  BY <1>1, <1>2 DEF OwnInv, OpOK, MutexOK
<1>5. pc'[t] = "idle"
  BY <1>2, <1>3
<1>6. CASE owner[m] # NULL
  <2>1. UNCHANGED <<acqPos, owner, eq>>
    BY <1>2, <1>6
  <2>2. CASE u = t
    <3>1. ~ Asks(t) /\ ~ Asks(t)'
      BY <1>1, <1>4, <1>5, <1>6 DEF Asks
    <3> QED BY <2>1, <2>2, <3>1, StillIf
  <2>3. CASE u # t
    BY <1>2, <1>3, <2>1, <2>3, OtherStill
  <2> QED BY <2>2, <2>3
<1>7. CASE owner[m] = NULL
  <2>1. /\ acqPos' = [acqPos EXCEPT ![m] = lockPos[t]] /\ owner' = [owner EXCEPT ![m] = t]
        /\ Enqueue(t, "ACQUIRED", m, lockPos[t], {}) /\ t # NULL
    BY <1>2, <1>7, NullAssumption
  <2>2. PICK e \in Events : /\ eq'[t] = Append(eq[t], e)
                            /\ e.type = "ACQUIRED" /\ e.mtx = m /\ e.pos = lockPos[t]
                            /\ e.cause = {}
    <3>1. Queued(t, "ACQUIRED", m, lockPos[t], {})
      BY <1>2, <1>3, <2>1, Enqueued
    <3> QED BY <3>1 DEF Queued
  <2>3. \A w \in Threads \ {t} : eq'[w] = eq[w]
    BY <1>2, <1>3, <2>1, Enqueued
  <2>4. CASE u = t
    <3>1. Asked(t) = {Wants(e, "GRANT")}
      BY <1>1, <1>2, <1>4, <1>7, <2>1, <2>2 DEF Asked, Asks, Wants
    <3>2. Asked(t)' = {}
      BY <1>5 DEF Asked, Asks
    <3>3. HoldingView(t)[e.mtx] = {}
      BY <1>2, <1>7, <2>1, <2>2 DEF HoldingView, Holding
    <3>4. HoldingView(t)' = [HoldingView(t) EXCEPT ![e.mtx] = {Has(t, e)}]
      <4>1. /\ owner'[m] = t /\ acqPos'[m] = lockPos[t]
            /\ \A n \in Mutexes \ {m} : owner'[n] = owner[n] /\ acqPos'[n] = acqPos[n]
        BY <1>2, <1>3, <2>1
      <4>2. /\ Holding(t, m)' = {Has(t, e)}
            /\ \A n \in Mutexes \ {m} : Holding(t, n)' = Holding(t, n)
        BY <2>2, <4>1 DEF Holding, Has
      <4> QED BY <1>2, <2>2, <4>2 DEF HoldingView
    <3>5. Effect(t, e, HoldingView(t), Asked(t), HoldingView(t)', Asked(t)')
      BY <2>2, <3>1, <3>2, <3>3, <3>4 DEF Effect
    <3>6. Records(t)
      BY <2>2, <3>5, RecordsEvent
    <3> QED BY <2>4, <3>6
  <2>5. CASE u # t
    <3>1. \A n \in Mutexes : \/ owner'[n] = owner[n] /\ acqPos'[n] = acqPos[n]
                             \/ owner[n] # u /\ owner'[n] # u
      BY <1>2, <1>3, <1>7, <2>1, <2>5, NullAssumption
    <3> QED BY <1>2, <1>3, <2>3, <2>5, <3>1, OtherStill
  <2> QED BY <2>4, <2>5
<1> QED BY <1>6, <1>7

LEMMA ReleaseRecords ==
  ASSUME TInv, OwnInv, "events" \in Features, NEW t \in Threads, NEW m \in Mutexes,
         Release(t, m), NEW u \in Threads
  PROVE  Still(u) \/ Records(u)
<1>1. /\ pc[t] = "idle" /\ holder[m] = t
      /\ count' = [count EXCEPT ![m] = @ - 1]
      /\ arg' = [arg EXCEPT ![t] = [mtx |-> m, pos |-> acqPos[m]]]
  BY DEF Release
<1>2. /\ pc \in [Threads -> PCs] /\ arg \in [Threads -> Args] /\ eq \in [Threads -> Seq(Events)]
      /\ owner \in [Mutexes -> Threads \cup {NULL}] /\ acqPos \in [Mutexes -> Positions \cup {NULL}]
      /\ count \in [Mutexes -> Int] /\ "RELEASE" \in EventTypes /\ {} \in SUBSET Causes
  BY DEF TInv, TypeOK, EventTypes
<1>3. owner[m] = t /\ acqPos[m] # NULL
  <2>1. MutexOK(m)
    BY DEF OwnInv
  <2>2. count[m] >= 1
    BY <1>1, <1>2, <2>1 DEF MutexOK, InBetween
  <2> QED BY <1>1, <1>2, <2>1, <2>2 DEF MutexOK
<1>4. \/ pc' = [pc EXCEPT ![t] = "unlocking"] /\ UNCHANGED <<owner, acqPos, eq>>
      \/ /\ pc' = [pc EXCEPT ![t] = "releasing"]
         /\ owner' = [owner EXCEPT ![m] = NULL] /\ acqPos' = [acqPos EXCEPT ![m] = NULL]
         /\ Enqueue(t, "RELEASE", m, acqPos[m], {})
  BY <1>3 DEF Release, Goto
<1>5. ~ Asks(t) /\ ~ Asks(t)'
  BY <1>1, <1>2, <1>4 DEF Asks
<1>6. \A w \in Threads \ {t} : pc'[w] = pc[w] /\ arg'[w] = arg[w]
  BY <1>1, <1>2, <1>4
<1>7. CASE UNCHANGED <<owner, acqPos, eq>>
  <2>1. CASE u = t
    BY <1>5, <1>7, <2>1, StillIf
  <2>2. CASE u # t
    BY <1>6, <1>7, <2>2, OtherStill
  <2> QED BY <2>1, <2>2
<1>8. ASSUME owner' = [owner EXCEPT ![m] = NULL], acqPos' = [acqPos EXCEPT ![m] = NULL],
             Enqueue(t, "RELEASE", m, acqPos[m], {})
      PROVE  Still(u) \/ Records(u)
  <2>1. acqPos[m] \in Positions \cup {NULL} /\ t # NULL
    BY <1>2, NullAssumption
  <2>2. PICK e \in Events : /\ eq'[t] = Append(eq[t], e)
                            /\ e.type = "RELEASE" /\ e.mtx = m /\ e.pos = acqPos[m]
                            /\ e.cause = {}
    <3>1. Queued(t, "RELEASE", m, acqPos[m], {})
      BY <1>2, <1>8, <2>1, Enqueued
    <3> QED BY <3>1 DEF Queued
  <2>3. \A w \in Threads \ {t} : eq'[w] = eq[w]
    BY <1>2, <1>8, <2>1, Enqueued
  <2>4. /\ owner'[m] = NULL
        /\ \A n \in Mutexes \ {m} : owner'[n] = owner[n] /\ acqPos'[n] = acqPos[n]
    BY <1>2, <1>8
  <2>5. CASE u = t
    <3>1. Asked(t) = {} /\ Asked(t)' = {}
      BY <1>5 DEF Asked
    <3>2. PICK x \in Edges : HoldingView(t)[m] = {x}
      <4>1. HoldingView(t)[m] = {[to |-> t, type |-> "HOLD", pos |-> acqPos[m]]}
        BY <1>3 DEF HoldingView, Holding
      <4>2. [to |-> t, type |-> "HOLD", pos |-> acqPos[m]] \in Edges
        BY <2>1 DEF Edges
      <4> QED BY <4>1, <4>2
    <3>3. HoldingView(t)' = [HoldingView(t) EXCEPT ![e.mtx] = {}]
      <4>1. /\ Holding(t, m)' = {}
            /\ \A n \in Mutexes \ {m} : Holding(t, n)' = Holding(t, n)
        BY <2>1, <2>4 DEF Holding
      <4> QED BY <2>2, <4>1 DEF HoldingView
    <3>4. Effect(t, e, HoldingView(t), Asked(t), HoldingView(t)', Asked(t)')
      BY <2>2, <3>1, <3>2, <3>3 DEF Effect
    <3>5. Records(t)
      BY <2>2, <3>4, RecordsEvent
    <3> QED BY <2>5, <3>5
  <2>6. CASE u # t
    <3>1. \A n \in Mutexes : \/ owner'[n] = owner[n] /\ acqPos'[n] = acqPos[n]
                             \/ owner[n] # u /\ owner'[n] # u
      BY <1>3, <2>4, <2>6, NullAssumption
    <3> QED BY <1>6, <2>3, <2>6, <3>1, OtherStill
  <2> QED BY <2>5, <2>6
<1> QED BY <1>4, <1>7, <1>8

(* A program that records its events, and locks and unlocks only: a        *)
(* trylock, a cancel, a lock that fails or a condition wait changes what a *)
(* thread has without an event that says so.                               *)
Plain ==
  "events" \in Features /\ Features \cap {"trylock", "cancel", "fail", "condwait"} = {}

(* It does nothing else, and what a thread yields on can be put in a       *)
(* vector.                                                                 *)
PlainInv ==
  \A t \in Threads : pc[t] \notin {"trying", "cancelling", "condwait"} /\ IsFiniteSet(yieldCause[t])

LEMMA MatchedFinite ==
  ASSUME NEW T \in Seq(Positions), NEW p
  PROVE  IsFiniteSet(MatchedGrants(T, p))
<1>1. Len(T) \in Nat /\ DOMAIN T = 1..Len(T)
  OBVIOUS
<1>2. IsFiniteSet(OtherSlots(T, p))
  <2>1. IsFiniteSet(1..Len(T))
    BY <1>1, FS_Interval
  <2>2. OtherSlots(T, p) \subseteq 1..Len(T)
    BY <1>1 DEF OtherSlots
  <2> QED BY <2>1, <2>2, FS_Subset
<1>3. PICK f : f = [j \in OtherSlots(T, p) |->
        [pos |-> T[j], thread |-> allowed[T[j]][1].thread, mtx |-> allowed[T[j]][1].mtx]]
  OBVIOUS
<1>4. f \in Surjection(OtherSlots(T, p), MatchedGrants(T, p))
  BY <1>3 DEF Surjection, MatchedGrants
<1> QED BY <1>2, <1>4, FS_Surjection

LEMMA PlainInvNext ==
  ASSUME TInv, PlainInv, Plain, [Next]_vars
  PROVE  PlainInv'
<1>1. pc \in [Threads -> PCs] /\ yieldCause \in [Threads -> SUBSET Causes]
  BY DEF TInv, TypeOK
<1>2. /\ \A u \in Threads : pc[u] \notin {"trying", "cancelling", "condwait"}
      /\ \A u \in Threads : IsFiniteSet(yieldCause[u])
  BY DEF PlainInv
<1>3. ASSUME NEW t \in Threads, NEW l \in PCs \ {"trying", "cancelling", "condwait"},
             pc' = [pc EXCEPT ![t] = l], UNCHANGED yieldCause
      PROVE  PlainInv'
  BY <1>1, <1>2, <1>3 DEF PlainInv
<1>4. ASSUME NEW t \in Threads, TemplateInstance(t) PROVE PlainInv'
  <2>1. pc' = [pc EXCEPT ![t] = "decide"]
    BY <1>4 DEF TemplateInstance, Goto
  <2>2. CASE UNCHANGED yieldCause
    BY <1>3, <2>1, <2>2 DEF PCs
  <2>3. CASE \E k \in DOMAIN History :
               yieldCause' = [yieldCause EXCEPT ![t] = MatchedGrants(History[k], arg[t].pos)]
    <3>1. PICK k \in DOMAIN History :
            yieldCause' = [yieldCause EXCEPT ![t] = MatchedGrants(History[k], arg[t].pos)]
      BY <2>3
    <3>2. History[k] \in Seq(Positions)
      BY HistoryAssumption
    <3>3. IsFiniteSet(MatchedGrants(History[k], arg[t].pos))
      BY <3>2, MatchedFinite
    <3>4. \A u \in Threads : IsFiniteSet(yieldCause'[u])
      BY <1>1, <1>2, <3>1, <3>3
    <3>5. \A u \in Threads : pc'[u] \notin {"trying", "cancelling", "condwait"}
      BY <1>1, <1>2, <2>1
    <3> QED BY <3>4, <3>5 DEF PlainInv
  <2> QED BY <1>4, <2>2, <2>3 DEF TemplateInstance, MatchingTemplates
<1>5. ASSUME NEW ts, yieldCause' = Cleared(ts),
             \A u \in Threads : pc'[u] \in {pc[u], "wait", "unlocking"}
      PROVE  PlainInv'
  <2>1. \A u \in Threads : IsFiniteSet(yieldCause'[u])
    BY <1>2, <1>5, FS_EmptySet DEF Cleared
  <2> QED BY <1>2, <1>5, <2>1 DEF PlainInv
<1>6. ASSUME NEW t \in Threads, ReleaseAllowed(t) PROVE PlainInv'
  <2>1. PICK ts : yieldCause' = Cleared(ts) /\ pc' = [Woken(ts) EXCEPT ![t] = "unlocking"]
    BY <1>6 DEF ReleaseAllowed
  <2>2. \A u \in Threads : pc'[u] \in {pc[u], "wait", "unlocking"}
    BY <2>1 DEF Woken
  <2> QED BY <1>5, <2>1, <2>2
<1>7. ASSUME NEW t \in Threads, BreakNotify(t) PROVE PlainInv'
  <2>1. PICK ts : yieldCause' = Cleared(ts) /\ pc' = Woken(ts)
    BY <1>7 DEF BreakNotify
  <2>2. \A u \in Threads : pc'[u] \in {pc[u], "wait", "unlocking"}
    BY <2>1 DEF Woken
  <2> QED BY <1>5, <2>1, <2>2
<1>8. CASE UNCHANGED <<pc, yieldCause>>
  BY <1>8 DEF PlainInv
<1>9. ASSUME NEW t \in Threads, BreakYield(t) PROVE PlainInv'
  BY <1>8, <1>9 DEF BreakYield
<1>10. ASSUME NEW t \in Threads,
              \/ Grant(t) \/ EmitGrant(t) \/ Yield(t) \/ EmitYield(t) \/ Sleep(t) \/ Retry(t)
              \/ SpuriousWakeup(t) \/ RealLock(t) \/ Acquired(t) \/ RealUnlock(t)
       PROVE  PlainInv'
  <2>1. UNCHANGED yieldCause /\ \E l \in PCs \ {"trying", "cancelling", "condwait"} : pc' = [pc EXCEPT ![t] = l]
    BY <1>10 DEF Grant, EmitGrant, Yield, EmitYield, Sleep, Retry, SpuriousWakeup, RealLock,
                 Acquired, RealUnlock, Return, Goto, PCs
  <2> QED BY <1>3, <2>1
<1>11. ASSUME NEW t \in Threads, NEW m \in Mutexes,
              Release(t, m) \/ \E p \in Positions : Acquire(t, m, p)
       PROVE  PlainInv'
  <2>1. UNCHANGED yieldCause /\ \E l \in PCs \ {"trying", "cancelling", "condwait"} : pc' = [pc EXCEPT ![t] = l]
    BY <1>11 DEF Release, Acquire, Goto, PCs
  <2> QED BY <1>3, <2>1
<1>12. ASSUME NEW t \in Threads
       PROVE  /\ ~ RealTryLock(t) /\ ~ RealLockFails(t) /\ ~ CancelAllowed(t) /\ ~ CondWake(t) /\ ~ Cancel(t)
              /\ \A m \in Mutexes : ~ CondWait(t, m) /\ \A p \in Positions : ~ TryAcquire(t, m, p)
  BY <1>2 DEF Plain, RealTryLock, RealLockFails, CancelAllowed, CondWake, Cancel, CondWait, TryAcquire
<1>13. CASE UNCHANGED vars
  BY <1>8, <1>13 DEF vars
<1> QED BY <1>4, <1>6, <1>7, <1>9, <1>10, <1>11, <1>12, <1>13 DEF Next, Step, Operation, Monitor

(* Every step of the program is nothing to thread u, or records an event   *)
(* with its effect.                                                        *)
LEMMA ProgramRecords ==
  ASSUME TInv, OwnInv, PlainInv, Plain, ThreadStep, NEW u \in Threads
  PROVE  Still(u) \/ Records(u)
<1>1. PICK t \in Threads : Step(t) \/ Operation(t) \/ SpuriousWakeup(t)
  BY DEF ThreadStep
<1>2. pc \in [Threads -> PCs] /\ arg \in [Threads -> Args]
  BY DEF TInv, TypeOK
<1>3. CASE \/ TemplateInstance(t) \/ Grant(t) \/ Yield(t) \/ Sleep(t) \/ Retry(t)
           \/ SpuriousWakeup(t) \/ RealLock(t)
  <2>1. /\ UNCHANGED <<arg, owner, acqPos, eq>>
        /\ \E l \in PCs : /\ pc' = [pc EXCEPT ![t] = l]
                          /\ \/ pc[t] \in Asking /\ l \in Asking
                             \/ pc[t] = "locking" /\ l = "acquired"
    BY <1>3 DEF TemplateInstance, Grant, Yield, Sleep, Retry, SpuriousWakeup, RealLock,
                Goto, lockVars, Asking, PCs
  <2>2. \A w \in Threads :
          \/ pc'[w] = pc[w]
          \/ pc[w] \in Asking /\ pc'[w] \in Asking
          \/ pc[w] = "locking" /\ pc'[w] = "acquired"
    BY <1>2, <2>1
  <2> QED BY <2>1, <2>2, MovesStill
<1>4. CASE ReleaseAllowed(t)
  <2>1. /\ UNCHANGED <<arg, owner, acqPos, eq>> /\ pc[t] = "releasing"
        /\ \E ts : pc' = [Woken(ts) EXCEPT ![t] = "unlocking"]
    BY <1>4 DEF ReleaseAllowed, lockVars
  <2>2. \A w \in Threads :
          \/ pc'[w] = pc[w]
          \/ pc[w] \in Asking /\ pc'[w] \in Asking
          \/ pc[w] = "releasing" /\ pc'[w] = "unlocking"
    BY <1>2, <2>1 DEF Woken, Asking
  <2> QED BY <2>1, <2>2, MovesStill
<1>5. CASE RealUnlock(t)
  <2>1. /\ pc[t] = "unlocking" /\ pc' = [pc EXCEPT ![t] = "idle"]
        /\ arg' = [arg EXCEPT ![t] = NoArg] /\ UNCHANGED <<owner, acqPos, eq>>
    BY <1>5 DEF RealUnlock, Return, Goto, lockVars
  <2>2. CASE u = t
    <3>1. ~ Asks(t) /\ ~ Asks(t)'
      BY <1>2, <2>1 DEF Asks
    <3> QED BY <2>1, <2>2, <3>1, StillIf
  <2>3. CASE u # t
    BY <1>2, <2>1, <2>3, OtherStill
  <2> QED BY <2>2, <2>3
<1>6. CASE EmitGrant(t)
  <2>1. /\ pc[t] = "granted" /\ Enqueue(t, "GRANT", arg[t].mtx, arg[t].pos, {})
        /\ UNCHANGED <<arg, owner, acqPos>> /\ pc' = [pc EXCEPT ![t] = "locking"]
    BY <1>6 DEF EmitGrant, Goto, lockVars
  <2>2. {} \in SUBSET Causes /\ IsFiniteSet({})
    BY FS_EmptySet
  <2> QED BY <2>1, <2>2, AskingRecords DEF Plain
<1>7. CASE EmitYield(t)
  <2>1. /\ pc[t] = "yielding" /\ Enqueue(t, "YIELD", arg[t].mtx, arg[t].pos, yieldCause[t])
        /\ UNCHANGED <<arg, owner, acqPos>> /\ pc' = [pc EXCEPT ![t] = "wait"]
    BY <1>7 DEF EmitYield, Goto, lockVars
  <2>2. yieldCause[t] \in SUBSET Causes /\ IsFiniteSet(yieldCause[t])
    BY DEF PlainInv, TInv, TypeOK
  <2> QED BY <2>1, <2>2, AskingRecords DEF Plain
<1>8. CASE Acquired(t)
  BY <1>8, AcquiredRecords DEF Plain
<1>9. ASSUME NEW m \in Mutexes, NEW p \in Positions, Acquire(t, m, p) PROVE Still(u) \/ Records(u)
  BY <1>9, AcquireRecords DEF Plain
<1>10. ASSUME NEW m \in Mutexes, Release(t, m) PROVE Still(u) \/ Records(u)
  BY <1>10, ReleaseRecords DEF Plain
<1>11. pc[t] \notin {"trying", "cancelling", "condwait"}
  BY DEF PlainInv
<1>12. /\ ~ RealTryLock(t) /\ ~ RealLockFails(t) /\ ~ CancelAllowed(t) /\ ~ CondWake(t) /\ ~ Cancel(t)
       /\ \A m \in Mutexes : ~ CondWait(t, m) /\ \A p \in Positions : ~ TryAcquire(t, m, p)
  BY <1>11 DEF Plain, RealTryLock, RealLockFails, CancelAllowed, CondWake, Cancel, CondWait, TryAcquire
<1> QED BY <1>1, <1>3, <1>4, <1>5, <1>6, <1>7, <1>8, <1>9, <1>10, <1>12 DEF Step, Operation

-----------------------------------------------------------------------------
(* The invariant of the monitor *)

Now == [graph |-> rag, req |-> reqThreads, held |-> <<>>]

(* For every thread, its queue makes up the difference between the graph   *)
(* and what the thread has and asks for.                                   *)
TracksAll == \A t \in Threads : Tracks(t, Now, eq[t], HoldingView(t), Asked(t))

RInv ==
  /\ TInv /\ OwnInv /\ PlainInv
  /\ rag \in Graphs /\ reqThreads \in SUBSET Threads /\ behind \in [Threads -> Shortfalls]
  /\ TracksAll

LEMMA ViewType ==
  ASSUME TInv, NEW t \in Threads
  PROVE  HoldingView(t) \in Views /\ Asked(t) \in SUBSET Edges
<1>1. ASSUME NEW m \in Mutexes PROVE Holding(t, m) \in SUBSET Edges
  <2>1. acqPos[m] \in Positions \cup {NULL}
    BY DEF TInv, TypeOK
  <2> QED BY <2>1 DEF Holding, Edges
<1>2. Asked(t) \in SUBSET Edges
  <2>1. Asks(t) => arg[t].mtx \in Mutexes /\ arg[t].pos \in Positions
    BY DEF TInv, ArgOK, Asks
  <2> QED BY <2>1 DEF Asked, Edges
<1> QED BY <1>1, <1>2 DEF HoldingView, Views

(* What a thread has and asks for is a sane view. *)
LEMMA ViewSane ==
  ASSUME TInv, NEW t \in Threads
  PROVE  Sane(HoldingView(t), Asked(t))
<1> SUFFICES ASSUME NEW e \in Asked(t) PROVE HoldingView(t)[e.to] = {}
  BY DEF Sane
<1>1. Asks(t) /\ e.to = arg[t].mtx
  BY DEF Asked
<1>2. arg[t].mtx \in Mutexes /\ owner[arg[t].mtx] # t
  BY <1>1 DEF TInv, ArgOK, Asks
<1> QED BY <1>1, <1>2 DEF HoldingView, Holding

ViewTypeOK == TInv => \A t \in Threads : HoldingView(t) \in Views

LEMMA ViewTypeAlways == ViewTypeOK
BY ViewType DEF ViewTypeOK

LEMMA ViewTypeNext == ViewTypeOK'
BY ViewTypeAlways, PTL

ViewSaneOK ==
  TInv => \A t \in Threads : Asked(t) \in SUBSET Edges /\ Sane(HoldingView(t), Asked(t))

LEMMA ViewSaneAlways == ViewSaneOK
BY ViewType, ViewSane DEF ViewSaneOK

LEMMA ViewSaneNext == ViewSaneOK'
BY ViewSaneAlways, PTL

LEMMA NowState ==
  ASSUME rag \in Graphs, reqThreads \in SUBSET Threads
  PROVE  Now \in States /\ Now.graph = rag /\ Now.req = reqThreads /\ Now.held = <<>>
<1>1. <<>> \in Seq(Events)
  OBVIOUS
<1> QED BY <1>1 DEF Now, States

LEMMA RInvInit == Init /\ ReplayInit => RInv
<1> SUFFICES ASSUME Init, ReplayInit PROVE RInv
  BY DEF RInv
<1>1. TInv /\ OwnInv
  BY TInvInit, OwnInvInit
<1>2. PlainInv
  BY FS_EmptySet DEF Init, PlainInv
<1>3. /\ rag = [edges |-> [v \in Vertices |-> <<>>], valued |-> {}, kafa |-> {}]
      /\ reqThreads = {} /\ behind \in [Threads -> Shortfalls]
  BY DEF ReplayInit, Graph!EmptyGraph, Vertices
<1>4. rag \in Graphs /\ reqThreads \in SUBSET Threads
  <2>1. <<>> \in Seq(Edges)
    OBVIOUS
  <2> QED BY <1>3, <2>1 DEF Graphs
<1>5. ASSUME NEW t \in Threads PROVE Tracks(t, Now, eq[t], HoldingView(t), Asked(t))
  <2>1. HoldingView(t) \in Views /\ Asked(t) \in SUBSET Edges
    BY <1>1, ViewType
  <2>2. Asked(t) = {} /\ \A m \in Mutexes : HoldingView(t)[m] = {}
    BY NullAssumption DEF Init, Asked, Asks, HoldingView, Holding
  <2>3. \A S : Exactly(<<>>, S, {})
    BY DEF Exactly, Elements
  <2>4. \A v \in Vertices : Now.graph.edges[v] = <<>>
    BY <1>3, <1>4, NowState
  <2>5. Shows(Now, t, HoldingView(t), Asked(t))
    <3>1. \A m \in Mutexes : Exactly(Now.graph.edges[m], EdgesTo(t), HoldingView(t)[m])
      BY <2>2, <2>3, <2>4 DEF Vertices
    <3>2. Exactly(Now.graph.edges[t], EdgesToLocks, Asked(t))
      BY <2>2, <2>3, <2>4 DEF Vertices
    <3>3. Elements(Now.graph.edges[t]) = {}
      BY <2>4 DEF Vertices, Elements
    <3>4. t \notin Now.req
      BY <1>3, <1>4, NowState
    <3> QED BY <2>2, <3>1, <3>2, <3>3, <3>4 DEF Shows
  <2>6. eq[t] = <<>>
    BY DEF Init
  <2> QED BY <1>1, <2>1, <2>5, <2>6, ViewSane, TracksNone
<1> QED BY <1>1, <1>2, <1>3, <1>4, <1>5 DEF RInv, TracksAll

(* Steps of the program, and of the monitor outside its queues. *)
LEMMA TracksProgram ==
  ASSUME RInv, TInv', \A t \in Threads : Still(t) \/ Records(t), UNCHANGED <<rag, reqThreads>>
  PROVE  TracksAll'
<1>1. Now' = Now
  BY DEF Now
<1> SUFFICES ASSUME NEW t \in Threads PROVE Tracks(t, Now, eq'[t], HoldingView(t)', Asked(t)')
  BY <1>1 DEF TracksAll
<1>2. Tracks(t, Now, eq[t], HoldingView(t), Asked(t))
  BY DEF RInv, TracksAll
<1>3. CASE Still(t)
  BY <1>2, <1>3 DEF Still
<1>4. CASE Records(t)
  <2>1. PICK e \in Events :
          /\ eq'[t] = Append(eq[t], e)
          /\ Effect(t, e, HoldingView(t), Asked(t), HoldingView(t)', Asked(t)')
    BY <1>4 DEF Records
  <2>2. HoldingView(t) \in Views
    BY ViewType DEF RInv
  <2>3. HoldingView(t)' \in Views
    BY ViewTypeNext DEF ViewTypeOK
  <2>4. eq[t] \in Seq(Events)
    BY DEF RInv, TInv, TypeOK
  <2>5. Tracks(t, Now, Append(eq[t], e), HoldingView(t)', Asked(t)')
    <3>1. Asked(t)' \in SUBSET Edges /\ Sane(HoldingView(t)', Asked(t)')
      BY ViewSaneNext DEF ViewSaneOK, Sane
    <3> QED BY <1>2, <2>1, <2>2, <2>3, <2>4, <3>1, TracksEvent
  <2> QED BY <2>1, <2>5
<1> QED BY <1>3, <1>4

(* A change the views do not tell. *)
LEMMA TracksUnseen ==
  ASSUME NEW t, NEW s, NEW s2, NEW es, NEW h, NEW a, Tracks(t, s, es, h, a),
         \A g, b : Shows(s, t, g, b) => Shows(s2, t, g, b)
  PROVE  Tracks(t, s2, es, h, a)
BY DEF Tracks, TracksBy

(* A pass takes some of the events of a queue, none or all. *)
LEMMA TakenType ==
  ASSUME eq \in [Threads -> Seq(Events)], behind \in [Threads -> Shortfalls], NEW t \in Threads
  PROVE  Taken(t) \in 0..Len(eq[t])
<1>1. behind[t] \in Nat /\ Len(eq[t]) \in Nat
  <2>1. eq[t] \in Seq(Events)
    OBVIOUS
  <2>2. behind[t] \in Shortfalls
    OBVIOUS
  <2>3. behind[t] \in Nat
    BY ONLY <2>2, ShortfallsAssumption
  <2>4. Len(eq[t]) \in Nat
    BY ONLY <2>1
  <2> QED BY <2>3, <2>4
<1> QED BY <1>1 DEF Taken

LEMMA MiscountType ==
  ASSUME behind \in [Threads -> Shortfalls], Miscount
  PROVE  behind' \in [Threads -> Shortfalls]
BY DEF Miscount

(* The queue of a thread is read. *)
LEMMA DrainQueueInv ==
  ASSUME RInv, NEW t \in Threads, DrainQueue(t)
  PROVE  RInv'
<1>1. /\ rag' = Drained(t).graph /\ reqThreads' = Drained(t).req
      /\ eq' = [eq EXCEPT ![t] = SubSeq(eq[t], Taken(t) + 1, Len(eq[t]))]
      /\ UNCHANGED <<pc, arg, lockPos, lockVars, realVars, grantVars, yieldCause, bypass, monVars,
                     behind>>
  BY DEF DrainQueue
<1>2. TInv /\ OwnInv /\ PlainInv
  BY DEF RInv
<1>3. eq \in [Threads -> Seq(Events)]
  BY <1>2 DEF TInv, TypeOK
<1>4. PICK s \in States : s = Now /\ s.held = <<>> /\ s.graph = rag /\ s.req = reqThreads
  BY NowState DEF RInv
<1>5. \A u \in Threads : Tracks(u, s, eq[u], HoldingView(u), Asked(u))
  BY <1>4 DEF RInv, TracksAll
<1>17. PICK n \in 0..Len(eq[t]) : n = Taken(t)
  BY <1>3, TakenType DEF RInv
<1>18. PICK es \in Seq(Events) : es = eq[t] /\ n \in 0..Len(es)
  BY <1>3, <1>17
<1>6. PICK f : f = Flush(Read(s, t, SubSeq(es, 1, n)), t)
  OBVIOUS
<1>7. /\ f \in States /\ f.held = <<>> /\ Keeps(t, s, f)
      /\ Tracks(t, f, SubSeq(es, n + 1, Len(es)), HoldingView(t), Asked(t))
  <2>1. Tracks(t, s, es, HoldingView(t), Asked(t))
    BY <1>5, <1>18
  <2> QED BY <1>4, <1>6, <1>18, <2>1, TracksRead
<1>8. Drained(t) = f
  BY <1>4, <1>6, <1>17, <1>18 DEF Drained, Read, Now
<1>9. rag' \in Graphs /\ reqThreads' \in SUBSET Threads
  BY <1>1, <1>7, <1>8 DEF States
<1>10. Now' = f
  BY <1>1, <1>7, <1>8 DEF Now, States
<1>11. \A u \in Threads : HoldingView(u)' = HoldingView(u) /\ Asked(u)' = Asked(u)
  BY <1>1 DEF HoldingView, Holding, Asked, Asks, lockVars
<1>12. ASSUME NEW u \in Threads PROVE Tracks(u, f, eq'[u], HoldingView(u)', Asked(u)')
  <2>1. CASE u = t
    <3>1. eq'[t] = SubSeq(es, n + 1, Len(es))
      BY <1>1, <1>3, <1>17, <1>18
    <3> QED BY <1>7, <1>11, <2>1, <3>1
  <2>2. CASE u # t
    <3>1. eq'[u] = eq[u]
      BY <1>1, <1>3, <2>2
    <3>2. Tracks(u, f, eq[u], HoldingView(u), Asked(u))
      BY <1>5, <1>7, <2>2, TracksOthers
    <3> QED BY <1>11, <3>1, <3>2
  <2> QED BY <2>1, <2>2
<1>13. TracksAll'
  BY <1>10, <1>12 DEF TracksAll
<1>14. TInv'
  <2>1. eq' \in [Threads -> Seq(Events)]
    <3>1. SubSeq(es, n + 1, Len(es)) \in Seq(Events)
      BY <1>18, SuffixElements
    <3> QED BY <1>1, <1>3, <1>17, <1>18, <3>1
  <2> QED BY <1>1, <1>2, <2>1 DEF TInv, TypeOK, ArgOK, lockVars, realVars, grantVars, monVars
<1>15. OwnInv'
  BY <1>1, <1>2 DEF OwnInv, MutexOK, OpOK, InBetween, lockVars, realVars
<1>16. PlainInv'
  BY <1>1, <1>2 DEF PlainInv
<1>19. behind' \in [Threads -> Shortfalls]
  BY <1>1 DEF RInv
<1> QED BY <1>9, <1>13, <1>14, <1>15, <1>16, <1>19 DEF RInv

(* The search leaves its marks in the graph, and may let a thread through. *)
LEMMA AnyVerdictInv ==
  ASSUME RInv, AnyVerdict
  PROVE  RInv'
<1>1. PICK marks \in SUBSET (Threads \cup Mutexes) : rag' = [rag EXCEPT !.kafa = marks]
  BY DEF AnyVerdict
<1>2. /\ UNCHANGED <<pc, arg, lockPos, lockVars, realVars, grantVars, yieldCause, yielded, eq, reqThreads>>
      /\ \/ UNCHANGED <<bypass, breaking>>
         \/ \E t \in Threads : bypass' = [bypass EXCEPT ![t] = TRUE] /\ breaking' = {t}
  BY DEF AnyVerdict
<1>3. TInv /\ OwnInv /\ PlainInv /\ rag \in Graphs /\ reqThreads \in SUBSET Threads
  BY DEF RInv
<1>4. rag' \in Graphs /\ rag'.edges = rag.edges /\ rag'.valued = rag.valued
  BY <1>1, <1>3 DEF Graphs, Vertices
<1>5. \A t \in Threads : /\ HoldingView(t)' = HoldingView(t) /\ Asked(t)' = Asked(t)
                         /\ eq'[t] = eq[t]
  BY <1>2 DEF HoldingView, Holding, Asked, Asks, lockVars
<1>6. \A t, h, a : Shows(Now, t, h, a) => Shows(Now', t, h, a)
  <2>1. /\ Now.graph = rag /\ Now.req = reqThreads
        /\ Now'.graph = rag' /\ Now'.req = reqThreads
    BY <1>2 DEF Now
  <2> QED BY <1>4, <2>1 DEF Shows
<1>7. TracksAll'
  <2> SUFFICES ASSUME NEW t \in Threads PROVE Tracks(t, Now', eq'[t], HoldingView(t)', Asked(t)')
    BY DEF TracksAll
  <2>1. Tracks(t, Now, eq[t], HoldingView(t), Asked(t))
    BY DEF RInv, TracksAll
  <2>2. Tracks(t, Now', eq[t], HoldingView(t), Asked(t))
    BY <1>6, <2>1, TracksUnseen
  <2> QED BY <1>5, <2>2
<1>8. TInv'
  <2>1. bypass' \in [Threads -> BOOLEAN] /\ breaking' \in SUBSET Threads
    BY <1>2, <1>3 DEF TInv, TypeOK
  <2> QED BY <1>2, <1>3, <2>1 DEF TInv, TypeOK, ArgOK, lockVars, realVars, grantVars
<1>9. OwnInv'
  BY <1>2, <1>3 DEF OwnInv, MutexOK, OpOK, InBetween, lockVars, realVars
<1>10. PlainInv'
  BY <1>2, <1>3 DEF PlainInv
<1>11. reqThreads' \in SUBSET Threads /\ behind' \in [Threads -> Shortfalls]
  BY <1>2, <1>3 DEF AnyVerdict, RInv
<1> QED BY <1>4, <1>7, <1>8, <1>9, <1>10, <1>11 DEF RInv

LEMMA RInvNext ==
  ASSUME Plain, RInv, [ReplayNext]_<<vars, replayVars>>
  PROVE  RInv'
<1>1. /\ TInv /\ OwnInv /\ PlainInv /\ rag \in Graphs /\ reqThreads \in SUBSET Threads
      /\ behind \in [Threads -> Shortfalls]
  BY DEF RInv
<1>2. ASSUME [Next]_vars, UNCHANGED <<rag, reqThreads>>, behind' \in [Threads -> Shortfalls],
             \A t \in Threads : Still(t) \/ Records(t)
      PROVE  RInv'
  <2>1. TInv' /\ OwnInv' /\ PlainInv'
    BY <1>1, <1>2, TInvNext, OwnInvNext, PlainInvNext DEF Plain
  <2>2. TracksAll'
    BY <1>2, <2>1, TracksProgram
  <2> QED BY <1>1, <1>2, <2>1, <2>2 DEF RInv
<1>3. CASE UNCHANGED vars /\ UNCHANGED <<rag, reqThreads, behind>>
  <2>1. \A t \in Threads : Still(t)
    BY <1>3 DEF vars, lockVars, Still, HoldingView, Holding, Asked, Asks
  <2> QED BY <1>1, <1>2, <1>3, <2>1
<1>4. CASE StartPass
  BY <1>3, <1>4 DEF StartPass
<1>5. CASE \E t \in Threads : DrainQueue(t)
  BY <1>5, DrainQueueInv
<1>6. CASE AnyVerdict
  BY <1>6, AnyVerdictInv
<1>7. CASE Notify
  <2>1. PICK t \in Threads : BreakNotify(t)
    BY <1>1, <1>7 DEF Notify, TInv, TypeOK
  <2>2. [Next]_vars /\ UNCHANGED <<rag, reqThreads>> /\ behind' \in [Threads -> Shortfalls]
    BY <1>1, <1>7, <2>1 DEF Next, Monitor, Notify
  <2>3. \A u \in Threads : Still(u)
    <3>1. UNCHANGED <<arg, owner, acqPos, eq>> /\ pc' = Woken({t})
      BY <2>1 DEF BreakNotify, lockVars
    <3>2. \A u \in Threads : pc'[u] = pc[u] \/ (pc[u] \in Asking /\ pc'[u] \in Asking)
      BY <3>1 DEF Woken, Asking
    <3> QED BY <1>1, <3>1, <3>2, MovesStill
  <2> QED BY <1>2, <2>2, <2>3
<1>8. CASE ThreadStep /\ Miscount /\ UNCHANGED <<rag, reqThreads, mpc, cursor>>
  <2>1. [Next]_vars /\ UNCHANGED <<rag, reqThreads>> /\ behind' \in [Threads -> Shortfalls]
    BY <1>1, <1>8, MiscountType DEF ThreadStep, Next
  <2>2. \A u \in Threads : Still(u) \/ Records(u)
    BY <1>1, <1>8, ProgramRecords
  <2> QED BY <1>2, <2>1, <2>2
<1>9. CASE UNCHANGED <<vars, replayVars>>
  BY <1>3, <1>9 DEF replayVars
<1> QED BY <1>4, <1>5, <1>6, <1>7, <1>8, <1>9 DEF ReplayNext, Replays

(* Once the queue of a thread is read, the graph of the monitor has the    *)
(* locks of that thread (process_event and the sequences it drops, in      *)
(* detection.cc), for any number of threads, mutexes and positions, any    *)
(* history and queues of any length, however many of their events a pass   *)
(* takes, whatever the search for cycles finds and whomever it lets        *)
(* through.  Programs that use trylock, cancel or condition waits, or      *)
(* whose real locks fail, are excluded: what these do is not recorded.     *)
THEOREM GraphIsExact ==
  ASSUME "events" \in Features, "trylock" \notin Features, "cancel" \notin Features,
         "fail" \notin Features, "condwait" \notin Features
  PROVE  ReplaySpec => []GraphExact
<1>1. Plain
  BY DEF Plain
<1>2. Init /\ ReplayInit => RInv
  BY RInvInit
<1>3. RInv /\ [ReplayNext]_<<vars, replayVars>> => RInv'
  BY <1>1, RInvNext
<1>4. RInv => GraphExact
  <2> SUFFICES ASSUME RInv, NEW t \in Threads, eq[t] = <<>>
               PROVE  /\ \A m \in Mutexes : Exactly(rag.edges[m], EdgesTo(t), Holding(t, m))
                      /\ Exactly(rag.edges[t], EdgesToLocks, Asked(t))
                      /\ t \in reqThreads <=> Asks(t)
    BY DEF GraphExact
  <2>1. Tracks(t, Now, <<>>, HoldingView(t), Asked(t))
    BY DEF RInv, TracksAll
  <2>2. Now \in States /\ Now.graph = rag /\ Now.req = reqThreads /\ Now.held = <<>>
    BY NowState DEF RInv
  <2>3. Shows(Now, t, HoldingView(t), Asked(t))
    BY <2>1, TracksShown
  <2>4. Asked(t) # {} <=> Asks(t)
    BY DEF Asked
  <2> QED BY <2>2, <2>3, <2>4 DEF Shows, HoldingView
<1> QED BY <1>2, <1>3, <1>4, PTL DEF ReplaySpec

=============================================================================
