--------------------------- MODULE DalvikRagProofs ---------------------------
(***************************************************************************)
(* The search for cycles of the Dalvik port, in any graph of finitely many *)
(* threads and monitors: it ends, its labels are positions of the graph,   *)
(* those of one template belong to different threads, and it never misses  *)
(* a cycle of two threads.                                                 *)
(***************************************************************************)
EXTENDS DalvikRag, SequenceTheorems, FiniteSetTheorems, NaturalsInduction, TLAPS

(* What has no least number does not happen. *)
LEMMA LeastNat ==
  ASSUME NEW S \in SUBSET Nat, S # {}
  PROVE  \E m \in S : \A k \in S : m <= k
<1>1. PICK R : R = OpToRel(<, Nat)
  OBVIOUS
<1>2. PICK m \in S : \A k \in S : ~ (<<k, m>> \in R)
  BY <1>1, NatLessThanWellFounded, WFMin
<1>3. R = {x \in Nat \X Nat : x[1] < x[2]}
  BY <1>1, Zenon DEF OpToRel
<1>4. \A k \in S : ~ (k < m)
  BY <1>2, <1>3
<1> QED BY <1>4

(* What holds at 0, and at i when it holds at i - 1, holds up to k. *)
LEMMA StepByStep ==
  ASSUME NEW S, NEW k \in Nat, 0 \in S, \A i \in 1..k : i - 1 \in S => i \in S
  PROVE  \A i \in 0..k : i \in S
<1> SUFFICES ASSUME NEW j \in 0..k, j \notin S PROVE FALSE
  OBVIOUS
<1> DEFINE Out == {i \in 0..k : i \notin S}
<1>1. Out \in SUBSET Nat /\ j \in Out
  OBVIOUS
<1>2. PICK m \in Out : \A i \in Out : m <= i
  BY <1>1, LeastNat
<1>3. m # 0 /\ m \in 1..k /\ m - 1 \in 0..k /\ m - 1 \in S
  BY <1>2
<1> QED BY <1>2, <1>3

LEMMA NodeFacts ==
  /\ Threads \subseteq Nodes /\ Monitors \subseteq Nodes /\ NULL \notin Nodes
  /\ \A t \in Threads, m \in Monitors : t # m
  /\ NULL \notin Positions
  /\ IsFiniteSet(Nodes)
BY NullAssumption, NodesAssumption, FS_Union DEF Nodes

-----------------------------------------------------------------------------
(* The steps of the search *)

White(s) == {n \in Nodes : s.colour[n] = 0}

(* r is what a call may make of s: it leaves the stack as it was, and no   *)
(* node becomes new again.                                                 *)
From(r, s) == r \in Searches /\ r.stack = s.stack /\ White(r) \subseteq White(s)

LEMMA FromTransitive ==
  ASSUME NEW r, NEW q, NEW s, From(r, q), From(q, s)
  PROVE  From(r, s)
BY DEF From

Entry(n, l) == [node |-> n, label |-> l]

LEMMA PushFacts ==
  ASSUME NEW s \in Searches, NEW n \in Nodes, NEW l \in Labels
  PROVE  LET p == Push(s, n, l) IN
         /\ p \in Searches
         /\ p.colour = s.colour /\ p.cycle = s.cycle /\ p.join = s.join
         /\ p.stack = Append(s.stack, Entry(n, l))
         /\ SubSeq(p.stack, 1, Len(p.stack) - 1) = s.stack
<1> DEFINE e == Entry(n, l)
           p == Push(s, n, l)
<1>1. e \in Entries
  BY DEF Entries, Entry
<1>2. s.stack \in Seq(Entries) /\ Append(s.stack, e) \in Seq(Entries)
  BY <1>1 DEF Searches
<1>3. p = [s EXCEPT !.stack = Append(@, e)]
  BY DEF Push, Entry
<1> HIDE DEF e, p
<1>4. /\ p \in Searches
      /\ p.colour = s.colour /\ p.cycle = s.cycle /\ p.join = s.join
      /\ p.stack = Append(s.stack, e)
  BY <1>2, <1>3 DEF Searches
<1>5. SubSeq(Append(s.stack, e), 1, Len(Append(s.stack, e)) - 1) = s.stack
  <2> DEFINE st == s.stack
             a == Append(st, e)
  <2> HIDE DEF st
  <2>1. st \in Seq(Entries) /\ Len(st) \in Nat /\ a \in Seq(Entries) /\ Len(a) = Len(st) + 1
        /\ \A i \in 1..Len(st) : a[i] = st[i]
    BY <1>1, <1>2 DEF st
  <2> HIDE DEF a
  <2>2. \A i \in 1..Len(st) : a[i] \in Entries
    BY <2>1
  <2>3. /\ SubSeq(a, 1, Len(st)) \in Seq(Entries)
        /\ Len(SubSeq(a, 1, Len(st))) = IF 1 <= Len(st) THEN Len(st) - 1 + 1 ELSE 0
        /\ \A i \in 1..(Len(st) - 1 + 1) : SubSeq(a, 1, Len(st))[i] = a[1 + i - 1]
    BY <2>1, <2>2, SubSeqProperties
  <2>4. Len(SubSeq(a, 1, Len(st))) = Len(st)
    BY <2>1, <2>3
  <2>5. \A i \in 1..Len(st) : SubSeq(a, 1, Len(st))[i] = st[i]
    <3> TAKE i \in 1..Len(st)
    <3>1. i \in 1..(Len(st) - 1 + 1) /\ 1 + i - 1 = i
      BY <2>1
    <3> QED BY <2>1, <2>3, <3>1
  <2>6. SubSeq(a, 1, Len(st)) = st
    BY <2>1, <2>3, <2>4, <2>5, SeqEqual
  <2> QED BY <2>1, <2>6 DEF st, a
<1> QED BY <1>4, <1>5 DEF p, e

LEMMA PopFacts ==
  ASSUME NEW q \in Searches, NEW st \in Seq(Entries), SubSeq(q.stack, 1, Len(q.stack) - 1) = st
  PROVE  /\ Pop(q) \in Searches
         /\ Pop(q).colour = q.colour /\ Pop(q).cycle = q.cycle /\ Pop(q).found = q.found
         /\ Pop(q).stack = st
         /\ Pop(q).join = IF q.found THEN q.join ELSE NULL
BY DEF Pop, Searches

LEMMA ColourFacts ==
  ASSUME NEW s \in Searches, NEW n \in Nodes, NEW c \in {1, 2}
  PROVE  /\ Colour(s, n, c) \in Searches
         /\ Colour(s, n, c).stack = s.stack /\ Colour(s, n, c).cycle = s.cycle
         /\ Colour(s, n, c).join = s.join /\ Colour(s, n, c).found = s.found
         /\ Colour(s, n, c).colour = [s.colour EXCEPT ![n] = c]
         /\ White(Colour(s, n, c)) = White(s) \ {n}
<1>1. c \in 0..2 /\ c # 0 /\ s.colour \in [Nodes -> 0..2]
  BY DEF Searches
<1>2. [s.colour EXCEPT ![n] = c] \in [Nodes -> 0..2]
  BY <1>1
<1>3. /\ Colour(s, n, c) \in Searches
      /\ Colour(s, n, c).stack = s.stack /\ Colour(s, n, c).cycle = s.cycle
      /\ Colour(s, n, c).join = s.join /\ Colour(s, n, c).found = s.found
      /\ Colour(s, n, c).colour = [s.colour EXCEPT ![n] = c]
  BY <1>2 DEF Colour, Searches
<1> QED BY <1>1, <1>3 DEF White

LEMMA SetFound ==
  ASSUME NEW s \in Searches, NEW b \in BOOLEAN
  PROVE  LET r == [s EXCEPT !.found = b] IN
         /\ r \in Searches /\ r.found = b
         /\ r.colour = s.colour /\ r.stack = s.stack /\ r.cycle = s.cycle /\ r.join = s.join
         /\ White(r) = White(s)
<1>1. LET r == [s EXCEPT !.found = b] IN
         /\ r \in Searches /\ r.found = b
         /\ r.colour = s.colour /\ r.stack = s.stack /\ r.cycle = s.cycle /\ r.join = s.join
  BY DEF Searches
<1> QED BY <1>1 DEF White

LEMMA HitFacts ==
  ASSUME NEW s \in Searches, NEW n \in Nodes
  PROVE  /\ Hit(s, n) \in Searches /\ Hit(s, n).found
         /\ Hit(s, n).colour = s.colour /\ Hit(s, n).stack = s.stack
         /\ s.join = NULL => Hit(s, n).join = n /\ Hit(s, n).cycle = s.stack
         /\ s.join # NULL => Hit(s, n).join = s.join /\ Hit(s, n).cycle = s.cycle
BY DEF Hit, Searches

(* What is done with one edge, before the stack is taken back. *)
Beyond(Visits, p, to) ==
  CASE p.colour[to] = 1 -> Hit(p, to)
    [] p.colour[to] = 0 -> Visits[<<to, p>>]
    [] p.colour[to] = 2 -> [p EXCEPT !.found = FALSE]

LEMMA FollowIs ==
  ASSUME NEW Visits, NEW s \in Searches, NEW n \in Nodes, NEW to \in Nodes, NEW l \in Labels
  PROVE  LET p == Push(s, n, l) IN
         /\ Follow(Visits, s, n, to, l) = Pop(Beyond(Visits, p, to))
         /\ s.colour[to] = 0 => Beyond(Visits, p, to) = Visits[<<to, p>>]
         /\ s.colour[to] = 1 => Beyond(Visits, p, to) = Hit(p, to)
         /\ s.colour[to] = 2 => Beyond(Visits, p, to) = [p EXCEPT !.found = FALSE]
         /\ s.colour[to] \in 0..2
<1>1. Push(s, n, l).colour = s.colour
  BY PushFacts
<1>2. s.colour[to] \in 0..2
  BY DEF Searches
<1> QED BY <1>1, <1>2 DEF Follow, Beyond

LEMMA FollowFrom ==
  ASSUME NEW Visits, NEW s \in Searches, NEW n \in Nodes, NEW to \in Nodes, NEW l \in Labels,
         s.colour[to] = 0 => From(Visits[<<to, Push(s, n, l)>>], Push(s, n, l))
  PROVE  From(Follow(Visits, s, n, to, l), s)
<1> DEFINE p == Push(s, n, l)
           b == Beyond(Visits, p, to)
<1>1. /\ p \in Searches /\ p.colour = s.colour
      /\ SubSeq(p.stack, 1, Len(p.stack) - 1) = s.stack
  BY PushFacts
<1>2. s.stack \in Seq(Entries) /\ White(p) = White(s)
  BY <1>1 DEF Searches, White
<1>0. /\ Follow(Visits, s, n, to, l) = Pop(b)
      /\ s.colour[to] = 0 => b = Visits[<<to, p>>]
      /\ s.colour[to] = 1 => b = Hit(p, to)
      /\ s.colour[to] = 2 => b = [p EXCEPT !.found = FALSE]
      /\ s.colour[to] \in 0..2
  BY FollowIs
<1>7. s.colour[to] = 0 => From(Visits[<<to, p>>], p)
  OBVIOUS
<1> HIDE DEF p, b
<1>3. From(b, p)
  <2>1. CASE s.colour[to] = 0
    BY <1>0, <1>7, <2>1
  <2>2. CASE s.colour[to] = 1
    <3>1. b = Hit(p, to)
      BY <1>0, <2>2
    <3> QED BY <1>1, <3>1, HitFacts DEF From, White
  <2>3. CASE s.colour[to] = 2
    <3>1. b = [p EXCEPT !.found = FALSE]
      BY <1>0, <2>3
    <3> QED BY <1>1, <3>1, SetFound DEF From
  <2> QED BY <1>0, <2>1, <2>2, <2>3
<1>4. Follow(Visits, s, n, to, l) = Pop(b)
  BY <1>0
<1>5. b \in Searches /\ SubSeq(b.stack, 1, Len(b.stack) - 1) = s.stack /\ White(b) \subseteq White(s)
  BY <1>1, <1>2, <1>3 DEF From
<1>6. Pop(b) \in Searches /\ Pop(b).stack = s.stack /\ Pop(b).colour = b.colour
  BY <1>2, <1>5, PopFacts
<1> QED BY <1>4, <1>5, <1>6 DEF From, White

-----------------------------------------------------------------------------
(* The loop over the yields edges *)

Graphs == [next : [Nodes -> Nodes \cup {NULL}], acqPos : [Monitors -> Labels],
           yields : [Threads -> Seq(Edges)]]

EdgesOf(G, n) == IF n \in Threads THEN G.yields[n] ELSE <<>>

Start(G, s, n) == [s EXCEPT !.found = (EdgesOf(G, n) # <<>>)]
Turn(Visits, q, n, e) == IF q.found THEN Follow(Visits, q, n, e.thread, e.pos) ELSE q

HasTurns(Visits, es, q, n, k) ==
  \E run : run = [i \in 0..k |-> IF i = 0 THEN q ELSE Turn(Visits, run[i - 1], n, es[i])]

LEMMA TurnsExist ==
  ASSUME NEW Visits, NEW q, NEW n, NEW es, NEW k \in Nat
  PROVE  HasTurns(Visits, es, q, n, k)
<1> DEFINE Defined(j) == HasTurns(Visits, es, q, n, j)
<1> SUFFICES ASSUME ~ Defined(k) PROVE FALSE
  OBVIOUS
<1>1. PICK m \in Nat : ~ Defined(m) /\ \A j \in Nat : ~ Defined(j) => m <= j
  <2>1. {j \in Nat : ~ Defined(j)} \in SUBSET Nat /\ k \in {j \in Nat : ~ Defined(j)}
    OBVIOUS
  <2> HIDE DEF Defined
  <2> QED BY <2>1, LeastNat
<1>2. m # 0
  <2> SUFFICES ASSUME m = 0 PROVE Defined(0)
    BY <1>1
  <2>1. PICK r : r = [i \in 0..0 |-> q]
    OBVIOUS
  <2>2. r = [i \in 0..0 |-> IF i = 0 THEN q ELSE Turn(Visits, r[i - 1], n, es[i])]
    BY <2>1
  <2> QED BY <2>2 DEF HasTurns
<1>3. m - 1 \in Nat /\ ~ (m <= m - 1)
  BY <1>2
<1>4. Defined(m - 1)
  <2> HIDE DEF Defined
  <2> QED BY <1>1, <1>3
<1>5. PICK r : r = [i \in 0..(m - 1) |-> IF i = 0 THEN q ELSE Turn(Visits, r[i - 1], n, es[i])]
  BY <1>4 DEF HasTurns
<1>6. PICK u : u = [i \in 0..m |-> IF i < m THEN r[i] ELSE Turn(Visits, r[i - 1], n, es[i])]
  OBVIOUS
<1>7. u = [i \in 0..m |-> IF i = 0 THEN q ELSE Turn(Visits, u[i - 1], n, es[i])]
  <2>1. \A i \in 0..m : i # 0 => u[i - 1] = r[i - 1]
    BY <1>6
  <2>2. ASSUME NEW i \in 0..m
        PROVE  u[i] = IF i = 0 THEN q ELSE Turn(Visits, u[i - 1], n, es[i])
    <3>1. CASE i = m
      BY <1>2, <1>6, <2>1, <3>1
    <3>2. CASE i # m
      <4>1. i \in 0..(m - 1) /\ i < m
        BY <3>2
      <4>2. r[i] = IF i = 0 THEN q ELSE Turn(Visits, r[i - 1], n, es[i])
        BY <1>5, <4>1
      <4>3. u[i] = r[i]
        BY <1>6, <4>1
      <4> QED BY <2>1, <4>2, <4>3
    <3> QED BY <3>1, <3>2
  <2> QED BY <1>6, <2>2
<1>8. Defined(m)
  BY <1>7 DEF HasTurns
<1> QED BY <1>1, <1>8

(* The states between the edges of n. *)
RunOf(Visits, G, s, n, run) ==
  /\ run[0] = Start(G, s, n)
  /\ \A i \in 1..Len(EdgesOf(G, n)) : run[i] = Turn(Visits, run[i - 1], n, EdgesOf(G, n)[i])

Ended(q, n) == IF q.found THEN q ELSE Colour(q, n, 2)

LEMMA YieldsRun ==
  ASSUME NEW Visits, NEW G \in Graphs, NEW s, NEW n
  PROVE  \E run : /\ RunOf(Visits, G, s, n, run)
                  /\ FollowYields(Visits, G, s, n) = Ended(run[Len(EdgesOf(G, n))], n)
<1> DEFINE es == EdgesOf(G, n)
<1>1. es \in Seq(Edges) /\ Len(es) \in Nat
  BY DEF EdgesOf, Graphs
<1>2. \E run : run = [i \in 0..Len(es) |->
        IF i = 0 THEN [s EXCEPT !.found = (es # <<>>)]
        ELSE IF run[i - 1].found
        THEN Follow(Visits, run[i - 1], n, es[i].thread, es[i].pos)
        ELSE run[i - 1]]
  <2>1. HasTurns(Visits, es, Start(G, s, n), n, Len(es))
    BY <1>1, TurnsExist
  <2> QED BY <2>1 DEF HasTurns, Turn, Start
<1>3. PICK run :
        /\ run = [i \in 0..Len(es) |->
             IF i = 0 THEN [s EXCEPT !.found = (es # <<>>)]
             ELSE IF run[i - 1].found
             THEN Follow(Visits, run[i - 1], n, es[i].thread, es[i].pos)
             ELSE run[i - 1]]
        /\ FollowYields(Visits, G, s, n)
             = IF run[Len(es)].found THEN run[Len(es)] ELSE Colour(run[Len(es)], n, 2)
  BY <1>2 DEF FollowYields, EdgesOf
<1>4. run = [i \in 0..Len(es) |->
        IF i = 0 THEN Start(G, s, n) ELSE Turn(Visits, run[i - 1], n, es[i])]
  BY <1>3 DEF Turn, Start
<1>5. \A i \in 0..Len(es) :
        run[i] = IF i = 0 THEN Start(G, s, n) ELSE Turn(Visits, run[i - 1], n, es[i])
  BY ONLY <1>4
<1>6. run[0] = Start(G, s, n) /\ \A i \in 1..Len(es) : run[i] = Turn(Visits, run[i - 1], n, es[i])
  BY ONLY <1>1, <1>5
<1>7. RunOf(Visits, G, s, n, run)
  BY <1>6 DEF RunOf
<1> QED BY <1>3, <1>7 DEF Ended

-----------------------------------------------------------------------------
(* The search ends: whoever is visited was new, and never is again. *)

Rank(n, s) == Cardinality(White(s) \ {n})

LEMMA RankType ==
  ASSUME NEW s, NEW n
  PROVE  IsFiniteSet(White(s) \ {n}) /\ Rank(n, s) \in Nat
<1>1. White(s) \ {n} \in SUBSET Nodes
  BY DEF White
<1> QED BY <1>1, NodeFacts, FS_Subset, FS_CardinalityType DEF Rank

(* What n's visit visits has a lower rank. *)
LEMMA RankFalls ==
  ASSUME NEW s \in Searches, NEW r \in Searches, NEW n \in Nodes, NEW to \in Nodes, NEW l \in Labels,
         White(r) \subseteq White(s) \ {n}, r.colour[to] = 0
  PROVE  Push(r, n, l) \in Searches /\ Rank(to, Push(r, n, l)) < Rank(n, s)
<1> DEFINE p == Push(r, n, l)
<1>1. p \in Searches /\ p.colour = r.colour
  BY PushFacts
<1> HIDE DEF p
<1>2. White(p) = White(r) /\ to \in White(r)
  BY <1>1 DEF White
<1>3. White(p) \ {to} \in SUBSET (White(s) \ {n}) /\ White(p) \ {to} # White(s) \ {n}
  BY <1>2
<1>4. /\ IsFiniteSet(White(s) \ {n}) /\ Rank(n, s) \in Nat /\ Rank(to, p) \in Nat
  BY RankType
<1>5. Rank(to, p) <= Rank(n, s) /\ (Rank(n, s) = Rank(to, p) => White(s) \ {n} = White(p) \ {to})
  BY <1>3, <1>4, FS_Subset DEF Rank
<1>6. Rank(to, p) < Rank(n, s)
  BY <1>3, <1>4, <1>5
<1> QED BY <1>1, <1>6 DEF p

(* Below rank k, Visits does no harm; and does the same as Others.         *)
Sound(Visits, k) ==
  \A n \in Nodes, s \in Searches : Rank(n, s) < k => From(Visits[<<n, s>>], s)
Agree(Visits, Others, k) ==
  \A n \in Nodes, s \in Searches : Rank(n, s) < k => Visits[<<n, s>>] = Others[<<n, s>>]

LEMMA FollowKeeps ==
  ASSUME NEW s \in Searches, NEW r \in Searches, NEW n \in Nodes, NEW to \in Nodes, NEW l \in Labels,
         White(r) \subseteq White(s) \ {n}, NEW Visits, Sound(Visits, Rank(n, s))
  PROVE  /\ From(Follow(Visits, r, n, to, l), r)
         /\ White(Follow(Visits, r, n, to, l)) \subseteq White(s) \ {n}
<1> DEFINE p == Push(r, n, l)
           f == Follow(Visits, r, n, to, l)
<1>1. r.colour[to] = 0 => p \in Searches /\ Rank(to, p) < Rank(n, s)
  BY RankFalls
<1>2. r.colour[to] = 0 => From(Visits[<<to, p>>], p)
  BY <1>1 DEF Sound
<1>3. From(f, r)
  BY <1>2, FollowFrom
<1> HIDE DEF f
<1>4. White(f) \subseteq White(s) \ {n}
  BY <1>3 DEF From
<1> QED BY <1>3, <1>4 DEF f

LEMMA FollowAgrees ==
  ASSUME NEW s \in Searches, NEW r \in Searches, NEW n \in Nodes, NEW to \in Nodes, NEW l \in Labels,
         White(r) \subseteq White(s) \ {n}, NEW Visits, NEW Others, Agree(Visits, Others, Rank(n, s))
  PROVE  Follow(Visits, r, n, to, l) = Follow(Others, r, n, to, l)
<1> DEFINE p == Push(r, n, l)
<1>1. r.colour[to] = 0 => p \in Searches /\ Rank(to, p) < Rank(n, s)
  BY RankFalls
<1>2. r.colour[to] = 0 => Visits[<<to, p>>] = Others[<<to, p>>]
  BY <1>1 DEF Agree
<1>3. /\ Follow(Visits, r, n, to, l) = Pop(Beyond(Visits, p, to))
      /\ r.colour[to] = 0 => Beyond(Visits, p, to) = Visits[<<to, p>>]
      /\ r.colour[to] = 1 => Beyond(Visits, p, to) = Hit(p, to)
      /\ r.colour[to] = 2 => Beyond(Visits, p, to) = [p EXCEPT !.found = FALSE]
  BY FollowIs
<1>4. /\ Follow(Others, r, n, to, l) = Pop(Beyond(Others, p, to))
      /\ r.colour[to] = 0 => Beyond(Others, p, to) = Others[<<to, p>>]
      /\ r.colour[to] = 1 => Beyond(Others, p, to) = Hit(p, to)
      /\ r.colour[to] = 2 => Beyond(Others, p, to) = [p EXCEPT !.found = FALSE]
      /\ r.colour[to] \in 0..2
  BY FollowIs
<1> HIDE DEF p
<1>5. Beyond(Visits, p, to) = Beyond(Others, p, to)
  <2>1. CASE r.colour[to] = 0
    BY <1>2, <1>3, <1>4, <2>1
  <2>2. CASE r.colour[to] = 1
    BY <1>3, <1>4, <2>2
  <2>3. CASE r.colour[to] = 2
    BY <1>3, <1>4, <2>3
  <2> QED BY <1>4, <2>1, <2>2, <2>3
<1> QED BY <1>3, <1>4, <1>5

(* What the search makes of a node's edges, before and after Colour. *)
LEMMA RunKeeps ==
  ASSUME NEW G \in Graphs, NEW s \in Searches, NEW q \in Searches, NEW n \in Nodes,
         White(q) \subseteq White(s) \ {n}, NEW Visits, Sound(Visits, Rank(n, s)),
         NEW run, RunOf(Visits, G, q, n, run)
  PROVE  \A i \in 0..Len(EdgesOf(G, n)) :
           From(run[i], q) /\ White(run[i]) \subseteq White(s) \ {n}
<1> DEFINE es == EdgesOf(G, n)
           S == {i \in 0..Len(es) : From(run[i], q) /\ White(run[i]) \subseteq White(s) \ {n}}
<1>1. es \in Seq(Edges) /\ Len(es) \in Nat
  BY DEF EdgesOf, Graphs
<1>2. From(Start(G, q, n), q) /\ White(Start(G, q, n)) \subseteq White(s) \ {n}
  BY SetFound DEF Start, From
<1>3. 0 \in S
  BY <1>1, <1>2 DEF RunOf
<1>4. ASSUME NEW i \in 1..Len(es), i - 1 \in S PROVE i \in S
  <2> DEFINE r == run[i - 1]
             f == Follow(Visits, r, n, es[i].thread, es[i].pos)
  <2>1. From(r, q) /\ White(r) \subseteq White(s) \ {n} /\ r \in Searches
    BY <1>4 DEF From
  <2>2. run[i] = Turn(Visits, r, n, es[i])
    BY DEF RunOf
  <2>3. es[i].thread \in Nodes /\ es[i].pos \in Labels
    <3>1. es[i] \in Edges
      <4> HIDE DEF es
      <4> QED BY <1>1
    <3> QED BY <3>1 DEF Edges, Nodes, Labels
  <2>4. From(f, r) /\ White(f) \subseteq White(s) \ {n}
    <3> HIDE DEF r, es
    <3> QED BY <2>1, <2>3, FollowKeeps
  <2>5. From(f, q)
    <3> HIDE DEF f, r
    <3> QED BY <2>1, <2>4, FromTransitive
  <2>6. run[i] = IF r.found THEN f ELSE r
    BY <2>2 DEF Turn
  <2> HIDE DEF f, r, es
  <2>7. From(run[i], q) /\ White(run[i]) \subseteq White(s) \ {n}
    BY <2>1, <2>4, <2>5, <2>6
  <2>8. i \in 0..Len(es)
    BY <1>1
  <2> QED BY <2>7, <2>8
<1> HIDE DEF es
<1>5. \A i \in 0..Len(es) : i \in S
  <2> HIDE DEF S
  <2> QED BY <1>1, <1>3, <1>4, StepByStep
<1> QED BY <1>5 DEF es

LEMMA NextOfFacts ==
  ASSUME NEW G \in Graphs, NEW n \in Nodes, G.next[n] # NULL
  PROVE  /\ G.next[n] \in Nodes
         /\ (IF n \in Monitors THEN G.acqPos[n] ELSE NULL) \in Labels
BY DEF Graphs, Labels

(* A visit of s keeps what it should if those it makes do. *)
LEMMA VisitKeeps ==
  ASSUME NEW G \in Graphs, NEW s \in Searches, NEW n \in Nodes,
         NEW Visits, Sound(Visits, Rank(n, s))
  PROVE  From(Visit(Visits, G, n, s), s)
<1>1. CASE G.next[n] = NULL
  <2>1. Visit(Visits, G, n, s) = [Colour(s, n, 2) EXCEPT !.found = FALSE]
    BY <1>1 DEF Visit
  <2>2. Colour(s, n, 2) \in Searches /\ Colour(s, n, 2).stack = s.stack
        /\ White(Colour(s, n, 2)) \subseteq White(s)
    BY ColourFacts
  <2>3. PICK d : d = Colour(s, n, 2)
    OBVIOUS
  <2>4. From([d EXCEPT !.found = FALSE], s)
    BY <2>2, <2>3, SetFound DEF From
  <2> QED BY <2>1, <2>3, <2>4
<1>2. CASE G.next[n] # NULL
  <2> DEFINE g == Colour(s, n, 1)
             r == FollowNext(Visits, G, g, n)
  <2>1. g \in Searches /\ g.stack = s.stack /\ White(g) \subseteq White(s) \ {n}
    BY ColourFacts
  <2>2. From(g, s)
    BY <2>1 DEF From
  <2>3. From(r, g) /\ White(r) \subseteq White(s) \ {n}
    <3> HIDE DEF g
    <3> QED BY <1>2, <2>1, NextOfFacts, FollowKeeps DEF FollowNext
  <2>4. Visit(Visits, G, n, s) = IF r.found THEN r ELSE FollowYields(Visits, G, r, n)
    BY <1>2 DEF Visit
  <2> HIDE DEF g, r
  <2>5. From(r, s) /\ r \in Searches
    BY <2>2, <2>3, FromTransitive DEF From
  <2>6. From(FollowYields(Visits, G, r, n), r)
    <3>1. PICK run : /\ RunOf(Visits, G, r, n, run)
                     /\ FollowYields(Visits, G, r, n) = Ended(run[Len(EdgesOf(G, n))], n)
      BY YieldsRun
    <3>2. PICK q : q = run[Len(EdgesOf(G, n))]
      OBVIOUS
    <3>3. Len(EdgesOf(G, n)) \in 0..Len(EdgesOf(G, n))
      BY DEF EdgesOf, Graphs
    <3>4. From(q, r)
      BY <2>3, <2>5, <3>1, <3>2, <3>3, RunKeeps
    <3>5. q \in Searches
      BY <3>4 DEF From
    <3>6. From(Colour(q, n, 2), q)
      BY <3>5, ColourFacts DEF From
    <3>7. From(Colour(q, n, 2), r)
      BY <3>4, <3>6, FromTransitive
    <3> QED BY <3>1, <3>2, <3>4, <3>7 DEF Ended
  <2>7. From(FollowYields(Visits, G, r, n), s)
    BY <2>5, <2>6, FromTransitive
  <2> QED BY <2>4, <2>5, <2>7
<1> QED BY <1>1, <1>2

LEMMA RunAgrees ==
  ASSUME NEW G \in Graphs, NEW s \in Searches, NEW q \in Searches, NEW n \in Nodes,
         White(q) \subseteq White(s) \ {n},
         NEW Visits, Sound(Visits, Rank(n, s)), NEW Others, Agree(Visits, Others, Rank(n, s)),
         NEW run, RunOf(Visits, G, q, n, run), NEW way, RunOf(Others, G, q, n, way)
  PROVE  \A i \in 0..Len(EdgesOf(G, n)) : run[i] = way[i]
<1> DEFINE es == EdgesOf(G, n)
           S == {i \in 0..Len(es) : run[i] = way[i]}
<1>1. es \in Seq(Edges) /\ Len(es) \in Nat
  BY DEF EdgesOf, Graphs
<1>2. 0 \in S
  BY <1>1 DEF RunOf
<1>3. ASSUME NEW i \in 1..Len(es), i - 1 \in S PROVE i \in S
  <2>1. i - 1 \in 0..Len(es) /\ i \in 0..Len(es)
    BY <1>1
  <2>2. PICK r : r = run[i - 1]
    OBVIOUS
  <2>3. From(r, q) /\ White(r) \subseteq White(s) \ {n}
    BY <2>1, <2>2, RunKeeps
  <2>4. r \in Searches /\ r = way[i - 1]
    BY <1>3, <2>2, <2>3 DEF From
  <2>5. run[i] = Turn(Visits, r, n, es[i]) /\ way[i] = Turn(Others, r, n, es[i])
    BY <2>2, <2>4 DEF RunOf
  <2>6. es[i] \in Edges
    <3> HIDE DEF es
    <3> QED BY <1>1
  <2> HIDE DEF es
  <2>7. es[i].thread \in Nodes /\ es[i].pos \in Labels
    BY <2>6 DEF Edges, Nodes, Labels
  <2>8. Follow(Visits, r, n, es[i].thread, es[i].pos) = Follow(Others, r, n, es[i].thread, es[i].pos)
    BY <2>3, <2>4, <2>7, FollowAgrees
  <2>9. run[i] = way[i]
    BY <2>5, <2>8 DEF Turn
  <2> QED BY <2>1, <2>9
<1> HIDE DEF es
<1>4. \A i \in 0..Len(es) : i \in S
  <2> HIDE DEF S
  <2> QED BY <1>1, <1>2, <1>3, StepByStep
<1> QED BY <1>4 DEF es

(* A visit is made of the visits of a lower rank only. *)
LEMMA VisitAgrees ==
  ASSUME NEW G \in Graphs, NEW s \in Searches, NEW n \in Nodes,
         NEW Visits, Sound(Visits, Rank(n, s)), NEW Others, Agree(Visits, Others, Rank(n, s))
  PROVE  Visit(Visits, G, n, s) = Visit(Others, G, n, s)
<1>1. CASE G.next[n] = NULL
  BY <1>1 DEF Visit
<1>2. CASE G.next[n] # NULL
  <2> DEFINE g == Colour(s, n, 1)
             r == FollowNext(Visits, G, g, n)
             o == FollowNext(Others, G, g, n)
  <2>1. g \in Searches /\ White(g) \subseteq White(s) \ {n}
    BY ColourFacts
  <2>2. Visit(Visits, G, n, s) = (IF r.found THEN r ELSE FollowYields(Visits, G, r, n))
        /\ Visit(Others, G, n, s) = (IF o.found THEN o ELSE FollowYields(Others, G, o, n))
    BY <1>2 DEF Visit
  <2> HIDE DEF g
  <2>3. r = o
    BY <1>2, <2>1, NextOfFacts, FollowAgrees DEF FollowNext
  <2>4. From(r, g) /\ White(r) \subseteq White(s) \ {n}
    BY <1>2, <2>1, NextOfFacts, FollowKeeps DEF FollowNext
  <2> HIDE DEF r, o
  <2>5. r \in Searches
    BY <2>4 DEF From
  <2>6. FollowYields(Visits, G, r, n) = FollowYields(Others, G, r, n)
    <3>1. PICK run : /\ RunOf(Visits, G, r, n, run)
                     /\ FollowYields(Visits, G, r, n) = Ended(run[Len(EdgesOf(G, n))], n)
      BY YieldsRun
    <3>2. PICK way : /\ RunOf(Others, G, r, n, way)
                     /\ FollowYields(Others, G, r, n) = Ended(way[Len(EdgesOf(G, n))], n)
      BY YieldsRun
    <3>3. Len(EdgesOf(G, n)) \in 0..Len(EdgesOf(G, n))
      BY DEF EdgesOf, Graphs
    <3>4. run[Len(EdgesOf(G, n))] = way[Len(EdgesOf(G, n))]
      BY <2>4, <2>5, <3>1, <3>2, <3>3, RunAgrees
    <3> QED BY <3>1, <3>2, <3>4
  <2> QED BY <2>2, <2>3, <2>6
<1> QED BY <1>1, <1>2

-----------------------------------------------------------------------------
(* The recursion of the search is well founded. *)

(* Visits is what hasCycles computes, up to rank k. *)
Computes(Visits, G, k) ==
  \A n \in Nodes, s \in Searches :
    Rank(n, s) < k => Visits[<<n, s>>] = Visit(Visits, G, n, s)

LEMMA ComputesIsSound ==
  ASSUME NEW G \in Graphs, NEW Visits, NEW k \in Nat, Computes(Visits, G, k)
  PROVE  Sound(Visits, k)
<1> DEFINE Bad == {r \in Nat : \E n \in Nodes, s \in Searches :
                     r = Rank(n, s) /\ r < k /\ ~ From(Visits[<<n, s>>], s)}
<1> SUFFICES ASSUME ~ Sound(Visits, k) PROVE FALSE
  OBVIOUS
<1>1. PICK n \in Nodes, s \in Searches : Rank(n, s) < k /\ ~ From(Visits[<<n, s>>], s)
  BY DEF Sound
<1>2. Rank(n, s) \in Bad
  BY <1>1, RankType
<1>3. PICK r \in Bad : \A o \in Bad : r <= o
  <2>1. Bad \in SUBSET Nat
    OBVIOUS
  <2> HIDE DEF Bad
  <2> QED BY <1>2, <2>1, LeastNat
<1>4. PICK m \in Nodes, q \in Searches :
        r = Rank(m, q) /\ r < k /\ ~ From(Visits[<<m, q>>], q)
  BY <1>3
<1>5. Sound(Visits, Rank(m, q))
  <2> SUFFICES ASSUME NEW a \in Nodes, NEW b \in Searches, Rank(a, b) < r,
                      ~ From(Visits[<<a, b>>], b)
               PROVE  FALSE
    BY <1>4 DEF Sound
  <2>1. Rank(a, b) \in Nat /\ r \in Nat
    BY RankType
  <2>2. Rank(a, b) \in Bad
    BY <1>4, <2>1
  <2> QED BY <1>3, <2>1, <2>2
<1>6. From(Visit(Visits, G, m, q), q)
  BY <1>5, VisitKeeps
<1> QED BY <1>4, <1>6 DEF Computes

(* One rank more. *)
Better(Visits, G, k) ==
  [c \in Nodes \X Searches |->
     IF Rank(c[1], c[2]) < k THEN Visits[c] ELSE Visit(Visits, G, c[1], c[2])]

LEMMA BetterComputes ==
  ASSUME NEW G \in Graphs, NEW Visits, NEW k \in Nat, Computes(Visits, G, k)
  PROVE  Computes(Better(Visits, G, k), G, k + 1)
<1> DEFINE Next == Better(Visits, G, k)
<1>1. Sound(Visits, k)
  BY ComputesIsSound
<1>2. \A n \in Nodes, s \in Searches :
        Next[<<n, s>>] = IF Rank(n, s) < k THEN Visits[<<n, s>>] ELSE Visit(Visits, G, n, s)
  BY DEF Better
<1> HIDE DEF Next
<1> SUFFICES ASSUME NEW n \in Nodes, NEW s \in Searches, Rank(n, s) < k + 1
             PROVE  Next[<<n, s>>] = Visit(Next, G, n, s)
  BY DEF Computes, Next
<1>3. Rank(n, s) \in Nat
  BY RankType
<1>4. Next[<<n, s>>] = Visit(Visits, G, n, s)
  BY <1>2 DEF Computes
<1>5. \A a \in Nodes, b \in Searches : Rank(a, b) < Rank(n, s) => Rank(a, b) < k
  <2> TAKE a \in Nodes, b \in Searches
  <2>1. Rank(a, b) \in Nat
    BY RankType
  <2> QED BY <1>3, <2>1
<1>6. Sound(Visits, Rank(n, s)) /\ Agree(Visits, Next, Rank(n, s))
  BY <1>1, <1>2, <1>5 DEF Sound, Agree
<1> QED BY <1>4, <1>6, VisitAgrees

LEMMA ComputedUpTo ==
  ASSUME NEW G \in Graphs, NEW k \in Nat
  PROVE  \E Visits : Visits = [c \in Nodes \X Searches |-> Visits[c]] /\ Computes(Visits, G, k)
<1> DEFINE Good(j) ==
      \E Visits : Visits = [c \in Nodes \X Searches |-> Visits[c]] /\ Computes(Visits, G, j)
<1>1. Good(0)
  <2>1. PICK V : V = [c \in Nodes \X Searches |-> c]
    OBVIOUS
  <2>2. V = [c \in Nodes \X Searches |-> V[c]]
    BY <2>1
  <2>3. ASSUME NEW n \in Nodes, NEW s \in Searches PROVE ~ (Rank(n, s) < 0)
    <3>1. Rank(n, s) \in Nat
      BY RankType
    <3> QED BY <3>1
  <2>4. Computes(V, G, 0)
    BY <2>3 DEF Computes
  <2> QED BY <2>2, <2>4
<1>2. ASSUME NEW i \in 1..k, Good(i - 1) PROVE Good(i)
  <2>1. PICK V : Computes(V, G, i - 1)
    BY <1>2
  <2>2. i - 1 \in Nat /\ i = i - 1 + 1
    OBVIOUS
  <2>3. Computes(Better(V, G, i - 1), G, i)
    BY <2>1, <2>2, BetterComputes
  <2>4. Better(V, G, i - 1) = [c \in Nodes \X Searches |-> Better(V, G, i - 1)[c]]
    BY DEF Better
  <2> QED BY <2>3, <2>4
<1> HIDE DEF Good
<1> DEFINE S == {j \in 0..k : Good(j)}
<1>3. 0 \in S /\ \A i \in 1..k : i - 1 \in S => i \in S
  BY <1>1, <1>2
<1>4. \A i \in 0..k : i \in S
  <2> HIDE DEF S
  <2> QED BY <1>3, StepByStep
<1>5. Good(k)
  BY <1>4
<1> QED BY <1>5 DEF Good

(* hasCycles ends in every graph, whatever the colours it starts with: its *)
(* recursion is the function the code says, since each call of it colours  *)
(* a node that was new.                                                    *)
THEOREM SearchIsDefined ==
  ASSUME NEW G \in Graphs
  PROVE  \E Visits :
           /\ \A n \in Nodes, s \in Searches : Visits[<<n, s>>] = Visit(Visits, G, n, s)
           /\ \A n \in Nodes, s \in Searches : From(Visits[<<n, s>>], s)
           /\ \A start : HasCycles(G, start) = Visits[<<start, NewSearch>>]
<1> DEFINE Dom == Nodes \X Searches
           k == Cardinality(Nodes) + 1
<1>1. IsFiniteSet(Nodes) /\ k \in Nat
  BY NodeFacts, FS_CardinalityType
<1>2. \A n \in Nodes, s \in Searches : Rank(n, s) < k
  <2> TAKE n \in Nodes, s \in Searches
  <2>1. White(s) \ {n} \in SUBSET Nodes
    BY DEF White
  <2>2. Rank(n, s) \in Nat /\ Rank(n, s) <= Cardinality(Nodes)
    BY <1>1, <2>1, RankType, FS_Subset DEF Rank
  <2>3. Cardinality(Nodes) \in Nat
    BY <1>1, FS_CardinalityType
  <2> QED BY <2>2, <2>3
<1> HIDE DEF k
<1>3. \E V : V = [c \in Dom |-> Visit(V, G, c[1], c[2])]
  <2>1. PICK V : V = [c \in Dom |-> V[c]] /\ Computes(V, G, k)
    BY <1>1, ComputedUpTo
  <2>2. \A c \in Dom : V[c] = Visit(V, G, c[1], c[2])
    <3> TAKE c \in Dom
    <3>1. c[1] \in Nodes /\ c[2] \in Searches /\ c = <<c[1], c[2]>>
      OBVIOUS
    <3> QED BY <1>2, <2>1, <3>1 DEF Computes
  <2> QED BY <2>1, <2>2
<1>4. PICK V : /\ V = [c \in Dom |-> Visit(V, G, c[1], c[2])]
               /\ \A start : HasCycles(G, start) = V[<<start, NewSearch>>]
  BY <1>3 DEF HasCycles
<1>5. \A n \in Nodes, s \in Searches : V[<<n, s>>] = Visit(V, G, n, s)
  <2> TAKE n \in Nodes, s \in Searches
  <2>1. <<n, s>> \in Dom
    OBVIOUS
  <2> QED BY <1>4, <2>1
<1>6. Sound(V, k)
  BY <1>1, <1>5, ComputesIsSound DEF Computes
<1>7. \A n \in Nodes, s \in Searches : From(V[<<n, s>>], s)
  BY <1>2, <1>6 DEF Sound
<1> QED BY <1>4, <1>5, <1>7

-----------------------------------------------------------------------------
(* What is in the cycle *)

(* R has the pairs of a thread and a position that the edges of G name. *)
Labelled(G, R) ==
  /\ \A m \in Monitors : G.next[m] # NULL /\ G.acqPos[m] # NULL => <<G.next[m], G.acqPos[m]>> \in R
  /\ \A t \in Threads : \A e \in Elements(G.yields[t]) : <<e.thread, e.pos>> \in R

Leads(R, l, n) == l # NULL => <<n, l>> \in R

(* st is a way through different nodes to n, each label of which belongs   *)
(* to the node it leads to.                                                *)
Way(R, st, n) ==
  /\ st \in Seq(Entries)
  /\ \A i, j \in 1..Len(st) : st[i].node = st[j].node => i = j
  /\ \A i \in 1..Len(st) : i # Len(st) => Leads(R, st[i].label, st[i + 1].node)
  /\ Len(st) # 0 => Leads(R, st[Len(st)].label, n)

Sane(R, s) ==
  /\ s.join # NULL => Way(R, s.cycle, s.join)
  /\ \A i \in 1..Len(s.stack) : s.colour[s.stack[i].node] # 0

LEMMA WayOn ==
  ASSUME NEW R, NEW st, NEW n \in Nodes, NEW l \in Labels, NEW to, Way(R, st, n),
         \A i \in 1..Len(st) : st[i].node # n, Leads(R, l, to)
  PROVE  Way(R, Append(st, Entry(n, l)), to)
<1> DEFINE e == Entry(n, l)
           a == Append(st, e)
<1>1. e \in Entries /\ e.node = n /\ e.label = l
  BY DEF Entries, Entry
<1> HIDE DEF e
<1>2. st \in Seq(Entries) /\ Len(st) \in Nat
  BY DEF Way
<1>3. /\ a \in Seq(Entries) /\ Len(a) = Len(st) + 1 /\ a[Len(st) + 1] = e
      /\ \A i \in 1..Len(st) : a[i] = st[i]
  BY <1>1, <1>2
<1> HIDE DEF a
<1>4. \A i, j \in 1..Len(a) : a[i].node = a[j].node => i = j
  <2> SUFFICES ASSUME NEW i \in 1..Len(a), NEW j \in 1..Len(a), a[i].node = a[j].node
               PROVE  i = j
    OBVIOUS
  <2>1. i \in 1..Len(st) \/ i = Len(st) + 1
    BY <1>2, <1>3
  <2>2. j \in 1..Len(st) \/ j = Len(st) + 1
    BY <1>2, <1>3
  <2> QED BY <1>1, <1>3, <2>1, <2>2 DEF Way
<1>5. ASSUME NEW i \in 1..Len(a), i # Len(a)
      PROVE  Leads(R, a[i].label, a[i + 1].node)
  <2>1. i \in 1..Len(st) /\ a[i] = st[i]
    BY <1>2, <1>3, <1>5
  <2>2. CASE i = Len(st)
    BY <1>1, <1>3, <2>1, <2>2 DEF Way
  <2>3. CASE i # Len(st)
    <3>1. i + 1 \in 1..Len(st)
      BY <1>2, <2>1, <2>3
    <3> QED BY <1>3, <2>1, <2>3, <3>1 DEF Way
  <2> QED BY <2>2, <2>3
<1>6. Leads(R, a[Len(a)].label, to)
  BY <1>1, <1>3
<1> QED BY <1>3, <1>4, <1>5, <1>6 DEF Way, a, e

(* A visit of a new node that the stack leads to. *)
Ready(R, n, s) == Sane(R, s) /\ Way(R, s.stack, n) /\ s.colour[n] = 0

LEMMA FollowSane ==
  ASSUME NEW R, NEW Visits, NEW s \in Searches, NEW n \in Nodes, NEW to \in Nodes, NEW l \in Labels,
         Sane(R, s), Way(R, s.stack, n), s.colour[n] # 0,
         \A i \in 1..Len(s.stack) : s.stack[i].node # n, Leads(R, l, to),
         s.colour[to] = 0 =>
           /\ From(Visits[<<to, Push(s, n, l)>>], Push(s, n, l))
           /\ Ready(R, to, Push(s, n, l)) => Sane(R, Visits[<<to, Push(s, n, l)>>])
  PROVE  Sane(R, Follow(Visits, s, n, to, l))
<1> DEFINE p == Push(s, n, l)
           b == Beyond(Visits, p, to)
           e == Entry(n, l)
<1>1. /\ p \in Searches /\ p.colour = s.colour /\ p.cycle = s.cycle /\ p.join = s.join
      /\ p.stack = Append(s.stack, e)
      /\ SubSeq(p.stack, 1, Len(p.stack) - 1) = s.stack
  BY PushFacts
<1>2. s.stack \in Seq(Entries) /\ White(p) = White(s) /\ Len(s.stack) \in Nat
  BY <1>1 DEF Searches, White
<1>3. /\ Follow(Visits, s, n, to, l) = Pop(b)
      /\ s.colour[to] = 0 => b = Visits[<<to, p>>]
      /\ s.colour[to] = 1 => b = Hit(p, to)
      /\ s.colour[to] = 2 => b = [p EXCEPT !.found = FALSE]
      /\ s.colour[to] \in 0..2
  BY FollowIs
<1>4. s.colour[to] = 0 => From(Visits[<<to, p>>], p) /\ (Ready(R, to, p) => Sane(R, Visits[<<to, p>>]))
  OBVIOUS
<1>5. e \in Entries /\ e.node = n
  BY DEF Entries, Entry
<1>6. Way(R, p.stack, to)
  BY <1>1, WayOn
<1> HIDE DEF p, b, e
<1>7. Sane(R, p)
  <2>1. ASSUME NEW i \in 1..Len(p.stack) PROVE p.colour[p.stack[i].node] # 0
    <3>1. CASE i \in 1..Len(s.stack)
      <4>1. p.stack[i] = s.stack[i]
        BY <1>1, <1>2, <1>5, <3>1
      <4> QED BY <1>1, <3>1, <4>1 DEF Sane
    <3>2. CASE i \notin 1..Len(s.stack)
      <4>1. p.stack[i] = e
        BY <1>1, <1>2, <1>5, <3>2
      <4> QED BY <1>1, <1>5, <4>1
    <3> QED BY <3>1, <3>2
  <2> QED BY <1>1, <2>1 DEF Sane
<1>8. From(b, p) /\ Sane(R, b)
  <2>1. CASE s.colour[to] = 0
    <3>1. Ready(R, to, p)
      BY <1>1, <1>6, <1>7, <2>1 DEF Ready
    <3> QED BY <1>3, <1>4, <2>1, <3>1
  <2>2. CASE s.colour[to] = 1
    <3>1. b = Hit(p, to)
      BY <1>3, <2>2
    <3>2. From(b, p)
      BY <1>1, <3>1, HitFacts DEF From, White
    <3>3. b.colour = p.colour /\ b.stack = p.stack
      BY <1>1, <3>1, HitFacts
    <3>4. Way(R, b.cycle, b.join)
      <4>1. CASE p.join = NULL
        BY <1>1, <1>6, <3>1, <4>1, HitFacts
      <4>2. CASE p.join # NULL
        BY <1>1, <1>7, <3>1, <4>2, HitFacts DEF Sane
      <4> QED BY <4>1, <4>2
    <3> QED BY <1>7, <3>2, <3>3, <3>4 DEF Sane
  <2>3. CASE s.colour[to] = 2
    <3>1. b = [p EXCEPT !.found = FALSE]
      BY <1>3, <2>3
    <3>2. From(b, p) /\ b.colour = p.colour /\ b.stack = p.stack /\ b.cycle = p.cycle /\ b.join = p.join
      BY <1>1, <3>1, SetFound DEF From
    <3> QED BY <1>7, <3>2 DEF Sane
  <2> QED BY <1>3, <2>1, <2>2, <2>3
<1>9. b \in Searches /\ SubSeq(b.stack, 1, Len(b.stack) - 1) = s.stack
  BY <1>1, <1>2, <1>8 DEF From
<1>10. /\ Pop(b).colour = b.colour /\ Pop(b).cycle = b.cycle /\ Pop(b).stack = s.stack
       /\ Pop(b).join # NULL => Pop(b).join = b.join
  BY <1>2, <1>9, PopFacts
<1>11. \A i \in 1..Len(s.stack) : b.colour[s.stack[i].node] # 0
  <2> TAKE i \in 1..Len(s.stack)
  <2>0. s.stack[i] \in Entries
    BY <1>2
  <2>1. s.stack[i].node \in Nodes /\ s.colour[s.stack[i].node] # 0
    BY <2>0 DEF Sane, Entries
  <2> QED BY <1>2, <1>8, <2>1 DEF From, White
<1>12. Sane(R, Pop(b))
  BY <1>8, <1>10, <1>11 DEF Sane
<1> QED BY <1>3, <1>12

(* Visits keeps cycles sane, below rank k. *)
Sensible(R, Visits, k) ==
  \A n \in Nodes, s \in Searches :
    Rank(n, s) < k /\ Ready(R, n, s) => Sane(R, Visits[<<n, s>>])

LEMMA FollowSensible ==
  ASSUME NEW R, NEW Visits, NEW s \in Searches, NEW r \in Searches, NEW n \in Nodes,
         NEW to \in Nodes, NEW l \in Labels,
         White(r) \subseteq White(s) \ {n}, Ready(R, n, s), r.stack = s.stack, Sane(R, r),
         Leads(R, l, to), Sound(Visits, Rank(n, s)), Sensible(R, Visits, Rank(n, s))
  PROVE  Sane(R, Follow(Visits, r, n, to, l))
<1>1. r.colour[n] # 0 /\ Way(R, r.stack, n)
  BY DEF White, Ready
<1>2. \A i \in 1..Len(r.stack) : r.stack[i].node # n
  BY DEF Ready, Sane
<1>3. r.colour[to] = 0 => /\ Push(r, n, l) \in Searches
                          /\ Rank(to, Push(r, n, l)) < Rank(n, s)
  BY RankFalls
<1>4. r.colour[to] = 0 =>
        /\ From(Visits[<<to, Push(r, n, l)>>], Push(r, n, l))
        /\ Ready(R, to, Push(r, n, l)) => Sane(R, Visits[<<to, Push(r, n, l)>>])
  BY <1>3 DEF Sound, Sensible
<1> QED BY <1>1, <1>2, <1>4, FollowSane

LEMMA RunSane ==
  ASSUME NEW G \in Graphs, NEW R, Labelled(G, R),
         NEW s \in Searches, NEW q \in Searches, NEW n \in Nodes,
         White(q) \subseteq White(s) \ {n}, Ready(R, n, s), q.stack = s.stack, Sane(R, q),
         NEW Visits, Sound(Visits, Rank(n, s)), Sensible(R, Visits, Rank(n, s)),
         NEW run, RunOf(Visits, G, q, n, run)
  PROVE  \A i \in 0..Len(EdgesOf(G, n)) : Sane(R, run[i])
<1> DEFINE es == EdgesOf(G, n)
           S == {i \in 0..Len(es) : Sane(R, run[i])}
<1>1. es \in Seq(Edges) /\ Len(es) \in Nat
  BY DEF EdgesOf, Graphs
<1>2. Sane(R, Start(G, q, n))
  BY SetFound DEF Start, Sane
<1>3. 0 \in S
  BY <1>1, <1>2 DEF RunOf
<1>4. ASSUME NEW i \in 1..Len(es), i - 1 \in S PROVE i \in S
  <2>1. i - 1 \in 0..Len(es) /\ i \in 0..Len(es)
    BY <1>1
  <2>2. PICK r : r = run[i - 1]
    OBVIOUS
  <2>3. From(r, q) /\ White(r) \subseteq White(s) \ {n}
    BY <2>1, <2>2, RunKeeps
  <2>4. r \in Searches /\ r.stack = s.stack /\ Sane(R, r)
    BY <1>4, <2>2, <2>3 DEF From
  <2>5. run[i] = Turn(Visits, r, n, es[i])
    BY <2>2 DEF RunOf
  <2>6. es[i] \in Edges
    <3> HIDE DEF es
    <3> QED BY <1>1
  <2>7. Leads(R, es[i].pos, es[i].thread)
    <3>1. n \in Threads /\ es = G.yields[n]
      BY <1>1 DEF EdgesOf
    <3>2. es[i] \in Elements(G.yields[n])
      BY <1>1, <3>1 DEF Elements
    <3> QED BY <3>1, <3>2 DEF Labelled, Leads
  <2> HIDE DEF es
  <2>8. es[i].thread \in Nodes /\ es[i].pos \in Labels
    BY <2>6 DEF Edges, Nodes, Labels
  <2>9. Sane(R, Follow(Visits, r, n, es[i].thread, es[i].pos))
    BY <2>3, <2>4, <2>7, <2>8, FollowSensible
  <2>10. Sane(R, run[i])
    BY <2>4, <2>5, <2>9 DEF Turn
  <2> QED BY <2>1, <2>10
<1> HIDE DEF es
<1>5. \A i \in 0..Len(es) : i \in S
  <2> HIDE DEF S
  <2> QED BY <1>1, <1>3, <1>4, StepByStep
<1> QED BY <1>5 DEF es

LEMMA ColourSane ==
  ASSUME NEW R, NEW s \in Searches, NEW n \in Nodes, NEW c \in {1, 2}, Sane(R, s)
  PROVE  Sane(R, Colour(s, n, c))
<1> DEFINE d == Colour(s, n, c)
<1>1. /\ d \in Searches /\ d.stack = s.stack /\ d.cycle = s.cycle /\ d.join = s.join
      /\ White(d) = White(s) \ {n}
  BY ColourFacts
<1> HIDE DEF d
<1>2. \A i \in 1..Len(s.stack) : d.colour[s.stack[i].node] # 0
  <2> TAKE i \in 1..Len(s.stack)
  <2>1. s.stack[i] \in Entries
    BY DEF Searches
  <2>2. s.stack[i].node \in Nodes /\ s.colour[s.stack[i].node] # 0
    BY <2>1 DEF Sane, Entries
  <2> QED BY <1>1, <2>2 DEF White
<1> QED BY <1>1, <1>2 DEF Sane, d

LEMMA VisitSane ==
  ASSUME NEW G \in Graphs, NEW R, Labelled(G, R), NEW s \in Searches, NEW n \in Nodes,
         Ready(R, n, s), NEW Visits, Sound(Visits, Rank(n, s)), Sensible(R, Visits, Rank(n, s))
  PROVE  Sane(R, Visit(Visits, G, n, s))
<1>0. Sane(R, s)
  BY DEF Ready
<1>1. CASE G.next[n] = NULL
  <2>1. PICK d : d = Colour(s, n, 2)
    OBVIOUS
  <2>2. d \in Searches /\ Sane(R, d)
    BY <1>0, <2>1, ColourFacts, ColourSane
  <2>3. Sane(R, [d EXCEPT !.found = FALSE])
    BY <2>2, SetFound DEF Sane
  <2> QED BY <1>1, <2>1, <2>3 DEF Visit
<1>2. CASE G.next[n] # NULL
  <2> DEFINE g == Colour(s, n, 1)
             l == IF n \in Monitors THEN G.acqPos[n] ELSE NULL
             r == FollowNext(Visits, G, g, n)
  <2>1. g \in Searches /\ g.stack = s.stack /\ White(g) \subseteq White(s) \ {n} /\ Sane(R, g)
    BY <1>0, ColourFacts, ColourSane
  <2>2. Visit(Visits, G, n, s) = (IF r.found THEN r ELSE FollowYields(Visits, G, r, n))
    BY <1>2 DEF Visit
  <2>3. G.next[n] \in Nodes /\ l \in Labels /\ Leads(R, l, G.next[n])
    BY <1>2, NextOfFacts DEF Labelled, Leads
  <2>4. r = Follow(Visits, g, n, G.next[n], l)
    BY DEF FollowNext
  <2> HIDE DEF g, l, r
  <2>5. From(r, g) /\ White(r) \subseteq White(s) \ {n}
    BY <2>1, <2>3, <2>4, FollowKeeps
  <2>6. Sane(R, r)
    BY <2>1, <2>3, <2>4, FollowSensible
  <2>7. r \in Searches /\ r.stack = s.stack
    BY <2>1, <2>5 DEF From
  <2>8. Sane(R, FollowYields(Visits, G, r, n))
    <3>1. PICK run : /\ RunOf(Visits, G, r, n, run)
                     /\ FollowYields(Visits, G, r, n) = Ended(run[Len(EdgesOf(G, n))], n)
      BY YieldsRun
    <3>2. PICK q : q = run[Len(EdgesOf(G, n))]
      OBVIOUS
    <3>3. Len(EdgesOf(G, n)) \in 0..Len(EdgesOf(G, n))
      BY DEF EdgesOf, Graphs
    <3>4. Sane(R, q)
      BY <2>5, <2>6, <2>7, <3>1, <3>2, <3>3, RunSane
    <3>5. From(q, r)
      BY <2>5, <2>7, <3>1, <3>2, <3>3, RunKeeps
    <3>6. q \in Searches
      BY <3>5 DEF From
    <3>7. Sane(R, Colour(q, n, 2))
      BY <3>4, <3>6, ColourSane
    <3> QED BY <3>1, <3>2, <3>4, <3>7 DEF Ended
  <2> QED BY <2>2, <2>6, <2>8
<1> QED BY <1>1, <1>2

LEMMA SearchIsSane ==
  ASSUME NEW G \in Graphs, NEW R, Labelled(G, R), NEW Visits,
         \A n \in Nodes, s \in Searches : Visits[<<n, s>>] = Visit(Visits, G, n, s),
         \A n \in Nodes, s \in Searches : From(Visits[<<n, s>>], s)
  PROVE  \A n \in Nodes, s \in Searches : Ready(R, n, s) => Sane(R, Visits[<<n, s>>])
<1> DEFINE Bad == {r \in Nat : \E n \in Nodes, s \in Searches :
                     r = Rank(n, s) /\ Ready(R, n, s) /\ ~ Sane(R, Visits[<<n, s>>])}
<1> SUFFICES ASSUME NEW n \in Nodes, NEW s \in Searches, Ready(R, n, s), ~ Sane(R, Visits[<<n, s>>])
             PROVE  FALSE
  OBVIOUS
<1>1. Rank(n, s) \in Bad
  BY RankType
<1>2. PICK r \in Bad : \A o \in Bad : r <= o
  <2>1. Bad \in SUBSET Nat
    OBVIOUS
  <2> HIDE DEF Bad
  <2> QED BY <1>1, <2>1, LeastNat
<1>3. PICK m \in Nodes, q \in Searches :
        r = Rank(m, q) /\ Ready(R, m, q) /\ ~ Sane(R, Visits[<<m, q>>])
  BY <1>2
<1>4. Sensible(R, Visits, Rank(m, q))
  <2> SUFFICES ASSUME NEW a \in Nodes, NEW b \in Searches, Rank(a, b) < r, Ready(R, a, b),
                      ~ Sane(R, Visits[<<a, b>>])
               PROVE  FALSE
    BY <1>3 DEF Sensible
  <2>1. Rank(a, b) \in Nat /\ r \in Nat
    BY RankType
  <2>2. Rank(a, b) \in Bad
    BY <2>1
  <2> QED BY <1>2, <2>1, <2>2
<1>5. Sound(Visits, Rank(m, q))
  BY DEF Sound
<1>6. Sane(R, Visit(Visits, G, m, q))
  BY <1>3, <1>4, <1>5, VisitSane
<1> QED BY <1>3, <1>6

(* The search starts with nothing. *)
LEMMA NewSearchFacts ==
  /\ NewSearch \in Searches
  /\ \A n \in Nodes : NewSearch.colour[n] = 0
  /\ NewSearch.stack = <<>> /\ NewSearch.cycle = <<>> /\ NewSearch.join = NULL
  /\ \A n \in Nodes : \A R : Ready(R, n, NewSearch)
<1>1. /\ NewSearch \in Searches
      /\ \A n \in Nodes : NewSearch.colour[n] = 0
      /\ NewSearch.stack = <<>> /\ NewSearch.cycle = <<>> /\ NewSearch.join = NULL
  BY DEF NewSearch, Searches
<1>2. \A R, n : Way(R, <<>>, n)
  BY DEF Way
<1> QED BY <1>1, <1>2 DEF Ready, Sane

(* When hasCycles has found a join point, no node is twice in cycle, and   *)
(* the label of each node in it is the position of an edge of the graph    *)
(* that names the next node, or at the end the join point.                 *)
THEOREM HasCyclesFacts ==
  ASSUME NEW G \in Graphs, NEW start \in Nodes
  PROVE  /\ HasCycles(G, start) \in Searches
         /\ \A R : Labelled(G, R) => Sane(R, HasCycles(G, start))
<1>1. PICK V : /\ \A n \in Nodes, s \in Searches : V[<<n, s>>] = Visit(V, G, n, s)
               /\ \A n \in Nodes, s \in Searches : From(V[<<n, s>>], s)
               /\ \A first : HasCycles(G, first) = V[<<first, NewSearch>>]
  BY SearchIsDefined
<1>2. HasCycles(G, start) \in Searches
  BY <1>1, NewSearchFacts DEF From
<1>3. ASSUME NEW R, Labelled(G, R) PROVE Sane(R, HasCycles(G, start))
  <2>1. \A n \in Nodes, s \in Searches : Ready(R, n, s) => Sane(R, V[<<n, s>>])
    BY <1>1, <1>3, SearchIsSane, Zenon
  <2>2. Ready(R, start, NewSearch) /\ NewSearch \in Searches
    BY NewSearchFacts
  <2>3. HasCycles(G, start) = V[<<start, NewSearch>>]
    BY <1>1
  <2> QED BY <2>1, <2>2, <2>3
<1> QED BY <1>2, <1>3

-----------------------------------------------------------------------------
(* The template of a cycle *)

LEMMA PairIs ==
  ASSUME NEW S, NEW a \in S, NEW b \in S, NEW s \in Seq(S), Len(s) = 2, s[1] = a, s[2] = b
  PROVE  s = <<a, b>>
<1>1. PICK u : u = <<a, b>>
  OBVIOUS
<1>2. u \in Seq(S) /\ Len(u) = 2 /\ u[1] = a /\ u[2] = b
  BY <1>1
<1>3. \A i \in 1..2 : s[i] = u[i]
  BY <1>2
<1> QED BY <1>1, <1>2, <1>3, SeqEqual

LEMMA AppendIs ==
  ASSUME NEW S, NEW s \in Seq(S), NEW e \in S, NEW q, q = Append(s, e)
  PROVE  /\ q \in Seq(S) /\ Len(q) = Len(s) + 1 /\ q[Len(s) + 1] = e
         /\ \A i \in 1..Len(s) : q[i] = s[i]
<1>1. q \in Seq(S) /\ Len(q) = Len(s) + 1
  BY AppendProperties
<1>2. q[Len(s) + 1] = e /\ \A i \in 1..Len(s) : q[i] = s[i]
  BY AppendProperties
<1> QED BY <1>1, <1>2

LEMMA AppendFirst ==
  ASSUME NEW S, NEW s \in Seq(S), NEW e \in S, Len(s) = 0, NEW q, q = Append(s, e)
  PROVE  q \in Seq(S) /\ Len(q) = 1 /\ q[1] = e
BY AppendIs

LEMMA AppendSecond ==
  ASSUME NEW S, NEW s \in Seq(S), NEW e \in S, Len(s) = 1, NEW q, q = Append(s, e)
  PROVE  q \in Seq(S) /\ Len(q) = 2 /\ q[2] = e /\ q[1] = s[1]
BY AppendIs

LEMMA AppendThird ==
  ASSUME NEW S, NEW s \in Seq(S), NEW e \in S, Len(s) = 2, NEW q, q = Append(s, e)
  PROVE  q \in Seq(S) /\ Len(q) = 3 /\ q[3] = e /\ q[1] = s[1] /\ q[2] = s[2]
BY AppendIs

LEMMA AppendFourth ==
  ASSUME NEW S, NEW s \in Seq(S), NEW e \in S, Len(s) = 3, NEW q, q = Append(s, e)
  PROVE  q \in Seq(S) /\ Len(q) = 4 /\ q[4] = e /\ q[1] = s[1] /\ q[2] = s[2] /\ q[3] = s[3]
BY AppendIs

LEMMA AppendElements ==
  ASSUME NEW S, NEW s \in Seq(S), NEW e
  PROVE  /\ Elements(Append(s, e)) = Elements(s) \cup {e}
         /\ Append(s, e) \in Seq(S \cup {e})
         /\ e \in S => Append(s, e) \in Seq(S)
         /\ Len(s) \in Nat /\ DOMAIN s = 1..Len(s)
         /\ DOMAIN Append(s, e) = 1..(Len(s) + 1)
         /\ \A i \in 1..Len(s) : Append(s, e)[i] = s[i]
         /\ Append(s, e)[Len(s) + 1] = e
<1>1. s \in Seq(S \cup {e}) /\ e \in S \cup {e}
  BY SeqMonotonic
<1>2. /\ Append(s, e) \in Seq(S \cup {e})
      /\ Len(s) \in Nat /\ DOMAIN s = 1..Len(s)
      /\ DOMAIN Append(s, e) = 1..(Len(s) + 1)
      /\ \A i \in 1..Len(s) : Append(s, e)[i] = s[i]
      /\ Append(s, e)[Len(s) + 1] = e
  BY <1>1
<1>3. e \in S => Append(s, e) \in Seq(S)
  OBVIOUS
<1>4. Elements(Append(s, e)) = Elements(s) \cup {e}
  BY <1>2 DEF Elements
<1> QED BY <1>2, <1>3, <1>4

HasRest(s, S, k) ==
  \E rest : rest = [i \in 0..k |->
              IF i = 0 THEN <<>>
              ELSE IF s[i] \in S THEN Append(rest[i - 1], s[i]) ELSE rest[i - 1]]

LEMMA RestExists ==
  ASSUME NEW s, NEW S, NEW k \in Nat
  PROVE  HasRest(s, S, k)
<1> DEFINE Defined == {j \in 0..k : HasRest(s, S, j)}
<1>1. 0 \in Defined
  <2>1. PICK r : r = [i \in 0..0 |-> <<>>]
    OBVIOUS
  <2>2. r = [i \in 0..0 |-> IF i = 0 THEN <<>>
               ELSE IF s[i] \in S THEN Append(r[i - 1], s[i]) ELSE r[i - 1]]
    BY <2>1
  <2> QED BY <2>2 DEF HasRest
<1>2. ASSUME NEW m \in 1..k, m - 1 \in Defined PROVE m \in Defined
  <2>1. PICK r : r = [i \in 0..(m - 1) |-> IF i = 0 THEN <<>>
                   ELSE IF s[i] \in S THEN Append(r[i - 1], s[i]) ELSE r[i - 1]]
    BY <1>2 DEF HasRest
  <2>2. PICK u : u = [i \in 0..m |-> IF i < m THEN r[i]
                   ELSE IF s[m] \in S THEN Append(r[m - 1], s[m]) ELSE r[m - 1]]
    OBVIOUS
  <2>3. \A i \in 0..m : i # 0 => u[i - 1] = r[i - 1]
    BY <2>2
  <2>4. ASSUME NEW i \in 0..m
        PROVE  u[i] = IF i = 0 THEN <<>>
                      ELSE IF s[i] \in S THEN Append(u[i - 1], s[i]) ELSE u[i - 1]
    <3>1. CASE i = m
      BY <2>2, <2>3, <3>1
    <3>2. CASE i # m
      <4>1. i \in 0..(m - 1) /\ i < m
        BY <3>2
      <4>2. r[i] = IF i = 0 THEN <<>>
                   ELSE IF s[i] \in S THEN Append(r[i - 1], s[i]) ELSE r[i - 1]
        BY <2>1, <4>1
      <4>3. u[i] = r[i]
        BY <2>2, <4>1
      <4> QED BY <2>3, <4>2, <4>3
    <3> QED BY <3>1, <3>2
  <2>5. u = [i \in 0..m |-> IF i = 0 THEN <<>>
               ELSE IF s[i] \in S THEN Append(u[i - 1], s[i]) ELSE u[i - 1]]
    BY <2>2, <2>4
  <2>6. HasRest(s, S, m)
    BY <2>5 DEF HasRest
  <2>7. m \in 0..k
    OBVIOUS
  <2> QED BY <2>6, <2>7
<1>3. \A i \in 0..k : i \in Defined
  <2> HIDE DEF Defined
  <2> QED BY <1>1, <1>2, StepByStep
<1> QED BY <1>3

(* The lists of what has been chosen so far. *)
LEMMA ChosenIs ==
  ASSUME NEW A, NEW s \in Seq(A), NEW S
  PROVE  \E rest :
           /\ rest[0] = <<>>
           /\ \A i \in 1..Len(s) :
                rest[i] = IF s[i] \in S THEN Append(rest[i - 1], s[i]) ELSE rest[i - 1]
           /\ Chosen(s, S) = rest[Len(s)]
<1>1. Len(s) \in Nat
  OBVIOUS
<1>2. \E rest : rest = [i \in 0..Len(s) |-> IF i = 0 THEN <<>>
                  ELSE IF s[i] \in S THEN Append(rest[i - 1], s[i]) ELSE rest[i - 1]]
  <2>1. HasRest(s, S, Len(s))
    BY <1>1, RestExists
  <2> QED BY <2>1 DEF HasRest
<1>3. PICK rest :
        /\ rest = [i \in 0..Len(s) |-> IF i = 0 THEN <<>>
             ELSE IF s[i] \in S THEN Append(rest[i - 1], s[i]) ELSE rest[i - 1]]
        /\ Chosen(s, S) = rest[Len(s)]
  BY <1>2 DEF Chosen
<1>4. \A i \in 0..Len(s) :
        rest[i] = IF i = 0 THEN <<>>
                  ELSE IF s[i] \in S THEN Append(rest[i - 1], s[i]) ELSE rest[i - 1]
  BY ONLY <1>3
<1>5. rest[0] = <<>> /\ \A i \in 1..Len(s) :
        rest[i] = IF s[i] \in S THEN Append(rest[i - 1], s[i]) ELSE rest[i - 1]
  BY ONLY <1>1, <1>4
<1> QED BY <1>3, <1>5

Distinct(s) == \A i, j \in DOMAIN s : s[i] = s[j] => i = j

LEMMA AppendDistinct ==
  ASSUME NEW S, NEW s \in Seq(S), Distinct(s), NEW e, e \notin Elements(s)
  PROVE  Distinct(Append(s, e))
<1>1. /\ Len(s) \in Nat /\ DOMAIN s = 1..Len(s)
      /\ DOMAIN Append(s, e) = 1..(Len(s) + 1)
      /\ \A i \in 1..Len(s) : Append(s, e)[i] = s[i]
      /\ Append(s, e)[Len(s) + 1] = e
  BY AppendElements
<1> SUFFICES ASSUME NEW i \in 1..(Len(s) + 1), NEW j \in 1..(Len(s) + 1),
                    Append(s, e)[i] = Append(s, e)[j]
             PROVE  i = j
  BY <1>1 DEF Distinct
<1>2. i \in 1..Len(s) \/ i = Len(s) + 1
  BY <1>1
<1>3. j \in 1..Len(s) \/ j = Len(s) + 1
  BY <1>1
<1>4. \A k \in 1..Len(s) : s[k] # e
  BY <1>1 DEF Elements
<1>5. CASE i \in 1..Len(s) /\ j \in 1..Len(s)
  BY <1>1, <1>5 DEF Distinct
<1>6. CASE i = Len(s) + 1 /\ j \in 1..Len(s)
  BY <1>1, <1>4, <1>6
<1>7. CASE i \in 1..Len(s) /\ j = Len(s) + 1
  BY <1>1, <1>4, <1>7
<1> QED BY <1>2, <1>3, <1>5, <1>6, <1>7

LEMMA ChosenFacts ==
  ASSUME NEW A, NEW s \in Seq(A), NEW S
  PROVE  /\ Chosen(s, S) \in Seq(S)
         /\ Elements(Chosen(s, S)) = Elements(s) \cap S
         /\ (\A i, j \in 1..Len(s) : s[i] \in S /\ s[i] = s[j] => i = j) => Distinct(Chosen(s, S))
<1>1. PICK rest :
        /\ rest[0] = <<>>
        /\ \A i \in 1..Len(s) :
             rest[i] = IF s[i] \in S THEN Append(rest[i - 1], s[i]) ELSE rest[i - 1]
        /\ Chosen(s, S) = rest[Len(s)]
  BY ChosenIs
<1>2. Len(s) \in Nat /\ DOMAIN s = 1..Len(s)
  OBVIOUS
<1> DEFINE Different == \A i, j \in 1..Len(s) : s[i] \in S /\ s[i] = s[j] => i = j
           Right(i) == /\ rest[i] \in Seq(S)
                       /\ Elements(rest[i]) = {s[j] : j \in 1..i} \cap S
                       /\ Different => Distinct(rest[i])
           Good == {i \in 0..Len(s) : Right(i)}
<1>3. 0 \in Good
  <2>1. rest[0] \in Seq(S) /\ Elements(rest[0]) = {} /\ Distinct(rest[0])
    BY <1>1 DEF Elements, Distinct
  <2>2. {s[j] : j \in 1..0} \cap S = {}
    OBVIOUS
  <2>3. Right(0)
    <3> HIDE DEF Different
    <3> QED BY <2>1, <2>2
  <2> QED BY <1>2, <2>3
<1>4. ASSUME NEW i \in 1..Len(s), i - 1 \in Good PROVE i \in Good
  <2>1. i \in 0..Len(s) /\ i - 1 \in 0..Len(s) /\ 1..i = 1..(i - 1) \cup {i}
    BY <1>2
  <2>2. PICK r : r = rest[i - 1]
    OBVIOUS
  <2>3. /\ r \in Seq(S) /\ Elements(r) = {s[j] : j \in 1..(i - 1)} \cap S
        /\ Different => Distinct(r)
    BY <1>4, <2>2
  <2>4. {s[j] : j \in 1..i} = {s[j] : j \in 1..(i - 1)} \cup {s[i]}
    BY <2>1
  <2>5. CASE s[i] \in S
    <3>1. rest[i] = Append(r, s[i])
      BY <1>1, <2>2, <2>5
    <3>2. rest[i] \in Seq(S) /\ Elements(rest[i]) = Elements(r) \cup {s[i]}
      BY <2>3, <2>5, <3>1, AppendElements
    <3>3. Different => s[i] \notin Elements(r)
      BY <1>2, <2>1, <2>3, <2>5
    <3>4. Different => Distinct(rest[i])
      <4> HIDE DEF Different
      <4> QED BY <2>3, <3>1, <3>3, AppendDistinct
    <3>5. Right(i)
      <4> HIDE DEF Different
      <4> QED BY <2>3, <2>4, <2>5, <3>2, <3>4
    <3> QED BY <2>1, <3>5
  <2>6. CASE s[i] \notin S
    <3>1. rest[i] = r
      BY <1>1, <2>2, <2>6
    <3>2. Right(i)
      <4> HIDE DEF Different
      <4> QED BY <2>3, <2>4, <2>6, <3>1
    <3> QED BY <2>1, <3>2
  <2> QED BY <2>5, <2>6
<1>5. \A i \in 0..Len(s) : i \in Good
  <2> HIDE DEF Good
  <2> QED BY <1>2, <1>3, <1>4, StepByStep
<1>6. Right(Len(s))
  <2>1. Len(s) \in Good
    <3> HIDE DEF Good
    <3> QED BY <1>2, <1>5
  <2> HIDE DEF Right
  <2> QED BY <2>1
<1>7. Elements(s) = {s[j] : j \in 1..Len(s)}
  BY <1>2 DEF Elements
<1> QED BY <1>1, <1>6, <1>7

(* The labels from index f of the cycle on. *)
LabelsFrom(c, f) == [i \in 1..(Len(c) + 1 - f) |-> c[f + i - 1].label]

LEMMA TemplateIs ==
  ASSUME NEW s \in Searches
  PROVE  \E f \in 1..(Len(s.cycle) + 1) :
           /\ f <= Len(s.cycle) => s.cycle[f].node = s.join
           /\ LabelsFrom(s.cycle, f) \in Seq(Labels)
           /\ Len(LabelsFrom(s.cycle, f)) = Len(s.cycle) + 1 - f
           /\ GetTemplate(s) = Chosen(LabelsFrom(s.cycle, f), Positions)
           /\ \A i \in 1..Len(s.cycle) : s.cycle[i].node = s.join => f <= i
<1> DEFINE c == s.cycle
           at == {i \in DOMAIN c : c[i].node = s.join}
           f == IF at = {} THEN Len(c) + 1 ELSE CHOOSE i \in at : \A j \in at : i <= j
<1>1. c \in Seq(Entries) /\ Len(c) \in Nat /\ DOMAIN c = 1..Len(c)
  BY DEF Searches
<1>2. GetTemplate(s) = Chosen(LabelsFrom(c, f), Positions)
  BY DEF GetTemplate, LabelsFrom
<1> HIDE DEF c
<1>3. at # {} => f \in at /\ \A j \in at : f <= j
  <2>1. at \in SUBSET Nat
    BY <1>1
  <2> HIDE DEF at
  <2> QED BY <2>1, LeastNat
<1>4. f \in 1..(Len(c) + 1) /\ (f <= Len(c) => c[f].node = s.join)
  <2>1. CASE at = {}
    BY <1>1, <2>1
  <2>2. CASE at # {}
    <3> HIDE DEF f
    <3> QED BY <1>1, <1>3, <2>2
  <2> QED BY <2>1, <2>2
<1>5. \A i \in 1..Len(c) : c[i].node = s.join => f <= i
  <2> TAKE i \in 1..Len(c)
  <2> HAVE c[i].node = s.join
  <2>1. i \in at
    BY <1>1
  <2> HIDE DEF f, at
  <2> QED BY <1>3, <2>1
<1> HIDE DEF f
<1>6. Len(c) + 1 - f \in Nat
  BY <1>1, <1>4
<1>7. \A i \in 1..(Len(c) + 1 - f) : c[f + i - 1].label \in Labels
  <2> TAKE i \in 1..(Len(c) + 1 - f)
  <2>1. f + i - 1 \in 1..Len(c)
    BY <1>1, <1>4
  <2>2. c[f + i - 1] \in Entries
    BY <1>1, <2>1
  <2> QED BY <2>2 DEF Entries
<1>8. LabelsFrom(c, f) \in [1..(Len(c) + 1 - f) -> Labels]
  BY <1>7 DEF LabelsFrom
<1>9. LabelsFrom(c, f) \in Seq(Labels) /\ Len(LabelsFrom(c, f)) = Len(c) + 1 - f
  BY <1>6, <1>8
<1> QED BY <1>2, <1>4, <1>5, <1>9 DEF c

LEMMA TemplateType ==
  ASSUME NEW s \in Searches
  PROVE  GetTemplate(s) \in Seq(Positions)
BY TemplateIs, ChosenFacts

(* The template getTemplate makes of a cycle has positions of edges of the *)
(* graph only; and if each position is of one thread, it has none twice.   *)
THEOREM TemplateFacts ==
  ASSUME NEW s \in Searches, NEW R, Sane(R, s)
  PROVE  /\ \A p \in Elements(GetTemplate(s)) : \E x : <<x, p>> \in R
         /\ (\A x, y, p : <<x, p>> \in R /\ <<y, p>> \in R => x = y) => Distinct(GetTemplate(s))
<1> DEFINE c == s.cycle
<1>1. c \in Seq(Entries) /\ Len(c) \in Nat
  BY DEF Searches
<1>2. PICK f \in 1..(Len(c) + 1) :
        /\ f <= Len(c) => c[f].node = s.join
        /\ LabelsFrom(c, f) \in Seq(Labels)
        /\ Len(LabelsFrom(c, f)) = Len(c) + 1 - f
        /\ GetTemplate(s) = Chosen(LabelsFrom(c, f), Positions)
  BY TemplateIs
<1> DEFINE ls == LabelsFrom(c, f)
           n == Len(c) + 1 - f
           Goal(i) == IF f + i - 1 = Len(c) THEN c[f].node ELSE c[f + i].node
<1> HIDE DEF c
<1>3. n \in Nat /\ DOMAIN ls = 1..n
  BY <1>1, <1>2
<1>4. \A i \in 1..n : ls[i] = c[f + i - 1].label
  BY DEF LabelsFrom
<1>5. n # 0 => s.join # NULL /\ c[f].node = s.join
  <2>1. n # 0 => f \in 1..Len(c)
    BY <1>1, <1>2
  <2>2. n # 0 => c[f] \in Entries
    BY <1>1, <2>1
  <2>3. n # 0 => c[f].node \in Nodes
    BY <2>2 DEF Entries
  <2> QED BY <1>2, <2>1, <2>3, NodeFacts
<1>6. n # 0 => Way(R, c, s.join)
  BY <1>5 DEF Sane, c
<1>7. ASSUME NEW i \in 1..n PROVE Leads(R, ls[i], Goal(i))
  <2>1. f + i - 1 \in 1..Len(c)
    BY <1>1, <1>2
  <2>2. CASE f + i - 1 = Len(c)
    BY <1>4, <1>5, <1>6, <2>1, <2>2 DEF Way
  <2>3. CASE f + i - 1 # Len(c)
    <3>1. f + i - 1 + 1 = f + i
      BY <1>2
    <3>2. Leads(R, c[f + i - 1].label, c[f + i].node)
      BY <1>6, <2>1, <2>3, <3>1 DEF Way
    <3> QED BY <1>4, <2>3, <3>2
  <2> QED BY <2>2, <2>3
<1>8. ASSUME NEW i \in 1..n, NEW j \in 1..n, Goal(i) = Goal(j) PROVE i = j
  <2>1. f + i - 1 \in 1..Len(c) /\ f + j - 1 \in 1..Len(c)
    BY <1>1, <1>2
  <2>2. \A a, b \in 1..Len(c) : c[a].node = c[b].node => a = b
    BY <1>6 DEF Way
  <2>3. PICK a \in 1..Len(c) : Goal(i) = c[a].node /\ a = IF f + i - 1 = Len(c) THEN f ELSE f + i
    <3>1. CASE f + i - 1 = Len(c)
      <4>1. f \in 1..Len(c) /\ Goal(i) = c[f].node
        BY <1>1, <1>2, <3>1
      <4> HIDE DEF Goal
      <4> QED BY <3>1, <4>1
    <3>2. CASE f + i - 1 # Len(c)
      <4>1. f + i \in 1..Len(c) /\ Goal(i) = c[f + i].node
        BY <1>1, <1>2, <2>1, <3>2
      <4> HIDE DEF Goal
      <4> QED BY <3>2, <4>1
    <3> QED BY <3>1, <3>2
  <2>4. PICK b \in 1..Len(c) : Goal(j) = c[b].node /\ b = IF f + j - 1 = Len(c) THEN f ELSE f + j
    <3>1. CASE f + j - 1 = Len(c)
      <4>1. f \in 1..Len(c) /\ Goal(j) = c[f].node
        BY <1>1, <1>2, <3>1
      <4> HIDE DEF Goal
      <4> QED BY <3>1, <4>1
    <3>2. CASE f + j - 1 # Len(c)
      <4>1. f + j \in 1..Len(c) /\ Goal(j) = c[f + j].node
        BY <1>1, <1>2, <2>1, <3>2
      <4> HIDE DEF Goal
      <4> QED BY <3>2, <4>1
    <3> QED BY <3>1, <3>2
  <2>5. a = b
    <3> HIDE DEF Goal
    <3> QED BY <1>8, <2>2, <2>3, <2>4
  <2> HIDE DEF Goal
  <2> QED BY <1>1, <1>2, <2>1, <2>3, <2>4, <2>5
<1> HIDE DEF Goal, n
<1>9. ASSUME NEW p \in Elements(GetTemplate(s)) PROVE \E x : <<x, p>> \in R
  <2>1. p \in Elements(ls) /\ p \in Positions
    BY <1>2, <1>9, ChosenFacts DEF ls
  <2>2. PICK i \in 1..n : p = ls[i]
    BY <1>3, <2>1 DEF Elements
  <2>3. Leads(R, p, Goal(i)) /\ p # NULL
    BY <1>7, <2>1, <2>2, NodeFacts
  <2> QED BY <2>3 DEF Leads
<1>10. ASSUME \A x, y, p : <<x, p>> \in R /\ <<y, p>> \in R => x = y
       PROVE  Distinct(GetTemplate(s))
  <2>1. ASSUME NEW i \in 1..n, NEW j \in 1..n, ls[i] \in Positions, ls[i] = ls[j]
        PROVE  i = j
    <3>1. <<Goal(i), ls[i]>> \in R /\ <<Goal(j), ls[i]>> \in R
      BY <1>7, <2>1, NodeFacts DEF Leads
    <3>2. Goal(i) = Goal(j)
      BY <1>10, <3>1
    <3> QED BY <1>8, <3>2
  <2>2. Len(ls) = n
    BY <1>2 DEF n
  <2> HIDE DEF ls
  <2>3. ls \in Seq(Labels) /\ GetTemplate(s) = Chosen(ls, Positions)
    BY <1>2 DEF ls
  <2> QED BY <2>1, <2>2, <2>3, ChosenFacts
<1> QED BY <1>9, <1>10

-----------------------------------------------------------------------------
(* Two threads that wait for each other *)

LabelOf(G, n) == IF n \in Monitors THEN G.acqPos[n] ELSE NULL

(* s, when the search goes on from n to the node that n waits for. *)
Onward(G, s, n) == Push(Colour(s, n, 1), n, LabelOf(G, n))

LEMMA FollowWhite ==
  ASSUME NEW V, NEW s \in Searches, NEW n \in Nodes, NEW to \in Nodes, NEW l \in Labels,
         s.colour[to] = 0
  PROVE  Follow(V, s, n, to, l) = Pop(V[<<to, Push(s, n, l)>>])
BY FollowIs

LEMMA FollowGrey ==
  ASSUME NEW V, NEW s \in Searches, NEW n \in Nodes, NEW to \in Nodes, NEW l \in Labels,
         s.colour[to] = 1
  PROVE  Follow(V, s, n, to, l) = Pop(Hit(Push(s, n, l), to))
<1>1. Push(s, n, l).colour[to] = 1
  BY PushFacts
<1> QED BY <1>1 DEF Follow

LEMMA GreyFacts ==
  ASSUME NEW s \in Searches, NEW n \in Nodes
  PROVE  /\ Colour(s, n, 1) \in Searches
         /\ Colour(s, n, 1).stack = s.stack /\ Colour(s, n, 1).join = s.join
         /\ \A x \in Nodes : Colour(s, n, 1).colour[x] = IF x = n THEN 1 ELSE s.colour[x]
<1>1. /\ Colour(s, n, 1) \in Searches
      /\ Colour(s, n, 1).stack = s.stack /\ Colour(s, n, 1).join = s.join
      /\ Colour(s, n, 1).colour = [s.colour EXCEPT ![n] = 1]
  BY ColourFacts
<1>2. s.colour \in [Nodes -> 0..2]
  BY DEF Searches
<1> QED BY <1>1, <1>2

LEMMA OnwardFacts ==
  ASSUME NEW G \in Graphs, NEW s \in Searches, NEW n \in Nodes, NEW to \in Nodes, to = G.next[n],
         NEW l, l = LabelOf(G, n)
  PROVE  /\ Onward(G, s, n) \in Searches
         /\ Onward(G, s, n).stack = Append(s.stack, Entry(n, l))
         /\ Onward(G, s, n).join = s.join
         /\ \A x \in Nodes : Onward(G, s, n).colour[x] = IF x = n THEN 1 ELSE s.colour[x]
         /\ l \in Labels
<1>1. l \in Labels
  BY NodeFacts, NextOfFacts DEF LabelOf
<1> DEFINE d == Colour(s, n, 1)
<1>2. d \in Searches /\ d.stack = s.stack /\ d.join = s.join
      /\ \A x \in Nodes : d.colour[x] = IF x = n THEN 1 ELSE s.colour[x]
  BY GreyFacts
<1>3. Onward(G, s, n) = Push(d, n, l)
  BY DEF Onward
<1> HIDE DEF d
<1>4. /\ Push(d, n, l) \in Searches
      /\ Push(d, n, l).colour = d.colour /\ Push(d, n, l).join = d.join
      /\ Push(d, n, l).stack = Append(d.stack, Entry(n, l))
  BY <1>1, <1>2, PushFacts
<1> QED BY <1>1, <1>2, <1>3, <1>4

LEMMA VisitNext ==
  ASSUME NEW G \in Graphs, NEW V, NEW s \in Searches, NEW n \in Nodes, NEW to \in Nodes, to = G.next[n],
         NEW h \in Searches, h.found,
         Follow(V, Colour(s, n, 1), n, to, LabelOf(G, n)) = Pop(h)
  PROVE  /\ Visit(V, G, n, s).found
         /\ Visit(V, G, n, s).cycle = h.cycle /\ Visit(V, G, n, s).join = h.join
<1>1. Pop(h).found /\ Pop(h).cycle = h.cycle /\ Pop(h).join = h.join
  BY DEF Pop, Searches
<1>2. FollowNext(V, G, Colour(s, n, 1), n) = Pop(h)
  BY DEF FollowNext, LabelOf
<1>3. G.next[n] # NULL
  BY NodeFacts
<1>4. Visit(V, G, n, s) = Pop(h)
  BY <1>1, <1>2, <1>3 DEF Visit
<1> QED BY <1>1, <1>4

(* A cycle found further on is found. *)
LEMMA FoundFurther ==
  ASSUME NEW G \in Graphs, NEW V, NEW s \in Searches, NEW n \in Nodes,
         G.next[n] \in Nodes, s.colour[G.next[n]] = 0, G.next[n] # n,
         V[<<G.next[n], Onward(G, s, n)>>] \in Searches, V[<<G.next[n], Onward(G, s, n)>>].found
  PROVE  /\ Visit(V, G, n, s).found
         /\ Visit(V, G, n, s).cycle = V[<<G.next[n], Onward(G, s, n)>>].cycle
         /\ Visit(V, G, n, s).join = V[<<G.next[n], Onward(G, s, n)>>].join
<1> DEFINE d == Colour(s, n, 1)
           l == LabelOf(G, n)
<1>0. PICK to, r : to = G.next[n] /\ r = V[<<to, Onward(G, s, n)>>]
  OBVIOUS
<1>1. l \in Labels /\ to \in Nodes /\ r \in Searches /\ r.found
  BY <1>0, OnwardFacts
<1>2. d \in Searches /\ d.colour[to] = 0
  BY <1>0, GreyFacts
<1>3. r = V[<<to, Push(d, n, l)>>]
  BY <1>0 DEF Onward
<1>4. Follow(V, d, n, to, l) = Pop(r)
  <2> HIDE DEF d, l
  <2> QED BY <1>1, <1>2, <1>3, FollowWhite
<1>5. /\ Visit(V, G, n, s).found
      /\ Visit(V, G, n, s).cycle = r.cycle /\ Visit(V, G, n, s).join = r.join
  BY <1>0, <1>1, <1>4, VisitNext
<1> QED BY <1>0, <1>5

(* A node that leads to one on the way closes the cycle. *)
LEMMA FoundHere ==
  ASSUME NEW G \in Graphs, NEW V, NEW s \in Searches, NEW n \in Nodes,
         NEW to \in Nodes, to = G.next[n], s.colour[to] = 1, to # n, s.join = NULL,
         NEW l, l = LabelOf(G, n)
  PROVE  /\ Visit(V, G, n, s).found
         /\ Visit(V, G, n, s).cycle = Append(s.stack, Entry(n, l))
         /\ Visit(V, G, n, s).join = to
<1> DEFINE d == Colour(s, n, 1)
           q == Onward(G, s, n)
           h == Hit(q, to)
<1>1. q \in Searches /\ q.stack = Append(s.stack, Entry(n, l)) /\ q.join = NULL /\ l \in Labels
  BY OnwardFacts
<1>2. d \in Searches /\ d.colour[to] = 1
  BY GreyFacts
<1>3. q = Push(d, n, l)
  BY DEF Onward
<1>4. Follow(V, d, n, to, l) = Pop(Hit(Push(d, n, l), to))
  <2> HIDE DEF d
  <2> QED BY <1>1, <1>2, FollowGrey
<1>5. Follow(V, d, n, to, LabelOf(G, n)) = Pop(h)
  BY <1>3, <1>4
<1> HIDE DEF q
<1>6. h \in Searches /\ h.found /\ h.cycle = q.stack /\ h.join = to
  BY <1>1, HitFacts
<1> HIDE DEF h
<1>7. /\ Visit(V, G, n, s).found
      /\ Visit(V, G, n, s).cycle = h.cycle /\ Visit(V, G, n, s).join = h.join
  BY <1>5, <1>6, VisitNext
<1> QED BY <1>1, <1>6, <1>7

(* t waits for m, whose holder u waits for o, which t holds. *)
Crossed(G, t, m, u, o) ==
  /\ t \in Threads /\ u \in Threads /\ m \in Monitors /\ o \in Monitors /\ t # u /\ m # o
  /\ G.next[t] = m /\ G.next[m] = u /\ G.next[u] = o /\ G.next[o] = t

LEMMA CrossedIsFound ==
  ASSUME NEW G \in Graphs, NEW t, NEW m, NEW u, NEW o, Crossed(G, t, m, u, o)
  PROVE  LET s == HasCycles(G, t)
             c == s.cycle
         IN  /\ s.found /\ s.join = t /\ Len(c) = 4
             /\ c[1] = Entry(t, NULL) /\ c[2] = Entry(m, G.acqPos[m])
             /\ c[3] = Entry(u, NULL) /\ c[4] = Entry(o, G.acqPos[o])
<1>1. PICK V : /\ \A n \in Nodes, s \in Searches : V[<<n, s>>] = Visit(V, G, n, s)
               /\ \A n \in Nodes, s \in Searches : From(V[<<n, s>>], s)
               /\ \A first : HasCycles(G, first) = V[<<first, NewSearch>>]
  BY SearchIsDefined
<1>2. /\ t \in Nodes /\ m \in Nodes /\ u \in Nodes /\ o \in Nodes
      /\ t # m /\ t # u /\ t # o /\ m # u /\ m # o /\ u # o
      /\ t # NULL /\ m # NULL /\ u # NULL /\ o # NULL
      /\ t \notin Monitors /\ u \notin Monitors
      /\ m \in Monitors /\ o \in Monitors
  BY NodeFacts DEF Crossed
<1>3. /\ G.next[t] = m /\ G.next[m] = u /\ G.next[u] = o /\ G.next[o] = t
  BY DEF Crossed
<1>4. /\ LabelOf(G, t) = NULL /\ LabelOf(G, u) = NULL
      /\ LabelOf(G, m) = G.acqPos[m] /\ LabelOf(G, o) = G.acqPos[o]
  BY <1>2 DEF LabelOf
<1>5. PICK s0 : s0 = NewSearch
  OBVIOUS
<1>6. /\ s0 \in Searches /\ s0.stack = <<>> /\ s0.join = NULL
      /\ \A n \in Nodes : s0.colour[n] = 0
  BY <1>5, NewSearchFacts
<1>7. PICK s1 : s1 = Onward(G, s0, t)
  OBVIOUS
<1>8. /\ s1 \in Searches /\ s1.stack = Append(s0.stack, Entry(t, NULL)) /\ s1.join = s0.join
      /\ \A x \in Nodes : s1.colour[x] = IF x = t THEN 1 ELSE s0.colour[x]
  BY <1>2, <1>3, <1>4, <1>6, <1>7, OnwardFacts
<1>9. PICK s2 : s2 = Onward(G, s1, m)
  OBVIOUS
<1>10. /\ s2 \in Searches /\ s2.stack = Append(s1.stack, Entry(m, G.acqPos[m])) /\ s2.join = s1.join
       /\ \A x \in Nodes : s2.colour[x] = IF x = m THEN 1 ELSE s1.colour[x]
  BY <1>2, <1>3, <1>4, <1>8, <1>9, OnwardFacts
<1>11. PICK s3 : s3 = Onward(G, s2, u)
  OBVIOUS
<1>12. /\ s3 \in Searches /\ s3.stack = Append(s2.stack, Entry(u, NULL)) /\ s3.join = s2.join
       /\ \A x \in Nodes : s3.colour[x] = IF x = u THEN 1 ELSE s2.colour[x]
  BY <1>2, <1>3, <1>4, <1>10, <1>11, OnwardFacts
<1>13. s0.colour[m] = 0 /\ s1.colour[u] = 0 /\ s2.colour[o] = 0 /\ s3.colour[t] = 1
  BY <1>2, <1>6, <1>8, <1>10, <1>12
<1>14. PICK r3 : r3 = V[<<o, s3>>]
  OBVIOUS
<1>15. r3 \in Searches /\ r3 = Visit(V, G, o, s3)
  BY <1>1, <1>2, <1>12, <1>14 DEF From
<1>16. r3.found /\ r3.join = t /\ r3.cycle = Append(s3.stack, Entry(o, G.acqPos[o]))
  <2>1. t \in Nodes /\ t = G.next[o] /\ s3.colour[t] = 1 /\ t # o /\ s3.join = NULL
        /\ G.acqPos[o] = LabelOf(G, o)
    BY <1>2, <1>3, <1>4, <1>6, <1>8, <1>10, <1>12, <1>13
  <2>2. /\ Visit(V, G, o, s3).found /\ Visit(V, G, o, s3).join = t
        /\ Visit(V, G, o, s3).cycle = Append(s3.stack, Entry(o, G.acqPos[o]))
    <3>1. o \in Nodes /\ s3 \in Searches
      BY <1>2, <1>12
    <3> QED BY <2>1, <3>1, FoundHere
  <2> QED BY <1>15, <2>2
<1>17. PICK r2 : r2 = V[<<u, s2>>]
  OBVIOUS
<1>18. r2 \in Searches /\ r2 = Visit(V, G, u, s2)
  BY <1>1, <1>2, <1>10, <1>17 DEF From
<1>19. r2.found /\ r2.join = r3.join /\ r2.cycle = r3.cycle
  <2>1. o \in Nodes /\ o = G.next[u] /\ s2.colour[o] = 0 /\ o # u
        /\ r3 = V[<<o, Onward(G, s2, u)>>] /\ r3 \in Searches /\ r3.found
    BY <1>2, <1>3, <1>11, <1>13, <1>14, <1>15, <1>16, <1>18
  <2>2. u \in Nodes /\ s2 \in Searches
    BY <1>2, <1>10
  <2>3. /\ G.next[u] \in Nodes /\ s2.colour[G.next[u]] = 0 /\ G.next[u] # u
        /\ V[<<G.next[u], Onward(G, s2, u)>>] \in Searches
        /\ V[<<G.next[u], Onward(G, s2, u)>>].found
    BY <2>1
  <2>4. /\ Visit(V, G, u, s2).found
        /\ Visit(V, G, u, s2).cycle = V[<<G.next[u], Onward(G, s2, u)>>].cycle
        /\ Visit(V, G, u, s2).join = V[<<G.next[u], Onward(G, s2, u)>>].join
    BY <2>2, <2>3, FoundFurther
  <2> QED BY <2>1, <2>4, <1>11, <1>13, <1>14, <1>15, <1>16, <1>18
<1>20. PICK r1 : r1 = V[<<m, s1>>]
  OBVIOUS
<1>21. r1 \in Searches /\ r1 = Visit(V, G, m, s1)
  BY <1>1, <1>2, <1>8, <1>20 DEF From
<1>22. r1.found /\ r1.join = r2.join /\ r1.cycle = r2.cycle
  <2>1. u \in Nodes /\ u = G.next[m] /\ s1.colour[u] = 0 /\ u # m
        /\ r2 = V[<<u, Onward(G, s1, m)>>] /\ r2 \in Searches /\ r2.found
    BY <1>2, <1>3, <1>9, <1>13, <1>17, <1>18, <1>19, <1>21
  <2>2. m \in Nodes /\ s1 \in Searches
    BY <1>2, <1>8
  <2>3. /\ G.next[m] \in Nodes /\ s1.colour[G.next[m]] = 0 /\ G.next[m] # m
        /\ V[<<G.next[m], Onward(G, s1, m)>>] \in Searches
        /\ V[<<G.next[m], Onward(G, s1, m)>>].found
    BY <2>1
  <2>4. /\ Visit(V, G, m, s1).found
        /\ Visit(V, G, m, s1).cycle = V[<<G.next[m], Onward(G, s1, m)>>].cycle
        /\ Visit(V, G, m, s1).join = V[<<G.next[m], Onward(G, s1, m)>>].join
    BY <2>2, <2>3, FoundFurther
  <2> QED BY <2>1, <2>4, <1>9, <1>13, <1>17, <1>18, <1>19, <1>21
<1>23. PICK r0 : r0 = V[<<t, s0>>]
  OBVIOUS
<1>24. r0 = Visit(V, G, t, s0)
  BY <1>1, <1>2, <1>6, <1>23
<1>25. r0.found /\ r0.join = r1.join /\ r0.cycle = r1.cycle
  <2>1. m \in Nodes /\ m = G.next[t] /\ s0.colour[m] = 0 /\ m # t
        /\ r1 = V[<<m, Onward(G, s0, t)>>] /\ r1 \in Searches /\ r1.found
    BY <1>2, <1>3, <1>7, <1>13, <1>20, <1>21, <1>22, <1>24
  <2>2. t \in Nodes /\ s0 \in Searches
    BY <1>2, <1>6
  <2>3. /\ G.next[t] \in Nodes /\ s0.colour[G.next[t]] = 0 /\ G.next[t] # t
        /\ V[<<G.next[t], Onward(G, s0, t)>>] \in Searches
        /\ V[<<G.next[t], Onward(G, s0, t)>>].found
    BY <2>1
  <2>4. /\ Visit(V, G, t, s0).found
        /\ Visit(V, G, t, s0).cycle = V[<<G.next[t], Onward(G, s0, t)>>].cycle
        /\ Visit(V, G, t, s0).join = V[<<G.next[t], Onward(G, s0, t)>>].join
    BY <2>2, <2>3, FoundFurther
  <2> QED BY <2>1, <2>4, <1>7, <1>13, <1>20, <1>21, <1>22, <1>24
<1>26. /\ Len(r3.cycle) = 4
       /\ r3.cycle[1] = Entry(t, NULL) /\ r3.cycle[2] = Entry(m, G.acqPos[m])
       /\ r3.cycle[3] = Entry(u, NULL) /\ r3.cycle[4] = Entry(o, G.acqPos[o])
  <2>1. PICK a, b, c, d : /\ a = Entry(t, NULL) /\ b = Entry(m, G.acqPos[m])
                          /\ c = Entry(u, NULL) /\ d = Entry(o, G.acqPos[o])
    OBVIOUS
  <2>2. /\ s0.stack \in Seq(Entries) /\ s1.stack \in Seq(Entries) /\ s2.stack \in Seq(Entries)
        /\ s3.stack \in Seq(Entries) /\ Len(s0.stack) = 0
    BY <1>6, <1>8, <1>10, <1>12 DEF Searches
  <2>3. a \in Entries /\ b \in Entries /\ c \in Entries /\ d \in Entries
    BY <1>2, <1>4, <2>1, NextOfFacts, <1>3 DEF Entry, Entries, Labels, Graphs
  <2>4. Len(s1.stack) = 1 /\ s1.stack[1] = a
    BY <1>8, <2>1, <2>2, <2>3, AppendFirst
  <2>5. Len(s2.stack) = 2 /\ s2.stack[1] = a /\ s2.stack[2] = b
    BY <1>10, <2>1, <2>2, <2>3, <2>4, AppendSecond
  <2>6. Len(s3.stack) = 3 /\ s3.stack[1] = a /\ s3.stack[2] = b /\ s3.stack[3] = c
    <3>1. s3.stack = Append(s2.stack, c) /\ Len(s2.stack) = 2
      BY <1>12, <2>1, <2>5
    <3>2. PICK x, y : x = s2.stack /\ y = s3.stack
      OBVIOUS
    <3>3. x \in Seq(Entries) /\ c \in Entries /\ Len(x) = 2 /\ y = Append(x, c)
      BY <2>2, <2>3, <3>1, <3>2
    <3>4. Len(y) = 3 /\ y[3] = c /\ y[1] = x[1] /\ y[2] = x[2]
      BY <3>3, AppendThird
    <3> QED BY <2>5, <3>2, <3>4
  <2>7. /\ Len(r3.cycle) = 4
        /\ r3.cycle[1] = a /\ r3.cycle[2] = b /\ r3.cycle[3] = c /\ r3.cycle[4] = d
    <3>1. r3.cycle = Append(s3.stack, d) /\ Len(s3.stack) = 3
      BY <1>16, <2>1, <2>6
    <3>2. PICK x, y : x = s3.stack /\ y = r3.cycle
      OBVIOUS
    <3>3. x \in Seq(Entries) /\ d \in Entries /\ Len(x) = 3 /\ y = Append(x, d)
      BY <2>2, <2>3, <3>1, <3>2
    <3>4. Len(y) = 4 /\ y[4] = d /\ y[1] = x[1] /\ y[2] = x[2] /\ y[3] = x[3]
      BY <3>3, AppendFourth
    <3> QED BY <2>6, <3>2, <3>4
  <2> QED BY <2>1, <2>7
<1>27. HasCycles(G, t) = r0
  BY <1>1, <1>5, <1>23
<1> QED BY <1>16, <1>19, <1>22, <1>25, <1>26, <1>27

(* When two threads have each what the other asks for, hasCycles finds the *)
(* cycle from either, whatever yields edges the graph has, and getTemplate *)
(* makes the template of the positions of the two monitors.                *)
THEOREM CrossedTemplate ==
  ASSUME NEW G \in Graphs, NEW t, NEW m, NEW u, NEW o, Crossed(G, t, m, u, o),
         G.acqPos[m] \in Positions, G.acqPos[o] \in Positions
  PROVE  /\ HasCycles(G, t).found
         /\ GetTemplate(HasCycles(G, t)) = <<G.acqPos[m], G.acqPos[o]>>
<1>1. PICK s : s = HasCycles(G, t)
  OBVIOUS
<1>2. PICK a, b : a = G.acqPos[m] /\ b = G.acqPos[o]
  OBVIOUS
<1>3. /\ s.found /\ s.join = t /\ Len(s.cycle) = 4
      /\ s.cycle[1] = Entry(t, NULL) /\ s.cycle[2] = Entry(m, a)
      /\ s.cycle[3] = Entry(u, NULL) /\ s.cycle[4] = Entry(o, b)
  BY <1>1, <1>2, CrossedIsFound
<1>4. s \in Searches
  BY <1>1, HasCyclesFacts, NodeFacts DEF Crossed
<1>5. PICK c : c = s.cycle
  OBVIOUS
<1>6. /\ Len(c) = 4 /\ c[1].node = t
      /\ c[1].label = NULL /\ c[2].label = a /\ c[3].label = NULL /\ c[4].label = b
  BY <1>3, <1>5 DEF Entry
<1>7. PICK f \in 1..(Len(c) + 1) :
        /\ LabelsFrom(c, f) \in Seq(Labels)
        /\ Len(LabelsFrom(c, f)) = Len(c) + 1 - f
        /\ GetTemplate(s) = Chosen(LabelsFrom(c, f), Positions)
        /\ \A i \in 1..Len(c) : c[i].node = s.join => f <= i
  BY <1>4, <1>5, TemplateIs
<1>8. f = 1
  BY <1>3, <1>6, <1>7
<1>9. PICK ls : ls = LabelsFrom(c, 1)
  OBVIOUS
<1>10. ls \in Seq(Labels) /\ Len(ls) = 4
  BY <1>6, <1>7, <1>8, <1>9
<1>11. ls[1] = NULL /\ ls[2] = a /\ ls[3] = NULL /\ ls[4] = b
  BY <1>6, <1>9 DEF LabelsFrom
<1>12. PICK rest :
         /\ rest[0] = <<>>
         /\ \A i \in 1..Len(ls) :
              rest[i] = IF ls[i] \in Positions THEN Append(rest[i - 1], ls[i]) ELSE rest[i - 1]
         /\ Chosen(ls, Positions) = rest[Len(ls)]
  BY <1>10, ChosenIs
<1>13. a \in Positions /\ b \in Positions /\ NULL \notin Positions
  BY <1>2, NodeFacts
<1>14. \A i \in 1..4 : rest[i] = IF ls[i] \in Positions THEN Append(rest[i - 1], ls[i]) ELSE rest[i - 1]
  BY <1>10, <1>12
<1>15. rest[1] = <<>>
  BY <1>11, <1>12, <1>13, <1>14
<1>16. rest[2] = Append(<<>>, a)
  <2>1. ls[2] \in Positions /\ 2 - 1 = 1 /\ 2 \in 1..4
    BY <1>11, <1>13
  <2>2. rest[2] = IF ls[2] \in Positions THEN Append(rest[2 - 1], ls[2]) ELSE rest[2 - 1]
    BY <1>14, <2>1, Zenon
  <2> QED BY <1>11, <1>15, <2>1, <2>2
<1>17. rest[3] = Append(<<>>, a)
  <2>1. ls[3] \notin Positions /\ 3 - 1 = 2
    BY <1>11, <1>13
  <2>2. rest[3] = rest[3 - 1]
    BY <1>14, <2>1
  <2> QED BY <1>16, <2>1, <2>2
<1>18. rest[4] = Append(Append(<<>>, a), b)
  <2>1. ls[4] \in Positions /\ 4 - 1 = 3 /\ 4 \in 1..4
    BY <1>11, <1>13
  <2>2. rest[4] = IF ls[4] \in Positions THEN Append(rest[4 - 1], ls[4]) ELSE rest[4 - 1]
    BY <1>14, <2>1, Zenon
  <2> QED BY <1>11, <1>17, <2>1, <2>2
<1>19. GetTemplate(s) = Append(Append(<<>>, a), b)
  BY <1>7, <1>8, <1>9, <1>10, <1>12, <1>18
<1>20. Append(Append(<<>>, a), b) = <<a, b>>
  <2>1. <<>> \in Seq(Positions) /\ Len(<<>>) = 0
    OBVIOUS
  <2>2. PICK x : x = Append(<<>>, a)
    OBVIOUS
  <2>3. x \in Seq(Positions) /\ Len(x) = 1 /\ x[1] = a
    BY <1>13, <2>1, <2>2, AppendFirst
  <2>4. PICK y : y = Append(x, b)
    OBVIOUS
  <2>5. y \in Seq(Positions) /\ Len(y) = 2 /\ y[1] = a /\ y[2] = b
    BY <1>13, <2>3, <2>4, AppendSecond
  <2> QED BY <1>13, <2>2, <2>4, <2>5, PairIs
<1> QED BY <1>1, <1>2, <1>3, <1>19, <1>20
=============================================================================
