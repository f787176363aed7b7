---------------------------- MODULE SearchProofs ----------------------------
(***************************************************************************)
(* What the searches of the graph return, for any number of threads and    *)
(* mutexes and any graph.                                                  *)
(*                                                                         *)
(* A visit is a function of its calls that calls itself.  It has a value,  *)
(* because a call makes a vertex leave the colours that are still to be    *)
(* visited (Of) or goes on to the next edge of its own: a number falls with *)
(* every call (Ranked), and a recursion along which a number falls has a   *)
(* solution (Recursion).  The same order proves what every call keeps:     *)
(* that the edges it collects are edges of the graph (From), and that      *)
(* has_cycle collects a path that is closed when it reports (Found), and   *)
(* that vertices from which it finds nothing lead to no circle (Settled).  *)
(***************************************************************************)
EXTENDS Detection, ReplayProofs

-----------------------------------------------------------------------------
(* Recursion *)

(* What step i hands on from i - 1, it reaches from 0. *)
LEMMA StepByStep ==
  ASSUME NEW n \in Nat, NEW S, 0 \in S, \A i \in 1..n : i - 1 \in S => i \in S
  PROVE  \A i \in 0..n : i \in S
<1> SUFFICES ASSUME NEW k \in 0..n, k \notin S PROVE FALSE
  OBVIOUS
<1>1. PICK m \in {i \in 0..n : i \notin S} : \A j \in {i \in 0..n : i \notin S} : m <= j
  <2>1. {i \in 0..n : i \notin S} \in SUBSET Nat /\ k \in {i \in 0..n : i \notin S}
    OBVIOUS
  <2> QED BY <2>1, LeastNat
<1>2. m # 0
  BY <1>1
<1>3. m \in 1..n /\ m - 1 \in 0..n /\ ~ (m <= m - 1)
  BY <1>1, <1>2
<1>4. m - 1 \in S
  BY <1>1, <1>3
<1> QED BY <1>1, <1>3, <1>4

(* A function of 0..n given by its first value and what is made of one.    *)
Runs(n, R, first, H) == n \in Nat /\ first \in R /\ H \in [(1..n) \X R -> R]

LEMMA RunIs ==
  ASSUME NEW n, NEW R, NEW first, NEW H, Runs(n, R, first, H)
  PROVE  \E run \in [0..n -> R] :
           run = [i \in 0..n |-> IF i = 0 THEN first ELSE H[<<i, run[i - 1]>>]]
<1> USE DEF Runs
<1> DEFINE Defined(k) ==
      \E run \in [0..k -> R] :
        run = [i \in 0..k |-> IF i = 0 THEN first ELSE H[<<i, run[i - 1]>>]]
           S == {k \in 0..n : Defined(k)}
<1>1. Defined(0)
  <2>1. PICK r : r = [i \in 0..0 |-> first]
    OBVIOUS
  <2>2. r \in [0..0 -> R] /\ r = [i \in 0..0 |-> IF i = 0 THEN first ELSE H[<<i, r[i - 1]>>]]
    BY <2>1
  <2> QED BY <2>2
<1>2. ASSUME NEW m \in 1..n, Defined(m - 1) PROVE Defined(m)
  <2>1. PICK r \in [0..(m - 1) -> R] :
          r = [i \in 0..(m - 1) |-> IF i = 0 THEN first ELSE H[<<i, r[i - 1]>>]]
    BY <1>2
  <2>2. PICK q : q = [i \in 0..m |-> IF i < m THEN r[i] ELSE H[<<m, r[m - 1]>>]]
    OBVIOUS
  <2>3. m - 1 \in 0..(m - 1) /\ H[<<m, r[m - 1]>>] \in R
    OBVIOUS
  <2>4. \A i \in 0..m : i < m => i \in 0..(m - 1)
    OBVIOUS
  <2>5. q \in [0..m -> R]
    BY <2>2, <2>3, <2>4
  <2>6. ASSUME NEW i \in 0..m PROVE q[i] = IF i = 0 THEN first ELSE H[<<i, q[i - 1]>>]
    <3>1. CASE i = m
      <4>1. q[m] = H[<<m, r[m - 1]>>] /\ q[m - 1] = r[m - 1] /\ m # 0
        BY <2>2
      <4> QED BY <3>1, <4>1
    <3>2. CASE i # m
      <4>1. i \in 0..(m - 1) /\ i < m /\ q[i] = r[i] /\ (i # 0 => q[i - 1] = r[i - 1])
        BY <2>2, <3>2
      <4>2. r[i] = IF i = 0 THEN first ELSE H[<<i, r[i - 1]>>]
        BY <2>1, <4>1
      <4> QED BY <4>1, <4>2
    <3> QED BY <3>1, <3>2
  <2>7. q = [i \in 0..m |-> IF i = 0 THEN first ELSE H[<<i, q[i - 1]>>]]
    BY <2>5, <2>6
  <2> QED BY <2>5, <2>7
<1> HIDE DEF Defined
<1>3. 0 \in S /\ \A i \in 1..n : i - 1 \in S => i \in S
  BY <1>1, <1>2
<1> HIDE DEF S
<1>4. n \in S
  BY <1>3, StepByStep
<1>5. Defined(n)
  BY <1>4 DEF S
<1> QED BY <1>5 DEF Defined

(* What holds of a call if it does of those of lower rank. *)
LEMMA ByRank ==
  ASSUME NEW D, NEW w \in [D -> Nat], NEW P,
         \A c \in D : (\A d \in D : w[d] < w[c] => d \in P) => c \in P
  PROVE  D \subseteq P
<1> SUFFICES ASSUME NEW c \in D, c \notin P PROVE FALSE
  OBVIOUS
<1> DEFINE S == {w[d] : d \in D \ P}
<1>1. PICK m \in S : \A k \in S : m <= k
  <2>1. S \in SUBSET Nat /\ w[c] \in S
    OBVIOUS
  <2> HIDE DEF S
  <2> QED BY <2>1, LeastNat
<1>2. PICK d \in D \ P : w[d] = m
  OBVIOUS
<1>3. ASSUME NEW e \in D, w[e] < w[d], e \notin P PROVE FALSE
  <2>1. w[e] \in S /\ w[e] \in Nat /\ w[d] \in Nat
    BY <1>3
  <2>2. m <= w[e]
    BY <1>1, <2>1
  <2> QED BY <1>2, <1>3, <2>1, <2>2
<1> QED BY <1>2, <1>3

(* B makes of a function of D that is in Fits another one, whose value at  *)
(* c depends on its values of lower rank.                                  *)
Recurs(D, w, K, R, Fits, B) ==
  /\ w \in [D -> Nat] /\ K \in Nat /\ \A c \in D : w[c] < K
  /\ Fits \in SUBSET [D -> R] /\ Fits # {} /\ B \in [Fits -> Fits]
  /\ \A f, g \in Fits, c \in D :
       (\A d \in D : w[d] < w[c] => f[d] = g[d]) => B[f][c] = B[g][c]

(* A recursion whose calls lower a rank has a solution.                    *)
LEMMA Recursion ==
  ASSUME NEW D, NEW w, NEW K, NEW R, NEW Fits, NEW B, Recurs(D, w, K, R, Fits, B)
  PROVE  \E f \in Fits : f = B[f]
<1>0. /\ w \in [D -> Nat] /\ K \in Nat /\ \A c \in D : w[c] < K
      /\ Fits \in SUBSET [D -> R] /\ B \in [Fits -> Fits]
      /\ \A f, g \in Fits, c \in D :
           (\A d \in D : w[d] < w[c] => f[d] = g[d]) => B[f][c] = B[g][c]
  BY DEF Recurs
<1>9. PICK f0 : f0 \in Fits
  BY DEF Recurs
<1> DEFINE Solves(f, k) == \A c \in D : w[c] < k => f[c] = B[f][c]
           S == {k \in 0..K : \E f \in Fits : Solves(f, k)}
<1>1. Solves(f0, 0)
  <2>1. \A c \in D : w[c] \in Nat
    BY <1>0
  <2>2. \A c \in D : ~ (w[c] < 0)
    BY <2>1
  <2> QED BY <2>2
<1>2. ASSUME NEW k \in 1..K, NEW f \in Fits, Solves(f, k - 1) PROVE B[f] \in Fits /\ Solves(B[f], k)
  <2>1. PICK g \in Fits : g = B[f]
    BY <1>0
  <2>2. ASSUME NEW c \in D, w[c] < k PROVE g[c] = B[g][c]
    <3>1. ASSUME NEW d \in D, w[d] < w[c] PROVE f[d] = g[d]
      <4>1. w[d] \in Nat /\ w[c] \in Nat
        BY <1>0
      <4>2. w[d] < k - 1
        BY <2>2, <3>1, <4>1
      <4> QED BY <1>2, <2>1, <4>2
    <3>2. B[f][c] = B[g][c]
      BY <1>0, <2>1, <3>1
    <3> QED BY <2>1, <3>2
  <2> QED BY <2>1, <2>2
<1> HIDE DEF Solves
<1>3. 0 \in S /\ \A i \in 1..K : i - 1 \in S => i \in S
  <2>1. 0 \in S
    BY <1>0, <1>1, <1>9
  <2>2. ASSUME NEW i \in 1..K, i - 1 \in S PROVE i \in S
    <3>1. PICK f \in Fits : Solves(f, i - 1)
      BY <2>2
    <3>2. B[f] \in Fits /\ Solves(B[f], i) /\ i \in 0..K
      BY <1>0, <1>2, <3>1
    <3> QED BY <3>2
  <2> QED BY <2>1, <2>2
<1> HIDE DEF S
<1>4. K \in S
  <2>1. \A i \in 0..K : i \in S
    BY ONLY <1>0, <1>3, StepByStep
  <2> QED BY <1>0, <2>1
<1>5. PICK f \in Fits : Solves(f, K)
  BY <1>4 DEF S
<1>6. \A c \in D : f[c] = B[f][c]
  BY <1>0, <1>5 DEF Solves
<1>7. f \in [D -> R] /\ B[f] \in [D -> R]
  BY <1>0
<1> QED BY <1>6, <1>7

-----------------------------------------------------------------------------
(* The states of a search *)

Searches == Search!Searches
Links == Search!Links
Calls == Search!Calls
Colours == {"WHITE", "GREY", "BLACK", "RED"}

(* The edges of the graph, each with the vertex it comes from. *)
Drawn(G) ==
  {e \in Links : \E i \in DOMAIN G.edges[e.from] : e = Search!Edge(e.from, G.edges[e.from][i])}

(* The vertices of the colours C. *)
Of(s, C) == {v \in Vertices : s.color[v] \in C}

(* State r has no more vertices of the colours C than s, and only edges of *)
(* the graph in its cycle if s has.                                        *)
From(G, C, s, r) ==
  /\ r \in Searches
  /\ Of(r, C) \subseteq Of(s, C)
  /\ s.cycle \in Seq(Drawn(G)) => r.cycle \in Seq(Drawn(G))

LEMMA FromItself ==
  ASSUME NEW G, NEW C, NEW s \in Searches
  PROVE  From(G, C, s, s)
BY DEF From

LEMMA FromTransitive ==
  ASSUME NEW G, NEW C, NEW s, NEW q, NEW r, From(G, C, s, q), From(G, C, q, r)
  PROVE  From(G, C, s, r)
BY DEF From

LEMMA SearchParts ==
  ASSUME NEW s \in Searches
  PROVE  /\ s = [color |-> s.color, cycle |-> s.cycle, kafa |-> s.kafa, kafas |-> s.kafas,
                 open |-> s.open, r |-> s.r]
         /\ s.color \in [Vertices -> Colours] /\ s.cycle \in Seq(Links)
         /\ s.kafa \in SUBSET Vertices /\ s.kafas \in Seq(Vertices)
         /\ s.open \in [Vertices -> SUBSET (Vertices \cup {NULL})] /\ s.r \in 0..2
BY DEF Searches, Search!Searches, Vertices, Colours, Links

LEMMA SearchMade ==
  ASSUME NEW color \in [Vertices -> Colours], NEW cycle \in Seq(Links),
         NEW kafa \in SUBSET Vertices, NEW kafas \in Seq(Vertices),
         NEW open \in [Vertices -> SUBSET (Vertices \cup {NULL})], NEW r \in 0..2
  PROVE  [color |-> color, cycle |-> cycle, kafa |-> kafa, kafas |-> kafas,
          open |-> open, r |-> r] \in Searches
BY DEF Searches, Search!Searches, Vertices, Colours, Links

LEMMA PaintFacts ==
  ASSUME NEW s \in Searches, NEW v \in Vertices, NEW c \in Colours
  PROVE  LET p == Search!Paint(s, v, c) IN
         /\ p \in Searches
         /\ p.color = [s.color EXCEPT ![v] = c]
         /\ p.cycle = s.cycle /\ p.kafa = s.kafa /\ p.kafas = s.kafas /\ p.open = s.open
         /\ p.r = s.r
<1>1. PICK p : p = Search!Paint(s, v, c)
  OBVIOUS
<1>2. PICK k : k = [s.color EXCEPT ![v] = c]
  OBVIOUS
<1>3. p = [color |-> k, cycle |-> s.cycle, kafa |-> s.kafa, kafas |-> s.kafas,
           open |-> s.open, r |-> s.r]
  <2>1. p = [s EXCEPT !.color = k]
    BY <1>1, <1>2 DEF Search!Paint
  <2>2. s = [color |-> s.color, cycle |-> s.cycle, kafa |-> s.kafa, kafas |-> s.kafas,
             open |-> s.open, r |-> s.r]
    BY SearchParts
  <2> QED BY <2>1, <2>2
<1>4. k \in [Vertices -> Colours]
  BY <1>2, SearchParts
<1>5. p \in Searches
  BY <1>3, <1>4, SearchParts, SearchMade
<1> QED BY <1>1, <1>2, <1>3, <1>5

LEMMA ResultFacts ==
  ASSUME NEW s \in Searches, NEW x \in 0..2
  PROVE  LET p == [s EXCEPT !.r = x] IN
         /\ p \in Searches
         /\ p.color = s.color /\ p.cycle = s.cycle /\ p.kafa = s.kafa /\ p.kafas = s.kafas
         /\ p.open = s.open /\ p.r = x
<1>1. PICK p : p = [s EXCEPT !.r = x]
  OBVIOUS
<1>3. p = [color |-> s.color, cycle |-> s.cycle, kafa |-> s.kafa, kafas |-> s.kafas,
           open |-> s.open, r |-> x]
  BY <1>1, SearchParts
<1>5. p \in Searches
  BY <1>3, SearchParts, SearchMade
<1> QED BY <1>1, <1>3, <1>5

(* An edge of the graph as a link. *)
LEMMA EdgeFacts ==
  ASSUME NEW G \in Graphs, NEW v \in Vertices, NEW i \in 1..Len(G.edges[v])
  PROVE  LET e == Search!Edge(v, G.edges[v][i]) IN
         /\ e \in Drawn(G) /\ e \in Links
         /\ e.from = v /\ e.to = G.edges[v][i].to /\ e.type = G.edges[v][i].type
         /\ e.pos = G.edges[v][i].pos
         /\ e.to \in Vertices /\ G.edges[v][i].to \in Vertices
<1>1. PICK es \in Seq(Edges) : es = G.edges[v]
  BY DEF Graphs
<1>2. i \in DOMAIN es /\ es[i] \in Edges
  BY <1>1
<1>3. PICK e : e = Search!Edge(v, es[i])
  OBVIOUS
<1>4. e = [from |-> v, to |-> es[i].to, type |-> es[i].type, pos |-> es[i].pos]
  BY <1>3 DEF Search!Edge
<1>5. /\ es[i].to \in Vertices /\ es[i].type \in EdgeTypes /\ es[i].pos \in Positions \cup {NULL}
  BY <1>2 DEF Edges, Vertices, EdgeTypes
<1>6. e \in Links
  BY <1>4, <1>5 DEF Links, Search!Links, Vertices, EdgeTypes
<1>7. e \in Drawn(G)
  <2>1. e.from = v
    BY <1>4
  <2>2. i \in DOMAIN G.edges[e.from] /\ e = Search!Edge(e.from, G.edges[e.from][i])
    BY <1>1, <1>2, <1>3, <2>1
  <2> QED BY <1>6, <2>2 DEF Drawn
<1> QED BY <1>1, <1>3, <1>4, <1>5, <1>6, <1>7

LEMMA ValueType ==
  ASSUME NEW G, NEW v \in Vertices
  PROVE  Search!Value(G, v) \in Vertices \cup {NULL}
BY DEF Search!Value

-----------------------------------------------------------------------------
(* The rank of a call *)

(* No vertex has more edges than some number. *)
LEMMA LongestList ==
  ASSUME NEW G \in Graphs, IsFiniteSet(Vertices)
  PROVE  \E M \in Nat : \A v \in Vertices : Len(G.edges[v]) <= M
<1> DEFINE Bounded(S) == \E M \in Nat : \A v \in S : Len(G.edges[v]) <= M
           Sizes == {n \in Nat : \E S \in SUBSET Vertices : Bounded(S) /\ n = Cardinality(Vertices \ S)}
<1>1. \A S \in SUBSET Vertices : IsFiniteSet(S) /\ Cardinality(S) \in Nat
  BY FS_Subset, FS_CardinalityType
<1>2. Bounded({})
  OBVIOUS
<1>3. \A v \in Vertices : Len(G.edges[v]) \in Nat
  BY DEF Graphs
<1>4. ASSUME NEW S \in SUBSET Vertices, Bounded(S), NEW v \in Vertices \ S
      PROVE  Bounded(S \cup {v})
  <2>1. PICK M \in Nat : \A u \in S : Len(G.edges[u]) <= M
    BY <1>4
  <2>2. PICK n \in Nat : n = Len(G.edges[v])
    BY <1>3
  <2>3. \A u \in S \cup {v} : Len(G.edges[u]) <= M + n
    BY <1>3, <2>1, <2>2
  <2> QED BY <2>3
<1> HIDE DEF Bounded
<1>5. PICK m \in Sizes : \A n \in Sizes : m <= n
  <2>1. Sizes \in SUBSET Nat /\ Cardinality(Vertices \ {}) \in Sizes
    BY <1>1, <1>2
  <2> HIDE DEF Sizes
  <2> QED BY <2>1, LeastNat
<1>6. PICK S \in SUBSET Vertices : Bounded(S) /\ m = Cardinality(Vertices \ S)
  OBVIOUS
<1>7. S = Vertices
  <2> SUFFICES ASSUME NEW v \in Vertices \ S PROVE FALSE
    OBVIOUS
  <2>1. Bounded(S \cup {v})
    BY <1>4, <1>6
  <2>2. (Vertices \ S) \ {v} = Vertices \ (S \cup {v})
    OBVIOUS
  <2>3. Cardinality(Vertices \ (S \cup {v})) = m - 1 /\ m \in Nat
    <3>1. PICK T : T = Vertices \ S /\ v \in T /\ IsFiniteSet(T) /\ Cardinality(T) = m
      BY <1>1, <1>6
    <3>2. Cardinality(T \ {v}) = Cardinality(T) - 1
      BY <3>1, FS_RemoveElement
    <3> QED BY <2>2, <3>1, <3>2
  <2>4. m - 1 \in Sizes
    BY <1>1, <2>1, <2>3
  <2>5. m <= m - 1
    BY <1>5, <2>4
  <2> QED BY <2>3, <2>5
<1> QED BY <1>6, <1>7 DEF Bounded

(* w gives a lower number to a call with fewer vertices of the colours C,  *)
(* and to one for the next edge.                                           *)
Lowers(G, C, w) ==
  /\ w \in [Calls -> Nat]
  /\ \A c, d \in Calls : Of(d[3], C) \subseteq Of(c[3], C) =>
       /\ Of(d[3], C) # Of(c[3], C) => w[d] < w[c]
       /\ d[1] = c[1] /\ d[2] = c[2] + 1 /\ c[2] <= Len(G.edges[c[1]]) => w[d] < w[c]

(* The number of those vertices comes first, then that of the edges left.  *)
Left(n, i) == IF i > n THEN 0 ELSE n + 1 - i

LEMMA Products ==
  ASSUME NEW a \in Nat, NEW b \in Nat, NEW c \in Nat, a < b
  PROVE  a * c + c <= b * c /\ a * c \in Nat /\ b * c \in Nat
<1>1. PICK d \in Nat : b = a + 1 + d
  <2>1. b - (a + 1) \in Nat /\ b = a + 1 + (b - (a + 1))
    OBVIOUS
  <2> QED BY <2>1
<1>2. b * c = a * c + c + d * c /\ d * c >= 0
  BY <1>1
<1> QED BY <1>2

LEMMA CallParts ==
  ASSUME NEW c \in Calls
  PROVE  c[1] \in Vertices /\ c[2] \in Nat \ {0} /\ c[3] \in Searches /\ c = <<c[1], c[2], c[3]>>
BY DEF Calls, Search!Calls, Vertices, Searches

LEMMA CallMade ==
  ASSUME NEW v \in Vertices, NEW i \in Nat \ {0}, NEW s \in Searches
  PROVE  /\ <<v, i, s>> \in Calls /\ <<v, i, s>>[1] = v /\ <<v, i, s>>[2] = i
         /\ <<v, i, s>>[3] = s
BY DEF Calls, Search!Calls, Vertices, Searches

LEMMA Ranked ==
  ASSUME NEW G \in Graphs, NEW C, IsFiniteSet(Vertices)
  PROVE  \E w, K : Lowers(G, C, w) /\ K \in Nat /\ \A c \in Calls : w[c] < K
<1>1. PICK M \in Nat : \A v \in Vertices : Len(G.edges[v]) <= M
  BY LongestList
<1> DEFINE N(c) == Cardinality(Of(c[3], C))
           L(c) == Left(Len(G.edges[c[1]]), c[2])
<1>2. PICK w : w = [c \in Calls |-> N(c) * (M + 2) + L(c)]
  OBVIOUS
<1>3. ASSUME NEW c \in Calls PROVE N(c) \in Nat /\ L(c) \in 0..M /\ Of(c[3], C) \subseteq Vertices
  <2>1. Of(c[3], C) \subseteq Vertices
    BY DEF Of
  <2>2. c[1] \in Vertices /\ c[2] \in Nat \ {0} /\ Len(G.edges[c[1]]) \in Nat
    BY CallParts DEF Graphs
  <2>3. L(c) \in 0..M
    BY <1>1, <2>2 DEF Left
  <2> QED BY <2>1, <2>3, FS_Subset, FS_CardinalityType
<1>4. \A c \in Calls : N(c) * (M + 2) \in Nat
  BY <1>3
<1>5. w \in [Calls -> Nat]
  BY <1>2, <1>3, <1>4
<1>6. ASSUME NEW c \in Calls, NEW d \in Calls, N(d) < N(c) PROVE w[d] < w[c]
  <2>1. N(d) * (M + 2) + (M + 2) <= N(c) * (M + 2)
    <3>1. N(d) \in Nat /\ N(c) \in Nat /\ M + 2 \in Nat
      BY <1>3
    <3> HIDE DEF N
    <3> QED BY <1>6, <3>1, Products
  <2>2. w[d] = N(d) * (M + 2) + L(d) /\ w[c] = N(c) * (M + 2) + L(c)
    BY <1>2
  <2> HIDE DEF N, L
  <2> QED BY <1>3, <1>4, <2>1, <2>2
<1>7. ASSUME NEW c \in Calls, NEW d \in Calls, Of(d[3], C) \subseteq Of(c[3], C) PROVE N(d) <= N(c)
  <2>1. IsFiniteSet(Of(c[3], C))
    BY <1>3, FS_Subset
  <2> QED BY <1>7, <2>1, FS_Subset
<1>8. ASSUME NEW c \in Calls, NEW d \in Calls, Of(d[3], C) \subseteq Of(c[3], C),
             Of(d[3], C) # Of(c[3], C)
      PROVE  w[d] < w[c]
  <2>1. IsFiniteSet(Of(c[3], C))
    BY <1>3, FS_Subset
  <2>2. N(d) # N(c)
    BY <1>8, <2>1, FS_Subset
  <2>3. N(d) < N(c)
    <3> HIDE DEF N
    <3> QED BY <1>3, <1>7, <1>8, <2>2
  <2> QED BY <1>6, <2>3
<1>9. ASSUME NEW c \in Calls, NEW d \in Calls, Of(d[3], C) \subseteq Of(c[3], C),
             d[1] = c[1], d[2] = c[2] + 1, c[2] <= Len(G.edges[c[1]])
      PROVE  w[d] < w[c]
  <2>1. L(d) < L(c)
    <3>1. Len(G.edges[c[1]]) \in Nat /\ c[2] \in Nat
      BY CallParts DEF Graphs
    <3> QED BY <1>9, <3>1 DEF Left
  <2>2. N(d) <= N(c)
    BY <1>7, <1>9
  <2>3. w[d] = N(d) * (M + 2) + L(d) /\ w[c] = N(c) * (M + 2) + L(c)
    BY <1>2
  <2>4. CASE N(d) = N(c)
    <3> HIDE DEF N, L
    <3> QED BY <1>3, <1>4, <2>1, <2>3, <2>4
  <2>5. CASE N(d) # N(c)
    <3>1. N(d) < N(c)
      <4> HIDE DEF N
      <4> QED BY <1>3, <2>2, <2>5
    <3> QED BY <1>6, <3>1
  <2> QED BY <2>4, <2>5
<1>10. \E K \in Nat : \A c \in Calls : w[c] < K
  <2>1. PICK n \in Nat : n = Cardinality(Vertices)
    BY FS_CardinalityType
  <2>2. PICK K \in Nat : K = n * (M + 2) + (M + 2)
    OBVIOUS
  <2>3. ASSUME NEW c \in Calls PROVE w[c] < K
    <3>1. N(c) <= n
      BY <1>3, <2>1, FS_Subset
    <3>2. w[c] = N(c) * (M + 2) + L(c)
      BY <1>2
    <3> HIDE DEF N, L
    <3>3. CASE N(c) = n
      BY <1>3, <2>2, <3>2, <3>3
    <3>4. CASE N(c) # n
      <4>1. N(c) < n
        BY <1>3, <3>1, <3>4
      <4>2. N(c) * (M + 2) + (M + 2) <= n * (M + 2) /\ n * (M + 2) \in Nat
        BY <1>3, <4>1, Products
      <4> QED BY <1>3, <1>4, <2>2, <3>2, <4>2
    <3> QED BY <3>3, <3>4
  <2> QED BY <2>3
<1>11. Lowers(G, C, w)
  BY <1>5, <1>8, <1>9 DEF Lowers
<1> QED BY <1>10, <1>11

(* Every call of lower rank keeps to its state. *)
Sound(G, C, w, f, c) == \A d \in Calls : w[d] < w[c] => From(G, C, d[3], f[d])

LEMMA LowerTarget ==
  ASSUME NEW G, NEW C, NEW w, Lowers(G, C, w), NEW v \in Vertices, NEW i \in Nat \ {0},
         NEW s \in Searches, NEW u \in Vertices, NEW q \in Searches,
         u \in Of(s, C), Of(q, C) \subseteq Of(s, C) \ {u}
  PROVE  <<u, 1, q>> \in Calls /\ w[<<u, 1, q>>] < w[<<v, i, s>>]
<1>0. /\ <<v, i, s>> \in Calls /\ <<v, i, s>>[3] = s
      /\ <<u, 1, q>> \in Calls /\ <<u, 1, q>>[3] = q
  BY CallMade
<1>1. PICK c \in Calls : c = <<v, i, s>> /\ c[3] = s
  BY <1>0
<1>2. PICK d \in Calls : d = <<u, 1, q>> /\ d[3] = q
  BY <1>0
<1>3. Of(d[3], C) \subseteq Of(c[3], C) /\ Of(d[3], C) # Of(c[3], C)
  BY <1>1, <1>2
<1> QED BY <1>1, <1>2, <1>3 DEF Lowers

LEMMA LowerNext ==
  ASSUME NEW G, NEW C, NEW w, Lowers(G, C, w), NEW v \in Vertices, NEW i \in Nat \ {0},
         i <= Len(G.edges[v]), NEW s \in Searches, NEW q, From(G, C, s, q)
  PROVE  <<v, i + 1, q>> \in Calls /\ w[<<v, i + 1, q>>] < w[<<v, i, s>>]
<1>0. PICK a : a = <<v, i, s>> /\ a \in Calls /\ a[1] = v /\ a[2] = i /\ a[3] = s
  <2>1. /\ <<v, i, s>> \in Calls /\ <<v, i, s>>[1] = v /\ <<v, i, s>>[2] = i
        /\ <<v, i, s>>[3] = s
    BY CallMade
  <2> QED BY ONLY <2>1
<1>1. PICK c \in Calls : c = <<v, i, s>> /\ c[1] = v /\ c[2] = i /\ c[3] = s
  BY <1>0
<1>2. PICK d \in Calls : d = <<v, i + 1, q>> /\ d[1] = v /\ d[2] = i + 1 /\ d[3] = q
  <2>1. i + 1 \in Nat \ {0} /\ q \in Searches
    BY DEF From
  <2>2. PICK j \in Nat \ {0} : j = i + 1
    BY <2>1
  <2>3. /\ <<v, j, q>> \in Calls /\ <<v, j, q>>[1] = v /\ <<v, j, q>>[2] = j
        /\ <<v, j, q>>[3] = q
    BY <2>1, CallMade
  <2> QED BY ONLY <2>2, <2>3
<1>3. Of(d[3], C) \subseteq Of(c[3], C)
  BY <1>1, <1>2 DEF From
<1> QED BY <1>1, <1>2, <1>3 DEF Lowers

(* The calls for the target of an edge and for the next edge are sound.    *)
LEMMA TargetSound ==
  ASSUME NEW G, NEW C, NEW w, Lowers(G, C, w), NEW v \in Vertices, NEW i \in Nat \ {0},
         NEW s \in Searches, NEW f, Sound(G, C, w, f, <<v, i, s>>),
         NEW u \in Vertices, NEW q \in Searches,
         u \in Of(s, C), Of(q, C) \subseteq Of(s, C) \ {u}
  PROVE  From(G, C, q, f[<<u, 1, q>>])
<1>1. <<u, 1, q>> \in Calls /\ w[<<u, 1, q>>] < w[<<v, i, s>>] /\ <<u, 1, q>>[3] = q
  BY LowerTarget
<1> QED BY <1>1 DEF Sound

LEMMA NextSound ==
  ASSUME NEW G, NEW C, NEW w, Lowers(G, C, w), NEW v \in Vertices, NEW i \in Nat \ {0},
         i <= Len(G.edges[v]), NEW s \in Searches,
         NEW f, Sound(G, C, w, f, <<v, i, s>>), NEW q, From(G, C, s, q)
  PROVE  From(G, C, s, f[<<v, i + 1, q>>])
<1>1. <<v, i + 1, q>> \in Calls /\ w[<<v, i + 1, q>>] < w[<<v, i, s>>] /\ <<v, i + 1, q>>[3] = q
  BY LowerNext
<1>2. From(G, C, q, f[<<v, i + 1, q>>])
  BY <1>1 DEF Sound
<1> QED BY <1>2, FromTransitive

(* Painting takes a vertex out of the colours C, or leaves it outside.     *)
LEMMA PaintFrom ==
  ASSUME NEW G, NEW C, NEW s \in Searches, NEW v \in Vertices, NEW c \in Colours, c \notin C
  PROVE  /\ From(G, C, s, Search!Paint(s, v, c))
         /\ Of(Search!Paint(s, v, c), C) = Of(s, C) \ {v}
<1>1. PICK p : p = Search!Paint(s, v, c)
  OBVIOUS
<1>2. p \in Searches /\ p.color = [s.color EXCEPT ![v] = c] /\ p.cycle = s.cycle
  BY <1>1, PaintFacts
<1>3. s.color \in [Vertices -> Colours]
  BY SearchParts
<1>4. Of(p, C) = Of(s, C) \ {v}
  BY <1>2, <1>3 DEF Of
<1> QED BY <1>1, <1>2, <1>4 DEF From

LEMMA ResultFrom ==
  ASSUME NEW G, NEW C, NEW s \in Searches, NEW x \in 0..2
  PROVE  From(G, C, s, [s EXCEPT !.r = x])
BY ResultFacts DEF From, Of

LEMMA AppendLink ==
  ASSUME NEW S, NEW c \in Seq(S), NEW e \in S
  PROVE  /\ Append(c, e) \in Seq(S) /\ Len(Append(c, e)) = Len(c) + 1
         /\ \A i \in 1..Len(c) : Append(c, e)[i] = c[i]
         /\ Append(c, e)[Len(c) + 1] = e
OBVIOUS

LEMMA CollectFacts ==
  ASSUME NEW s \in Searches, NEW e \in Links
  PROVE  LET p == Search!Collect(s, e) IN
         /\ p \in Searches
         /\ p.color = s.color /\ p.cycle = Append(s.cycle, e) /\ p.kafa = s.kafa
         /\ p.kafas = s.kafas /\ p.open = s.open /\ p.r = 1
<1>1. PICK p : p = Search!Collect(s, e)
  OBVIOUS
<1>2. PICK c : c = Append(s.cycle, e)
  OBVIOUS
<1>3. p = [color |-> s.color, cycle |-> c, kafa |-> s.kafa, kafas |-> s.kafas,
           open |-> s.open, r |-> 1]
  <2>1. p = [s EXCEPT !.cycle = c, !.r = 1]
    BY <1>1, <1>2 DEF Search!Collect
  <2>2. s = [color |-> s.color, cycle |-> s.cycle, kafa |-> s.kafa, kafas |-> s.kafas,
             open |-> s.open, r |-> s.r]
    BY SearchParts
  <2> QED BY ONLY <2>1, <2>2
<1>4. c \in Seq(Links)
  BY <1>2, SearchParts, AppendLink
<1>5. p \in Searches
  <2>1. 1 \in 0..2
    OBVIOUS
  <2> QED BY <1>3, <1>4, <2>1, SearchParts, SearchMade
<1> QED BY <1>1, <1>2, <1>3, <1>5

LEMMA CollectFrom ==
  ASSUME NEW G, NEW C, NEW s \in Searches, NEW e \in Drawn(G)
  PROVE  From(G, C, s, Search!Collect(s, e))
<1>1. e \in Links
  BY DEF Drawn
<1>2. PICK p \in Searches : /\ p = Search!Collect(s, e) /\ p.color = s.color
                            /\ p.cycle = Append(s.cycle, e)
  BY <1>1, CollectFacts
<1>3. s.cycle \in Seq(Drawn(G)) => p.cycle \in Seq(Drawn(G))
  BY <1>2, AppendLink
<1> QED BY <1>2, <1>3 DEF From, Of

-----------------------------------------------------------------------------
(* dfs_visit *)

Fresh == {"WHITE"}

LEMMA ColourNames ==
  /\ "WHITE" \in Colours /\ "GREY" \in Colours /\ "BLACK" \in Colours /\ "RED" \in Colours
  /\ "GREY" \notin Fresh /\ "BLACK" \notin Fresh /\ "RED" \notin Fresh
  /\ 0 \in 0..2 /\ 1 \in 0..2 /\ 2 \in 0..2
BY DEF Colours, Fresh

LEMMA GreyFacts ==
  ASSUME NEW G, NEW C, "GREY" \notin C, NEW s \in Searches, NEW u \in Vertices
  PROVE  LET p == Search!Paint(s, u, "GREY") IN
         p \in Searches /\ From(G, C, s, p) /\ Of(p, C) = Of(s, C) \ {u}
<1>1. PICK c \in Colours : c = "GREY" /\ c \notin C
  BY ColourNames
<1>2. /\ Search!Paint(s, u, c) \in Searches /\ From(G, C, s, Search!Paint(s, u, c))
      /\ Of(Search!Paint(s, u, c), C) = Of(s, C) \ {u}
  BY <1>1, PaintFrom DEF From
<1> QED BY <1>1, <1>2

(* Edge i of v, the visit of its target, and the cases of the loop. *)
Target(G, v, i) == Search!Edge(v, G.edges[v][i])
Below(f, s, e) == f[<<e.to, 1, Search!Paint(s, e.to, "GREY")>>]
Closes(G, e, b) == Search!Value(G, e.to) = Search!Value(G, b.cycle[1].to)

DfsCase(f, G, v, i, s, e, b, x) ==
  /\ i > Len(G.edges[v]) => x = [Search!Paint(s, v, "BLACK") EXCEPT !.r = 0]
  /\ ~ (i > Len(G.edges[v])) =>
     /\ e.type = "YIELD" \/ s.color[e.to] \in {"BLACK", "RED"} => x = f[<<v, i + 1, s>>]
     /\ e.type # "YIELD" /\ s.color[e.to] = "GREY" => x = Search!Collect(s, e)
     /\ e.type # "YIELD" /\ s.color[e.to] = "WHITE" =>
        /\ b.r = 0 => x = f[<<v, i + 1, b>>]
        /\ b.r = 1 => x = IF Closes(G, e, b) THEN [b EXCEPT !.r = 2] ELSE Search!Collect(b, e)
        /\ b.r = 2 => x = b

LEMMA DfsIs ==
  ASSUME NEW f, NEW G, NEW v, NEW i, NEW s
  PROVE  DfsCase(f, G, v, i, s, Target(G, v, i), Below(f, s, Target(G, v, i)),
                 Search!DfsLoop(f, G, v, i, s))
<1>1. PICK x : x = Search!DfsLoop(f, G, v, i, s)
  OBVIOUS
<1>2. PICK e : e = Target(G, v, i)
  OBVIOUS
<1>3. PICK b : b = Below(f, s, e)
  OBVIOUS
<1>4. CASE i > Len(G.edges[v])
  <2>1. x = [Search!Paint(s, v, "BLACK") EXCEPT !.r = 0]
    BY <1>1, <1>4 DEF Search!DfsLoop
  <2>2. DfsCase(f, G, v, i, s, e, b, x)
    BY <1>4, <2>1 DEF DfsCase
  <2> QED BY <1>1, <1>2, <1>3, <2>2
<1>5. CASE ~ (i > Len(G.edges[v]))
  <2>1. x = CASE e.type = "YIELD" \/ s.color[e.to] \in {"BLACK", "RED"} -> f[<<v, i + 1, s>>]
              [] e.type # "YIELD" /\ s.color[e.to] = "GREY" -> Search!Collect(s, e)
              [] e.type # "YIELD" /\ s.color[e.to] = "WHITE" ->
                   CASE b.r = 0 -> f[<<v, i + 1, b>>]
                     [] b.r = 1 -> IF Closes(G, e, b)
                                   THEN [b EXCEPT !.r = 2] ELSE Search!Collect(b, e)
                     [] b.r = 2 -> b
    BY <1>1, <1>2, <1>3, <1>5 DEF Search!DfsLoop, Target, Below, Closes
  <2>2. PICK y : y = CASE b.r = 0 -> f[<<v, i + 1, b>>]
                       [] b.r = 1 -> IF Closes(G, e, b)
                                     THEN [b EXCEPT !.r = 2] ELSE Search!Collect(b, e)
                       [] b.r = 2 -> b
    OBVIOUS
  <2>3. /\ b.r = 0 => y = f[<<v, i + 1, b>>]
        /\ b.r = 1 => y = IF Closes(G, e, b) THEN [b EXCEPT !.r = 2] ELSE Search!Collect(b, e)
        /\ b.r = 2 => y = b
    BY ONLY <2>2
  <2>4. x = CASE e.type = "YIELD" \/ s.color[e.to] \in {"BLACK", "RED"} -> f[<<v, i + 1, s>>]
              [] e.type # "YIELD" /\ s.color[e.to] = "GREY" -> Search!Collect(s, e)
              [] e.type # "YIELD" /\ s.color[e.to] = "WHITE" -> y
    BY ONLY <2>1, <2>2
  <2>5. /\ e.type = "YIELD" \/ s.color[e.to] \in {"BLACK", "RED"} => x = f[<<v, i + 1, s>>]
        /\ e.type # "YIELD" /\ s.color[e.to] = "GREY" => x = Search!Collect(s, e)
        /\ e.type # "YIELD" /\ s.color[e.to] = "WHITE" => x = y
    BY ONLY <2>4
  <2>6. DfsCase(f, G, v, i, s, e, b, x)
    BY ONLY <1>5, <2>3, <2>5 DEF DfsCase
  <2> QED BY <1>1, <1>2, <1>3, <2>6
<1> QED BY <1>4, <1>5

LEMMA BelowFrom ==
  ASSUME NEW G \in Graphs, NEW w, Lowers(G, Fresh, w), NEW v \in Vertices, NEW i \in Nat \ {0},
         NEW s \in Searches, NEW f, Sound(G, Fresh, w, f, <<v, i, s>>),
         i <= Len(G.edges[v]), s.color[Target(G, v, i).to] = "WHITE"
  PROVE  /\ From(G, Fresh, s, Below(f, s, Target(G, v, i)))
         /\ Below(f, s, Target(G, v, i)).r \in 0..2
<1>1. PICK e : e = Target(G, v, i) /\ e.to \in Vertices
  <2>1. i \in 1..Len(G.edges[v])
    BY DEF Graphs
  <2> QED BY <2>1, EdgeFacts DEF Target
<1>2. PICK p : p = Search!Paint(s, e.to, "GREY")
  OBVIOUS
<1>4. From(G, Fresh, s, p) /\ Of(p, Fresh) = Of(s, Fresh) \ {e.to} /\ p \in Searches
  BY <1>1, <1>2, ColourNames, GreyFacts
<1>5. e.to \in Of(s, Fresh)
  BY <1>1 DEF Of, Fresh
<1>6. From(G, Fresh, p, f[<<e.to, 1, p>>])
  BY <1>1, <1>4, <1>5, TargetSound
<1>7. From(G, Fresh, s, f[<<e.to, 1, p>>])
  BY <1>4, <1>6, FromTransitive
<1> QED BY <1>1, <1>2, <1>7, SearchParts DEF Below, From

LEMMA DfsKeeps ==
  ASSUME NEW G \in Graphs, NEW w, Lowers(G, Fresh, w), NEW v \in Vertices, NEW i \in Nat \ {0},
         NEW s \in Searches, NEW f, Sound(G, Fresh, w, f, <<v, i, s>>)
  PROVE  From(G, Fresh, s, Search!DfsLoop(f, G, v, i, s))
<1>1. PICK x : x = Search!DfsLoop(f, G, v, i, s)
  OBVIOUS
<1>2. PICK e : e = Target(G, v, i)
  OBVIOUS
<1>3. PICK b : b = Below(f, s, e)
  OBVIOUS
<1>4. Len(G.edges[v]) \in Nat
  BY DEF Graphs
<1>7. DfsCase(f, G, v, i, s, e, b, x)
  BY <1>1, <1>2, <1>3, DfsIs
<1>5. CASE i > Len(G.edges[v])
  <2>1. PICK p : p = Search!Paint(s, v, "BLACK")
    OBVIOUS
  <2>2. From(G, Fresh, s, p) /\ p \in Searches
    BY <2>1, ColourNames, PaintFrom, PaintFacts
  <2>3. From(G, Fresh, p, [p EXCEPT !.r = 0])
    BY <2>2, ColourNames, ResultFrom
  <2>4. x = [p EXCEPT !.r = 0]
    BY <1>5, <1>7, <2>1 DEF DfsCase
  <2> QED BY <1>1, <2>2, <2>3, <2>4, FromTransitive
<1>6. CASE ~ (i > Len(G.edges[v]))
  <2>1. i <= Len(G.edges[v]) /\ i \in 1..Len(G.edges[v])
    BY <1>4, <1>6
  <2>2. e \in Drawn(G) /\ e.to \in Vertices
    BY <1>2, <2>1, EdgeFacts DEF Target
  <2>3. s.color[e.to] \in Colours
    BY <2>2, SearchParts
  <2>4. CASE e.type = "YIELD" \/ s.color[e.to] \in {"BLACK", "RED"}
    <3>1. x = f[<<v, i + 1, s>>]
      BY <1>6, <1>7, <2>4 DEF DfsCase
    <3>2. From(G, Fresh, s, f[<<v, i + 1, s>>])
      BY <2>1, FromItself, NextSound
    <3> QED BY <1>1, <3>1, <3>2
  <2>5. CASE e.type # "YIELD" /\ s.color[e.to] = "GREY"
    <3>1. x = Search!Collect(s, e)
      BY <1>6, <1>7, <2>5 DEF DfsCase
    <3> QED BY <1>1, <2>2, <3>1, CollectFrom
  <2>6. CASE e.type # "YIELD" /\ s.color[e.to] = "WHITE"
    <3>1. From(G, Fresh, s, b) /\ b.r \in 0..2 /\ b \in Searches
      BY <1>2, <1>3, <2>1, <2>6, BelowFrom DEF From
    <3>2. /\ b.r = 0 => x = f[<<v, i + 1, b>>]
          /\ b.r = 1 => x \in {[b EXCEPT !.r = 2], Search!Collect(b, e)}
          /\ b.r = 2 => x = b
      BY <1>6, <1>7, <2>6 DEF DfsCase
    <3>3. From(G, Fresh, s, f[<<v, i + 1, b>>])
      BY <2>1, <3>1, NextSound
    <3>4. From(G, Fresh, s, [b EXCEPT !.r = 2])
      <4>1. 2 \in 0..2
        OBVIOUS
      <4>2. From(G, Fresh, b, [b EXCEPT !.r = 2])
        BY <3>1, <4>1, ResultFrom
      <4> QED BY <3>1, <4>2, FromTransitive
    <3>5. From(G, Fresh, s, Search!Collect(b, e))
      <4>1. From(G, Fresh, b, Search!Collect(b, e))
        BY <2>2, <3>1, CollectFrom
      <4> QED BY <3>1, <4>1, FromTransitive
    <3> QED BY <1>1, <3>1, <3>2, <3>3, <3>4, <3>5
  <2> QED BY <2>3, <2>4, <2>5, <2>6 DEF Colours
<1> QED BY <1>5, <1>6

(* Calls agree if those of lower rank do. *)
Alike(w, f, h, c) == \A d \in Calls : w[d] < w[c] => f[d] = h[d]

LEMMA DfsAgrees ==
  ASSUME NEW G \in Graphs, NEW w, Lowers(G, Fresh, w), NEW v \in Vertices, NEW i \in Nat \ {0},
         NEW s \in Searches, NEW f, Sound(G, Fresh, w, f, <<v, i, s>>),
         NEW h, Alike(w, f, h, <<v, i, s>>)
  PROVE  Search!DfsLoop(f, G, v, i, s) = Search!DfsLoop(h, G, v, i, s)
<1>1. PICK x : x = Search!DfsLoop(f, G, v, i, s)
  OBVIOUS
<1>2. PICK y : y = Search!DfsLoop(h, G, v, i, s)
  OBVIOUS
<1>3. PICK e : e = Target(G, v, i)
  OBVIOUS
<1>4. Len(G.edges[v]) \in Nat
  BY DEF Graphs
<1>7. /\ DfsCase(f, G, v, i, s, e, Below(f, s, e), x)
      /\ DfsCase(h, G, v, i, s, e, Below(h, s, e), y)
  BY <1>1, <1>2, <1>3, DfsIs
<1>5. CASE i > Len(G.edges[v])
  BY <1>5 DEF Search!DfsLoop
<1>6. CASE ~ (i > Len(G.edges[v]))
  <2>1. i <= Len(G.edges[v]) /\ i \in 1..Len(G.edges[v])
    BY <1>4, <1>6
  <2>2. e \in Drawn(G) /\ e.to \in Vertices
    BY <1>3, <2>1, EdgeFacts DEF Target
  <2>3. s.color[e.to] \in Colours
    BY <2>2, SearchParts
  <2>4. ASSUME NEW q, From(G, Fresh, s, q) PROVE f[<<v, i + 1, q>>] = h[<<v, i + 1, q>>]
    BY <2>1, <2>4, LowerNext DEF Alike
  <2>5. CASE e.type = "YIELD" \/ s.color[e.to] \in {"BLACK", "RED"}
    <3>1. x = f[<<v, i + 1, s>>] /\ y = h[<<v, i + 1, s>>]
      BY <1>6, <1>7, <2>5 DEF DfsCase
    <3> QED BY <1>1, <1>2, <2>4, <3>1, FromItself
  <2>6. CASE e.type # "YIELD" /\ s.color[e.to] = "GREY"
    <3>1. x = Search!Collect(s, e) /\ y = Search!Collect(s, e)
      BY <1>6, <1>7, <2>6 DEF DfsCase
    <3> QED BY <1>1, <1>2, <3>1
  <2>7. CASE e.type # "YIELD" /\ s.color[e.to] = "WHITE"
    <3>1. PICK b : b = Below(f, s, e)
      OBVIOUS
    <3>2. From(G, Fresh, s, b) /\ b.r \in 0..2
      BY <1>3, <2>1, <2>7, <3>1, BelowFrom
    <3>3. b = Below(h, s, e)
      <4>1. PICK p : p = Search!Paint(s, e.to, "GREY")
        OBVIOUS
      <4>2. p \in Searches /\ Of(p, Fresh) = Of(s, Fresh) \ {e.to}
        BY <2>2, <4>1, ColourNames, GreyFacts
      <4>3. e.to \in Of(s, Fresh)
        BY <2>2, <2>7 DEF Of, Fresh
      <4>4. <<e.to, 1, p>> \in Calls /\ w[<<e.to, 1, p>>] < w[<<v, i, s>>]
        BY <2>2, <4>2, <4>3, LowerTarget
      <4> QED BY <3>1, <4>1, <4>4 DEF Below, Alike
    <3>4. /\ b.r = 0 => x = f[<<v, i + 1, b>>]
          /\ b.r = 1 => x = IF Closes(G, e, b) THEN [b EXCEPT !.r = 2] ELSE Search!Collect(b, e)
          /\ b.r = 2 => x = b
      BY <1>6, <1>7, <2>7, <3>1 DEF DfsCase
    <3>5. /\ b.r = 0 => y = h[<<v, i + 1, b>>]
          /\ b.r = 1 => y = IF Closes(G, e, b) THEN [b EXCEPT !.r = 2] ELSE Search!Collect(b, e)
          /\ b.r = 2 => y = b
      BY <1>6, <1>7, <2>7, <3>3 DEF DfsCase
    <3>6. f[<<v, i + 1, b>>] = h[<<v, i + 1, b>>]
      BY <2>4, <3>2
    <3> QED BY <1>1, <1>2, <3>2, <3>4, <3>5, <3>6
  <2> QED BY <2>3, <2>5, <2>6, <2>7 DEF Colours
<1> QED BY <1>5, <1>6

-----------------------------------------------------------------------------
(* visit_kafas *)

Noted(s, u) == [s EXCEPT !.kafa = @ \cup {u}, !.kafas = Append(@, u), !.r = 2]
Entered(s, u) == [Search!Paint(s, u, "GREY") EXCEPT !.r = 0]

LEMMA NotedFrom ==
  ASSUME NEW G, NEW C, NEW s \in Searches, NEW u \in Vertices
  PROVE  From(G, C, s, Noted(s, u))
<1>1. PICK x : x = Noted(s, u)
  OBVIOUS
<1>2. PICK k : k = s.kafa \cup {u}
  OBVIOUS
<1>3. PICK ks : ks = Append(s.kafas, u)
  OBVIOUS
<1>4. x = [color |-> s.color, cycle |-> s.cycle, kafa |-> k, kafas |-> ks,
           open |-> s.open, r |-> 2]
  <2>1. x = [s EXCEPT !.kafa = k, !.kafas = ks, !.r = 2]
    BY <1>1, <1>2, <1>3 DEF Noted
  <2>2. s = [color |-> s.color, cycle |-> s.cycle, kafa |-> s.kafa, kafas |-> s.kafas,
             open |-> s.open, r |-> s.r]
    BY SearchParts
  <2> QED BY ONLY <2>1, <2>2
<1>5. ks \in Seq(Vertices)
  BY <1>3, SearchParts, AppendLink
<1>6. k \in SUBSET Vertices
  BY <1>2, SearchParts
<1>7. x \in Searches
  BY <1>4, <1>5, <1>6, ColourNames, SearchParts, SearchMade
<1>8. x.color = s.color /\ x.cycle = s.cycle
  BY <1>4
<1> QED BY <1>1, <1>7, <1>8 DEF From, Of

LEMMA EnteredFrom ==
  ASSUME NEW G, NEW C, "GREY" \notin C, NEW s \in Searches, NEW u \in Vertices
  PROVE  /\ From(G, C, s, Entered(s, u)) /\ Entered(s, u) \in Searches
         /\ Of(Entered(s, u), C) = Of(s, C) \ {u}
<1>1. PICK p : p = Search!Paint(s, u, "GREY")
  OBVIOUS
<1>2. p \in Searches /\ From(G, C, s, p) /\ Of(p, C) = Of(s, C) \ {u}
  BY <1>1, GreyFacts
<1>3. PICK q : q = [p EXCEPT !.r = 0]
  OBVIOUS
<1>4. q \in Searches /\ q.color = p.color /\ From(G, C, p, q)
  BY <1>2, <1>3, ColourNames, ResultFacts, ResultFrom
<1>5. From(G, C, s, q)
  BY <1>2, <1>4, FromTransitive
<1> QED BY <1>1, <1>2, <1>3, <1>4, <1>5 DEF Entered, Of

KafasCase(f, u, s, x) ==
  /\ s.color[u] = "BLACK" => x = [s EXCEPT !.r = 0]
  /\ s.color[u] = "RED" => x = [s EXCEPT !.r = 1]
  /\ s.color[u] = "GREY" => x = IF u \in s.kafa THEN [s EXCEPT !.r = 2] ELSE Noted(s, u)
  /\ s.color[u] = "WHITE" => x = f[<<u, 1, Entered(s, u)>>]

LEMMA KafasIs ==
  ASSUME NEW f, NEW G, NEW u, NEW s
  PROVE  KafasCase(f, u, s, Search!KafasCall(f, G, u, s))
<1>1. PICK x : x = Search!KafasCall(f, G, u, s)
  OBVIOUS
<1>2. x = CASE s.color[u] = "BLACK" -> [s EXCEPT !.r = 0]
            [] s.color[u] = "RED"   -> [s EXCEPT !.r = 1]
            [] s.color[u] = "GREY"  -> IF u \in s.kafa THEN [s EXCEPT !.r = 2] ELSE Noted(s, u)
            [] s.color[u] = "WHITE" -> f[<<u, 1, Entered(s, u)>>]
  BY <1>1 DEF Search!KafasCall, Noted, Entered
<1>3. KafasCase(f, u, s, x)
  BY ONLY <1>2 DEF KafasCase
<1> QED BY <1>1, <1>3

LEMMA KafasCallFrom ==
  ASSUME NEW G \in Graphs, NEW w, Lowers(G, Fresh, w), NEW v \in Vertices, NEW i \in Nat \ {0},
         NEW s \in Searches, NEW f, Sound(G, Fresh, w, f, <<v, i, s>>), NEW u \in Vertices
  PROVE  From(G, Fresh, s, Search!KafasCall(f, G, u, s))
<1>1. PICK x : x = Search!KafasCall(f, G, u, s) /\ KafasCase(f, u, s, x)
  BY KafasIs
<1>2. s.color[u] \in Colours
  BY SearchParts
<1>3. \A y \in 0..2 : From(G, Fresh, s, [s EXCEPT !.r = y])
  BY ResultFrom
<1>4. From(G, Fresh, s, Noted(s, u))
  BY NotedFrom
<1>5. ASSUME s.color[u] = "WHITE" PROVE From(G, Fresh, s, f[<<u, 1, Entered(s, u)>>])
  <2>1. PICK p \in Searches : /\ p = Entered(s, u) /\ From(G, Fresh, s, p)
                              /\ Of(p, Fresh) = Of(s, Fresh) \ {u}
    BY ColourNames, EnteredFrom
  <2>2. u \in Of(s, Fresh)
    BY <1>5 DEF Of, Fresh
  <2>3. From(G, Fresh, p, f[<<u, 1, p>>])
    BY <2>1, <2>2, TargetSound
  <2> QED BY <2>1, <2>3, FromTransitive
<1> QED BY <1>1, <1>2, <1>3, <1>4, <1>5, ColourNames DEF KafasCase, Colours

LEMMA KafasCallAgrees ==
  ASSUME NEW G \in Graphs, NEW w, Lowers(G, Fresh, w), NEW v \in Vertices, NEW i \in Nat \ {0},
         NEW s \in Searches, NEW f, NEW h, Alike(w, f, h, <<v, i, s>>), NEW u \in Vertices
  PROVE  Search!KafasCall(f, G, u, s) = Search!KafasCall(h, G, u, s)
<1>1. PICK x : x = Search!KafasCall(f, G, u, s) /\ KafasCase(f, u, s, x)
  BY KafasIs
<1>2. PICK y : y = Search!KafasCall(h, G, u, s) /\ KafasCase(h, u, s, y)
  BY KafasIs
<1>3. s.color[u] \in Colours
  BY SearchParts
<1>4. ASSUME s.color[u] = "WHITE" PROVE f[<<u, 1, Entered(s, u)>>] = h[<<u, 1, Entered(s, u)>>]
  <2>1. PICK p \in Searches : p = Entered(s, u) /\ Of(p, Fresh) = Of(s, Fresh) \ {u}
    BY ColourNames, EnteredFrom
  <2>2. u \in Of(s, Fresh)
    BY <1>4 DEF Of, Fresh
  <2>3. <<u, 1, p>> \in Calls /\ w[<<u, 1, p>>] < w[<<v, i, s>>]
    BY <2>1, <2>2, LowerTarget
  <2> QED BY <2>1, <2>3 DEF Alike
<1> QED BY <1>1, <1>2, <1>3, <1>4 DEF KafasCase, Colours

LEMMA KafasKeeps ==
  ASSUME NEW G \in Graphs, NEW w, Lowers(G, Fresh, w), NEW v \in Vertices, NEW i \in Nat \ {0},
         NEW s \in Searches, NEW f, Sound(G, Fresh, w, f, <<v, i, s>>)
  PROVE  From(G, Fresh, s, Search!KafasLoop(f, G, v, i, s))
<1>1. Len(G.edges[v]) \in Nat
  BY DEF Graphs
<1>2. CASE i > Len(G.edges[v]) \/ (i > 1 /\ s.r = 0)
  <2>1. PICK c \in {"BLACK", "RED"} : Search!KafasLoop(f, G, v, i, s) = Search!Paint(s, v, c)
    BY <1>2 DEF Search!KafasLoop
  <2>2. c \in Colours /\ c \notin Fresh
    BY ColourNames
  <2> QED BY <2>1, <2>2, PaintFrom
<1>3. CASE ~ (i > Len(G.edges[v]) \/ (i > 1 /\ s.r = 0))
  <2>1. i <= Len(G.edges[v]) /\ i \in 1..Len(G.edges[v])
    BY <1>1, <1>3
  <2>2. PICK u : u = G.edges[v][i].to /\ u \in Vertices
    BY <2>1, EdgeFacts
  <2>3. PICK q : q = Search!KafasCall(f, G, u, s) /\ From(G, Fresh, s, q)
    BY <2>2, KafasCallFrom
  <2>4. Search!KafasLoop(f, G, v, i, s) = f[<<v, i + 1, q>>]
    BY <1>3, <2>2, <2>3 DEF Search!KafasLoop
  <2> QED BY <2>1, <2>3, <2>4, NextSound
<1> QED BY <1>2, <1>3

LEMMA KafasAgrees ==
  ASSUME NEW G \in Graphs, NEW w, Lowers(G, Fresh, w), NEW v \in Vertices, NEW i \in Nat \ {0},
         NEW s \in Searches, NEW f, Sound(G, Fresh, w, f, <<v, i, s>>),
         NEW h, Alike(w, f, h, <<v, i, s>>)
  PROVE  Search!KafasLoop(f, G, v, i, s) = Search!KafasLoop(h, G, v, i, s)
<1>1. Len(G.edges[v]) \in Nat
  BY DEF Graphs
<1>2. CASE i > Len(G.edges[v]) \/ (i > 1 /\ s.r = 0)
  BY <1>2 DEF Search!KafasLoop
<1>3. CASE ~ (i > Len(G.edges[v]) \/ (i > 1 /\ s.r = 0))
  <2>1. i <= Len(G.edges[v]) /\ i \in 1..Len(G.edges[v])
    BY <1>1, <1>3
  <2>2. PICK u : u = G.edges[v][i].to /\ u \in Vertices
    BY <2>1, EdgeFacts
  <2>3. PICK q : q = Search!KafasCall(f, G, u, s) /\ From(G, Fresh, s, q)
    BY <2>2, KafasCallFrom
  <2>4. q = Search!KafasCall(h, G, u, s)
    BY <2>2, <2>3, KafasCallAgrees
  <2>5. Search!KafasLoop(f, G, v, i, s) = f[<<v, i + 1, q>>]
    BY <1>3, <2>2, <2>3 DEF Search!KafasLoop
  <2>6. Search!KafasLoop(h, G, v, i, s) = h[<<v, i + 1, q>>]
    BY <1>3, <2>2, <2>4 DEF Search!KafasLoop
  <2>7. f[<<v, i + 1, q>>] = h[<<v, i + 1, q>>]
    BY <2>1, <2>3, LowerNext DEF Alike
  <2> QED BY <2>5, <2>6, <2>7
<1> QED BY <1>2, <1>3

-----------------------------------------------------------------------------
(* find_only_cycles *)

Ripe == {"WHITE", "BLACK"}

LEMMA RipeNames ==
  /\ "GREY" \notin Ripe /\ "RED" \notin Ripe /\ "WHITE" \in Ripe /\ "BLACK" \in Ripe
BY DEF Ripe

Opened(G, s, u) == [s EXCEPT !.kafa = @ \cup {u}, !.open[u] = @ \cup {Search!Value(G, u)}]

LEMMA OpenedFrom ==
  ASSUME NEW G, NEW C, NEW s \in Searches, NEW u \in Vertices
  PROVE  From(G, C, s, Opened(G, s, u))
<1>1. PICK x : x = Opened(G, s, u)
  OBVIOUS
<1>2. PICK k : k = s.kafa \cup {u}
  OBVIOUS
<1>3. PICK o : o = [s.open EXCEPT ![u] = @ \cup {Search!Value(G, u)}]
  OBVIOUS
<1>4. x = [color |-> s.color, cycle |-> s.cycle, kafa |-> k, kafas |-> s.kafas,
           open |-> o, r |-> s.r]
  <2>1. x = [s EXCEPT !.kafa = k, !.open = o]
    BY <1>1, <1>2, <1>3 DEF Opened
  <2>2. s = [color |-> s.color, cycle |-> s.cycle, kafa |-> s.kafa, kafas |-> s.kafas,
             open |-> s.open, r |-> s.r]
    BY SearchParts
  <2> QED BY ONLY <2>1, <2>2
<1>5. o \in [Vertices -> SUBSET (Vertices \cup {NULL})]
  BY <1>3, SearchParts, ValueType
<1>6. k \in SUBSET Vertices
  BY <1>2, SearchParts
<1>7. x \in Searches
  BY <1>4, <1>5, <1>6, SearchParts, SearchMade
<1>8. x.color = s.color /\ x.cycle = s.cycle
  BY <1>4
<1> QED BY <1>1, <1>7, <1>8 DEF From, Of

LEMMA ClosedFrom ==
  ASSUME NEW G, NEW C, NEW s \in Searches, NEW v \in Vertices, NEW e \in Drawn(G), e.to \in Vertices
  PROVE  From(G, C, s, Search!Closed(G, v, e, s))
<1>1. PICK x : x = Search!Closed(G, v, e, s)
  OBVIOUS
<1>2. PICK a : a = s.open[v] \cup s.open[e.to]
  OBVIOUS
<1>3. PICK b : b = IF v \in s.kafa THEN a \ {Search!Value(G, v)} ELSE a
  OBVIOUS
<1>4. PICK o : o = [s.open EXCEPT ![v] = b]
  OBVIOUS
<1>5. PICK c : c = IF s.open[e.to] # {} THEN Append(s.cycle, e) ELSE s.cycle
  OBVIOUS
<1>6. PICK k : k = s.kafa \ {v}
  OBVIOUS
<1>7. x = [color |-> s.color, cycle |-> c, kafa |-> k, kafas |-> s.kafas,
           open |-> o, r |-> s.r]
  <2>1. x = [s EXCEPT !.open = o, !.cycle = c, !.kafa = k]
    BY <1>1, <1>2, <1>3, <1>4, <1>5, <1>6 DEF Search!Closed
  <2>2. s = [color |-> s.color, cycle |-> s.cycle, kafa |-> s.kafa, kafas |-> s.kafas,
             open |-> s.open, r |-> s.r]
    BY SearchParts
  <2> QED BY ONLY <2>1, <2>2
<1>8. b \in SUBSET (Vertices \cup {NULL})
  BY <1>2, <1>3, SearchParts
<1>9. o \in [Vertices -> SUBSET (Vertices \cup {NULL})]
  BY <1>4, <1>8, SearchParts
<1>10. e \in Links /\ k \in SUBSET Vertices
  BY <1>6, SearchParts DEF Drawn
<1>11. c \in Seq(Links) /\ (s.cycle \in Seq(Drawn(G)) => c \in Seq(Drawn(G)))
  BY <1>5, <1>10, SearchParts, AppendLink
<1>12. x \in Searches
  BY <1>7, <1>9, <1>10, <1>11, SearchParts, SearchMade
<1>13. x.color = s.color /\ x.cycle = c
  BY <1>7
<1> QED BY <1>1, <1>11, <1>12, <1>13 DEF From, Of

CyclesCase(f, G, u, s, x) ==
  /\ s.color[u] = "GREY" => x = IF u \in s.kafa THEN s ELSE Opened(G, s, u)
  /\ s.color[u] = "RED" => x = s
  /\ s.color[u] \in Ripe => x = f[<<u, 1, Search!Paint(s, u, "GREY")>>]

LEMMA CyclesIs ==
  ASSUME NEW f, NEW G, NEW u, NEW s
  PROVE  CyclesCase(f, G, u, s, Search!CyclesCall(f, G, u, s))
<1>1. PICK x : x = Search!CyclesCall(f, G, u, s)
  OBVIOUS
<1>2. x = CASE s.color[u] = "GREY" -> IF u \in s.kafa THEN s ELSE Opened(G, s, u)
            [] s.color[u] = "RED" -> s
            [] s.color[u] \in {"WHITE", "BLACK"} -> f[<<u, 1, Search!Paint(s, u, "GREY")>>]
  BY <1>1 DEF Search!CyclesCall, Opened
<1>3. CyclesCase(f, G, u, s, x)
  BY ONLY <1>2 DEF CyclesCase, Ripe
<1> QED BY <1>1, <1>3

LEMMA CyclesCallFrom ==
  ASSUME NEW G \in Graphs, NEW w, Lowers(G, Ripe, w), NEW v \in Vertices, NEW i \in Nat \ {0},
         NEW s \in Searches, NEW f, Sound(G, Ripe, w, f, <<v, i, s>>), NEW u \in Vertices
  PROVE  From(G, Ripe, s, Search!CyclesCall(f, G, u, s))
<1>1. PICK x : x = Search!CyclesCall(f, G, u, s) /\ CyclesCase(f, G, u, s, x)
  BY CyclesIs
<1>2. s.color[u] \in Colours
  BY SearchParts
<1>3. From(G, Ripe, s, s) /\ From(G, Ripe, s, Opened(G, s, u))
  BY FromItself, OpenedFrom
<1>4. ASSUME s.color[u] \in Ripe PROVE From(G, Ripe, s, f[<<u, 1, Search!Paint(s, u, "GREY")>>])
  <2>1. PICK p \in Searches : /\ p = Search!Paint(s, u, "GREY") /\ From(G, Ripe, s, p)
                              /\ Of(p, Ripe) = Of(s, Ripe) \ {u}
    BY RipeNames, GreyFacts
  <2>2. u \in Of(s, Ripe)
    BY <1>4 DEF Of
  <2>3. From(G, Ripe, p, f[<<u, 1, p>>])
    BY <2>1, <2>2, TargetSound
  <2> QED BY <2>1, <2>3, FromTransitive
<1> QED BY <1>1, <1>2, <1>3, <1>4, RipeNames DEF CyclesCase, Colours

LEMMA CyclesCallAgrees ==
  ASSUME NEW G \in Graphs, NEW w, Lowers(G, Ripe, w), NEW v \in Vertices, NEW i \in Nat \ {0},
         NEW s \in Searches, NEW f, NEW h, Alike(w, f, h, <<v, i, s>>), NEW u \in Vertices
  PROVE  Search!CyclesCall(f, G, u, s) = Search!CyclesCall(h, G, u, s)
<1>1. PICK x : x = Search!CyclesCall(f, G, u, s) /\ CyclesCase(f, G, u, s, x)
  BY CyclesIs
<1>2. PICK y : y = Search!CyclesCall(h, G, u, s) /\ CyclesCase(h, G, u, s, y)
  BY CyclesIs
<1>3. s.color[u] \in Colours
  BY SearchParts
<1>4. ASSUME s.color[u] \in Ripe
      PROVE  f[<<u, 1, Search!Paint(s, u, "GREY")>>] = h[<<u, 1, Search!Paint(s, u, "GREY")>>]
  <2>1. PICK p \in Searches : /\ p = Search!Paint(s, u, "GREY")
                              /\ Of(p, Ripe) = Of(s, Ripe) \ {u}
    BY RipeNames, GreyFacts
  <2>2. u \in Of(s, Ripe)
    BY <1>4 DEF Of
  <2>3. <<u, 1, p>> \in Calls /\ w[<<u, 1, p>>] < w[<<v, i, s>>]
    BY <2>1, <2>2, LowerTarget
  <2> QED BY <2>1, <2>3 DEF Alike
<1> QED BY <1>1, <1>2, <1>3, <1>4 DEF CyclesCase, Colours, Ripe

LEMMA CyclesKeeps ==
  ASSUME NEW G \in Graphs, NEW w, Lowers(G, Ripe, w), NEW v \in Vertices, NEW i \in Nat \ {0},
         NEW s \in Searches, NEW f, Sound(G, Ripe, w, f, <<v, i, s>>)
  PROVE  From(G, Ripe, s, Search!CyclesLoop(f, G, v, i, s))
<1>1. Len(G.edges[v]) \in Nat
  BY DEF Graphs
<1>2. CASE i > Len(G.edges[v])
  <2>1. PICK c \in Colours \ Ripe : Search!CyclesLoop(f, G, v, i, s) = Search!Paint(s, v, c)
    BY <1>2, ColourNames, RipeNames DEF Search!CyclesLoop
  <2>2. c \in Colours /\ c \notin Ripe
    OBVIOUS
  <2> QED BY <2>1, <2>2, PaintFrom
<1>3. CASE ~ (i > Len(G.edges[v]))
  <2>1. i <= Len(G.edges[v]) /\ i \in 1..Len(G.edges[v])
    BY <1>1, <1>3
  <2>2. PICK e \in Drawn(G) : e = Target(G, v, i) /\ e.to \in Vertices
    BY <2>1, EdgeFacts DEF Target
  <2>3. PICK q : q = Search!CyclesCall(f, G, e.to, s) /\ From(G, Ripe, s, q)
    BY <2>2, CyclesCallFrom
  <2>4. PICK x : x = Search!Closed(G, v, e, q)
    OBVIOUS
  <2>5. From(G, Ripe, q, x)
    BY <2>2, <2>3, <2>4, ClosedFrom DEF From
  <2>6. From(G, Ripe, s, x)
    BY <2>3, <2>5, FromTransitive
  <2>7. Search!CyclesLoop(f, G, v, i, s) = f[<<v, i + 1, x>>]
    BY <1>3, <2>2, <2>3, <2>4 DEF Search!CyclesLoop, Target
  <2> QED BY <2>1, <2>6, <2>7, NextSound
<1> QED BY <1>2, <1>3

LEMMA CyclesAgrees ==
  ASSUME NEW G \in Graphs, NEW w, Lowers(G, Ripe, w), NEW v \in Vertices, NEW i \in Nat \ {0},
         NEW s \in Searches, NEW f, Sound(G, Ripe, w, f, <<v, i, s>>),
         NEW h, Alike(w, f, h, <<v, i, s>>)
  PROVE  Search!CyclesLoop(f, G, v, i, s) = Search!CyclesLoop(h, G, v, i, s)
<1>1. Len(G.edges[v]) \in Nat
  BY DEF Graphs
<1>2. CASE i > Len(G.edges[v])
  BY <1>2 DEF Search!CyclesLoop
<1>3. CASE ~ (i > Len(G.edges[v]))
  <2>1. i <= Len(G.edges[v]) /\ i \in 1..Len(G.edges[v])
    BY <1>1, <1>3
  <2>2. PICK e \in Drawn(G) : e = Target(G, v, i) /\ e.to \in Vertices
    BY <2>1, EdgeFacts DEF Target
  <2>3. PICK q : q = Search!CyclesCall(f, G, e.to, s) /\ From(G, Ripe, s, q)
    BY <2>2, CyclesCallFrom
  <2>4. PICK x : x = Search!Closed(G, v, e, q)
    OBVIOUS
  <2>5. From(G, Ripe, s, x)
    <3>1. From(G, Ripe, q, x)
      BY <2>2, <2>3, <2>4, ClosedFrom DEF From
    <3> QED BY <2>3, <3>1, FromTransitive
  <2>6. q = Search!CyclesCall(h, G, e.to, s)
    BY <2>2, <2>3, CyclesCallAgrees
  <2>7. Search!CyclesLoop(f, G, v, i, s) = f[<<v, i + 1, x>>]
    BY <1>3, <2>2, <2>3, <2>4 DEF Search!CyclesLoop, Target
  <2>8. Search!CyclesLoop(h, G, v, i, s) = h[<<v, i + 1, x>>]
    BY <1>3, <2>2, <2>4, <2>6 DEF Search!CyclesLoop, Target
  <2>9. f[<<v, i + 1, x>>] = h[<<v, i + 1, x>>]
    BY <2>1, <2>5, LowerNext DEF Alike
  <2> QED BY <2>7, <2>8, <2>9
<1> QED BY <1>2, <1>3

-----------------------------------------------------------------------------
(* The three recursions *)

Kinds == {"dfs", "kafas", "cycles"}
NewOf(k) == IF k = "cycles" THEN Ripe ELSE Fresh

LoopOf(k, f, G, v, i, s) ==
  IF k = "dfs" THEN Search!DfsLoop(f, G, v, i, s)
  ELSE IF k = "kafas" THEN Search!KafasLoop(f, G, v, i, s)
  ELSE Search!CyclesLoop(f, G, v, i, s)

LEMMA LoopKeeps ==
  ASSUME NEW k \in Kinds, NEW G \in Graphs, NEW w, Lowers(G, NewOf(k), w), NEW v \in Vertices,
         NEW i \in Nat \ {0}, NEW s \in Searches, NEW f, Sound(G, NewOf(k), w, f, <<v, i, s>>)
  PROVE  From(G, NewOf(k), s, LoopOf(k, f, G, v, i, s))
<1>1. CASE k = "dfs"
  BY <1>1, DfsKeeps DEF NewOf, LoopOf
<1>2. CASE k = "kafas"
  BY <1>2, KafasKeeps DEF NewOf, LoopOf
<1>3. CASE k = "cycles"
  BY <1>3, CyclesKeeps DEF NewOf, LoopOf
<1> QED BY <1>1, <1>2, <1>3 DEF Kinds

LEMMA LoopAgrees ==
  ASSUME NEW k \in Kinds, NEW G \in Graphs, NEW w, Lowers(G, NewOf(k), w), NEW v \in Vertices,
         NEW i \in Nat \ {0}, NEW s \in Searches, NEW f, Sound(G, NewOf(k), w, f, <<v, i, s>>),
         NEW h, Alike(w, f, h, <<v, i, s>>)
  PROVE  LoopOf(k, f, G, v, i, s) = LoopOf(k, h, G, v, i, s)
<1>1. CASE k = "dfs"
  BY <1>1, DfsAgrees DEF NewOf, LoopOf
<1>2. CASE k = "kafas"
  BY <1>2, KafasAgrees DEF NewOf, LoopOf
<1>3. CASE k = "cycles"
  BY <1>3, CyclesAgrees DEF NewOf, LoopOf
<1> QED BY <1>1, <1>2, <1>3 DEF Kinds

IsLoop(k, G, f) == f = [c \in Calls |-> LoopOf(k, f, G, c[1], c[2], c[3])]

LEMMA LoopExists ==
  ASSUME NEW k \in Kinds, NEW G \in Graphs, IsFiniteSet(Vertices)
  PROVE  \E f : IsLoop(k, G, f)
<1> DEFINE C == NewOf(k)
           Keeping(f) == \A c \in Calls : From(G, C, c[3], f[c])
           Fits == {f \in [Calls -> Searches] : Keeping(f)}
           Again(f) == [c \in Calls |-> LoopOf(k, f, G, c[1], c[2], c[3])]
<1>1. PICK w, K : Lowers(G, C, w) /\ K \in Nat /\ \A c \in Calls : w[c] < K
  BY Ranked
<1>2. w \in [Calls -> Nat]
  BY <1>1 DEF Lowers
<1>3. PICK f0 \in Fits : f0 = [c \in Calls |-> c[3]]
  <2>1. \A c \in Calls : c[3] \in Searches /\ From(G, C, c[3], c[3])
    BY CallParts, FromItself
  <2> QED BY <2>1
<1>4. ASSUME NEW f \in Fits PROVE Again(f) \in Fits
  <2>1. ASSUME NEW c \in Calls PROVE From(G, C, c[3], LoopOf(k, f, G, c[1], c[2], c[3]))
    <3>1. PICK v \in Vertices, i \in Nat \ {0}, s \in Searches : c = <<v, i, s>>
      BY CallParts
    <3>2. Sound(G, C, w, f, <<v, i, s>>)
      BY DEF Sound
    <3>3. From(G, C, s, LoopOf(k, f, G, v, i, s))
      BY <1>1, <3>2, LoopKeeps
    <3>4. c[1] = v /\ c[2] = i /\ c[3] = s
      BY ONLY <3>1
    <3> QED BY <3>3, <3>4
  <2>2. \A c \in Calls : Again(f)[c] = LoopOf(k, f, G, c[1], c[2], c[3])
    OBVIOUS
  <2>3. Again(f) \in [Calls -> Searches]
    BY <2>1 DEF From
  <2> HIDE DEF Again
  <2> QED BY <2>1, <2>2, <2>3
<1>5. PICK B : B = [f \in Fits |-> Again(f)]
  OBVIOUS
<1>6. B \in [Fits -> Fits]
  <2> HIDE DEF Fits, Again
  <2> QED BY <1>4, <1>5
<1>7. ASSUME NEW f \in Fits, NEW h \in Fits, NEW c \in Calls,
             \A d \in Calls : w[d] < w[c] => f[d] = h[d]
      PROVE  B[f][c] = B[h][c]
  <2>1. PICK v \in Vertices, i \in Nat \ {0}, s \in Searches : c = <<v, i, s>>
    BY CallParts
  <2>2. Sound(G, C, w, f, <<v, i, s>>)
    BY DEF Sound
  <2>3. Alike(w, f, h, <<v, i, s>>)
    BY <1>7, <2>1 DEF Alike
  <2>4. LoopOf(k, f, G, v, i, s) = LoopOf(k, h, G, v, i, s)
    BY <1>1, <2>2, <2>3, LoopAgrees
  <2>5. c[1] = v /\ c[2] = i /\ c[3] = s
    BY ONLY <2>1
  <2>6. LoopOf(k, f, G, c[1], c[2], c[3]) = LoopOf(k, h, G, c[1], c[2], c[3])
    BY <2>4, <2>5
  <2>7. B[f] = Again(f) /\ B[h] = Again(h)
    <3> HIDE DEF Fits, Again
    <3> QED BY <1>5
  <2> QED BY <2>6, <2>7
<1>8. Fits \in SUBSET [Calls -> Searches]
  OBVIOUS
<1>9. \E f \in Fits : f = B[f]
  <2>1. PICK F : F = Fits
    OBVIOUS
  <2>2. /\ K \in Nat /\ \A c \in Calls : w[c] < K
        /\ F \in SUBSET [Calls -> Searches] /\ f0 \in F /\ B \in [F -> F]
    BY <1>1, <1>3, <1>6, <1>8, <2>1
  <2>3. \A f, g \in F, c \in Calls :
          (\A d \in Calls : w[d] < w[c] => f[d] = g[d]) => B[f][c] = B[g][c]
    BY ONLY <1>7, <2>1
  <2>4. Recurs(Calls, w, K, Searches, F, B)
    BY ONLY <1>2, <2>2, <2>3 DEF Recurs
  <2>5. \E f \in F : f = B[f]
    BY ONLY <2>4, Recursion
  <2> QED BY ONLY <2>1, <2>5
<1>10. PICK f \in Fits : f = B[f]
  BY <1>9
<1>11. f = Again(f)
  <2> HIDE DEF Fits, Again
  <2> QED BY <1>5, <1>10
<1> QED BY <1>11 DEF IsLoop

LEMMA LoopSound ==
  ASSUME NEW k \in Kinds, NEW G \in Graphs, IsFiniteSet(Vertices), NEW f, IsLoop(k, G, f),
         NEW v \in Vertices, NEW i \in Nat \ {0}, NEW s \in Searches
  PROVE  From(G, NewOf(k), s, f[<<v, i, s>>])
<1> DEFINE C == NewOf(k)
           P == {c \in Calls : From(G, C, c[3], f[c])}
<1>1. PICK w, K : Lowers(G, C, w) /\ K \in Nat /\ \A c \in Calls : w[c] < K
  BY Ranked
<1>2. w \in [Calls -> Nat]
  BY <1>1 DEF Lowers
<1>3. ASSUME NEW c \in Calls, \A d \in Calls : w[d] < w[c] => d \in P PROVE c \in P
  <2>1. PICK u \in Vertices, j \in Nat \ {0}, q \in Searches : c = <<u, j, q>>
    BY CallParts
  <2>2. Sound(G, C, w, f, <<u, j, q>>)
    BY <1>3, <2>1 DEF Sound
  <2>3. From(G, C, q, LoopOf(k, f, G, u, j, q))
    BY <1>1, <2>2, LoopKeeps
  <2>4. c[1] = u /\ c[2] = j /\ c[3] = q
    BY ONLY <2>1
  <2>5. f[c] = LoopOf(k, f, G, c[1], c[2], c[3])
    <3>1. f = [d \in Calls |-> LoopOf(k, f, G, d[1], d[2], d[3])]
      BY DEF IsLoop
    <3> QED BY ONLY <3>1, c \in Calls
  <2> QED BY <2>3, <2>4, <2>5
<1>4. Calls \subseteq P
  <2> HIDE DEF P
  <2> QED BY <1>2, <1>3, ByRank
<1>5. PICK c \in Calls : c = <<v, i, s>> /\ c[3] = s
  <2>1. <<v, i, s>> \in Calls /\ <<v, i, s>>[3] = s
    BY CallMade
  <2> QED BY <2>1
<1> QED BY <1>4, <1>5

(* The methods call the loops at the first edge. *)
LEMMA VisitsAre ==
  ASSUME NEW G \in Graphs, IsFiniteSet(Vertices), NEW v, NEW s
  PROVE  /\ \E f : /\ IsLoop("dfs", G, f)
                   /\ Search!DfsVisit(G, v, s) = f[<<v, 1, Search!Paint(s, v, "GREY")>>]
         /\ \E f : /\ IsLoop("kafas", G, f)
                   /\ Search!KafasVisit(G, v, s) = Search!KafasCall(f, G, v, s)
         /\ \E f : /\ IsLoop("cycles", G, f)
                   /\ Search!CyclesVisit(G, v, s) = Search!CyclesCall(f, G, v, s)
<1>1. /\ \E f : IsLoop("dfs", G, f) /\ \E g : IsLoop("kafas", G, g)
      /\ \E h : IsLoop("cycles", G, h)
  BY LoopExists DEF Kinds
<1>2. \A f : IsLoop("dfs", G, f) <=> f = [c \in Calls |-> Search!DfsLoop(f, G, c[1], c[2], c[3])]
  BY DEF IsLoop, LoopOf
<1>3. \A f : IsLoop("kafas", G, f) <=> f = [c \in Calls |-> Search!KafasLoop(f, G, c[1], c[2], c[3])]
  BY DEF IsLoop, LoopOf
<1>4. \A f : IsLoop("cycles", G, f) <=> f = [c \in Calls |-> Search!CyclesLoop(f, G, c[1], c[2], c[3])]
  BY DEF IsLoop, LoopOf
<1>5. \E f : /\ f = [c \in Calls |-> Search!DfsLoop(f, G, c[1], c[2], c[3])]
             /\ Search!DfsVisit(G, v, s) = f[<<v, 1, Search!Paint(s, v, "GREY")>>]
  <2>1. \E f : f = [c \in Calls |-> Search!DfsLoop(f, G, c[1], c[2], c[3])]
    BY <1>1, <1>2
  <2> QED BY <2>1 DEF Search!DfsVisit, Calls
<1>6. \E f : /\ f = [c \in Calls |-> Search!KafasLoop(f, G, c[1], c[2], c[3])]
             /\ Search!KafasVisit(G, v, s) = Search!KafasCall(f, G, v, s)
  <2>1. \E f : f = [c \in Calls |-> Search!KafasLoop(f, G, c[1], c[2], c[3])]
    BY <1>1, <1>3
  <2> QED BY <2>1 DEF Search!KafasVisit, Calls
<1>7. \E f : /\ f = [c \in Calls |-> Search!CyclesLoop(f, G, c[1], c[2], c[3])]
             /\ Search!CyclesVisit(G, v, s) = Search!CyclesCall(f, G, v, s)
  <2>1. \E f : f = [c \in Calls |-> Search!CyclesLoop(f, G, c[1], c[2], c[3])]
    BY <1>1, <1>4
  <2> QED BY <2>1 DEF Search!CyclesVisit, Calls
<1>8. PICK f : /\ f = [c \in Calls |-> Search!DfsLoop(f, G, c[1], c[2], c[3])]
               /\ Search!DfsVisit(G, v, s) = f[<<v, 1, Search!Paint(s, v, "GREY")>>]
  BY <1>5
<1>9. PICK g : /\ g = [c \in Calls |-> Search!KafasLoop(g, G, c[1], c[2], c[3])]
               /\ Search!KafasVisit(G, v, s) = Search!KafasCall(g, G, v, s)
  BY <1>6
<1>10. PICK h : /\ h = [c \in Calls |-> Search!CyclesLoop(h, G, c[1], c[2], c[3])]
                /\ Search!CyclesVisit(G, v, s) = Search!CyclesCall(h, G, v, s)
  BY <1>7
<1>11. IsLoop("dfs", G, f) /\ IsLoop("kafas", G, g) /\ IsLoop("cycles", G, h)
  BY <1>2, <1>3, <1>4, <1>8, <1>9, <1>10
<1> QED BY <1>8, <1>9, <1>10, <1>11

(* What a visit makes of a state. *)
LEMMA DfsFrom ==
  ASSUME NEW G \in Graphs, IsFiniteSet(Vertices), NEW v \in Vertices, NEW s \in Searches
  PROVE  From(G, Fresh, s, Search!DfsVisit(G, v, s))
<1>1. PICK p \in Searches : p = Search!Paint(s, v, "GREY") /\ From(G, Fresh, s, p)
  BY ColourNames, GreyFacts
<1>2. PICK f : IsLoop("dfs", G, f) /\ Search!DfsVisit(G, v, s) = f[<<v, 1, p>>]
  BY <1>1, VisitsAre
<1>3. PICK k \in Kinds : k = "dfs" /\ NewOf(k) = Fresh
  BY DEF Kinds, NewOf
<1>4. PICK i \in Nat \ {0} : i = 1
  OBVIOUS
<1>5. From(G, NewOf(k), p, f[<<v, i, p>>])
  BY <1>1, <1>2, <1>3, LoopSound
<1> QED BY <1>1, <1>2, <1>3, <1>4, <1>5, FromTransitive

LEMMA KafasFrom ==
  ASSUME NEW G \in Graphs, IsFiniteSet(Vertices), NEW v \in Vertices, NEW s \in Searches
  PROVE  From(G, Fresh, s, Search!KafasVisit(G, v, s))
<1>1. PICK f : IsLoop("kafas", G, f) /\ Search!KafasVisit(G, v, s) = Search!KafasCall(f, G, v, s)
  BY VisitsAre
<1>2. PICK k \in Kinds : k = "kafas" /\ NewOf(k) = Fresh
  BY DEF Kinds, NewOf
<1>3. PICK w, K : Lowers(G, Fresh, w) /\ K \in Nat /\ \A c \in Calls : w[c] < K
  BY Ranked
<1>4. PICK i \in Nat \ {0} : i = 1
  OBVIOUS
<1>5. ASSUME NEW d \in Calls PROVE From(G, Fresh, d[3], f[d])
  <2>1. PICK u \in Vertices, j \in Nat \ {0}, q \in Searches : d = <<u, j, q>> /\ d[3] = q
    BY CallParts
  <2>2. From(G, NewOf(k), q, f[<<u, j, q>>])
    BY <1>1, <1>2, LoopSound
  <2> QED BY <1>2, <2>1, <2>2
<1>6. Sound(G, Fresh, w, f, <<v, i, s>>)
  BY <1>5 DEF Sound
<1> QED BY <1>1, <1>3, <1>6, KafasCallFrom

LEMMA CyclesFrom ==
  ASSUME NEW G \in Graphs, IsFiniteSet(Vertices), NEW v \in Vertices, NEW s \in Searches
  PROVE  From(G, Ripe, s, Search!CyclesVisit(G, v, s))
<1>1. PICK f : IsLoop("cycles", G, f) /\ Search!CyclesVisit(G, v, s) = Search!CyclesCall(f, G, v, s)
  BY VisitsAre
<1>2. PICK k \in Kinds : k = "cycles" /\ NewOf(k) = Ripe
  BY DEF Kinds, NewOf
<1>3. PICK w, K : Lowers(G, Ripe, w) /\ K \in Nat /\ \A c \in Calls : w[c] < K
  BY Ranked
<1>4. PICK i \in Nat \ {0} : i = 1
  OBVIOUS
<1>5. ASSUME NEW d \in Calls PROVE From(G, Ripe, d[3], f[d])
  <2>1. PICK u \in Vertices, j \in Nat \ {0}, q \in Searches : d = <<u, j, q>> /\ d[3] = q
    BY CallParts
  <2>2. From(G, NewOf(k), q, f[<<u, j, q>>])
    BY <1>1, <1>2, LoopSound
  <2> QED BY <1>2, <2>1, <2>2
<1>6. Sound(G, Ripe, w, f, <<v, i, s>>)
  BY <1>5 DEF Sound
<1> QED BY <1>1, <1>3, <1>6, CyclesCallFrom

-----------------------------------------------------------------------------
(* The loops over the starts *)

(* States whose cycle has edges of the graph only. *)
Within(G) == {s \in Searches : s.cycle \in Seq(Drawn(G))}

LEMMA WithinFrom ==
  ASSUME NEW G, NEW C, NEW s \in Within(G), NEW r, From(G, C, s, r)
  PROVE  r \in Within(G)
BY DEF Within, From

(* The state all starts begin in. *)
LEMMA NewSearchFacts ==
  ASSUME NEW G \in Graphs, NEW c \in Seq(Drawn(G))
  PROVE  LET n == Search!NewSearch(G, c) IN
         /\ n \in Within(G) /\ n.r = 0 /\ n.cycle = c /\ n.kafa = G.kafa
         /\ \A v \in Vertices : n.color[v] = "WHITE"
<1>1. PICK n : n = Search!NewSearch(G, c)
  OBVIOUS
<1>2. PICK color : color = [v \in Vertices |-> "WHITE"]
  OBVIOUS
<1>3. PICK open : open = [v \in Vertices |-> {}]
  OBVIOUS
<1>4. n = [color |-> color, cycle |-> c, kafa |-> G.kafa, kafas |-> <<>>, open |-> open, r |-> 0]
  BY <1>1, <1>2, <1>3 DEF Search!NewSearch, Search!White, Vertices
<1>5. color \in [Vertices -> Colours] /\ open \in [Vertices -> SUBSET (Vertices \cup {NULL})]
  BY <1>2, <1>3, ColourNames
<1>6. G.kafa \in SUBSET Vertices /\ <<>> \in Seq(Vertices)
  BY DEF Graphs
<1>7. c \in Seq(Links)
  BY DEF Drawn
<1>8. n \in Searches
  BY <1>4, <1>5, <1>6, <1>7, ColourNames, SearchMade
<1>9. n.r = 0 /\ n.cycle = c /\ n.kafa = G.kafa /\ n.color = color
  BY <1>4
<1> QED BY <1>1, <1>2, <1>8, <1>9 DEF Within

(* Start u of the loops of has_cycle, of has_allcycles over the threads,   *)
(* and over the vertices that visit_kafas noted.                           *)
KafasStep(G, u, s) ==
  LET x == Search!KafasVisit(G, u, [s EXCEPT !.kafas = <<>>])
  IN  CASE s.r # 0 -> s
        [] s.r = 0 /\ x.r # 0 -> x
        [] s.r = 0 /\ x.r = 0 -> Search!Dropped(x)

StepOf(k, G, u, s) ==
  IF k = "dfs"
  THEN IF Search!Reports(s) \/ s.color[u] # "WHITE" THEN s ELSE Search!DfsVisit(G, u, s)
  ELSE IF k = "kafas" THEN KafasStep(G, u, s)
  ELSE Search!CyclesVisit(G, u, s)

LEMMA DroppedFrom ==
  ASSUME NEW G, NEW s \in Searches
  PROVE  Search!Dropped(s) \in Within(G)
<1>1. PICK T : T = {s.cycle[i].to : i \in DOMAIN s.cycle}
  OBVIOUS
<1>2. PICK c : c = [v \in Vertices |-> IF v \in T THEN "BLACK" ELSE s.color[v]]
  OBVIOUS
<1>3. PICK x : x = Search!Dropped(s)
  OBVIOUS
<1>4. x = [color |-> c, cycle |-> <<>>, kafa |-> s.kafa, kafas |-> s.kafas,
           open |-> s.open, r |-> s.r]
  <2>1. x = [s EXCEPT !.cycle = <<>>, !.color = c]
    BY <1>1, <1>2, <1>3 DEF Search!Dropped, Vertices
  <2>2. s = [color |-> s.color, cycle |-> s.cycle, kafa |-> s.kafa, kafas |-> s.kafas,
             open |-> s.open, r |-> s.r]
    BY SearchParts
  <2> QED BY ONLY <2>1, <2>2
<1>5. c \in [Vertices -> Colours]
  BY <1>2, SearchParts, ColourNames
<1>6. <<>> \in Seq(Links) /\ <<>> \in Seq(Drawn(G))
  OBVIOUS
<1>7. x \in Searches
  BY <1>4, <1>5, <1>6, SearchParts, SearchMade
<1>8. x.cycle = <<>>
  BY <1>4
<1> QED BY <1>3, <1>6, <1>7, <1>8 DEF Within

LEMMA KafasStepWithin ==
  ASSUME NEW G \in Graphs, IsFiniteSet(Vertices), NEW u \in Vertices, NEW s \in Within(G)
  PROVE  KafasStep(G, u, s) \in Within(G)
<1>1. PICK q : q = [s EXCEPT !.kafas = <<>>]
  OBVIOUS
<1>2. s \in Searches /\ s.cycle \in Seq(Drawn(G))
  BY DEF Within
<1>3. q = [color |-> s.color, cycle |-> s.cycle, kafa |-> s.kafa, kafas |-> <<>>,
           open |-> s.open, r |-> s.r]
  BY <1>1, <1>2, SearchParts
<1>4. <<>> \in Seq(Vertices)
  OBVIOUS
<1>5. q \in Searches /\ q.cycle = s.cycle
  BY <1>2, <1>3, <1>4, SearchParts, SearchMade
<1>6. PICK x : x = Search!KafasVisit(G, u, q)
  OBVIOUS
<1>7. From(G, Fresh, q, x)
  BY <1>5, <1>6, KafasFrom
<1>8. x \in Within(G) /\ x \in Searches
  BY <1>2, <1>5, <1>7 DEF From, Within
<1>9. Search!Dropped(x) \in Within(G)
  BY <1>8, DroppedFrom
<1>10. KafasStep(G, u, s) = CASE s.r # 0 -> s
                              [] s.r = 0 /\ x.r # 0 -> x
                              [] s.r = 0 /\ x.r = 0 -> Search!Dropped(x)
  BY <1>1, <1>6 DEF KafasStep
<1>11. KafasStep(G, u, s) \in {s, x, Search!Dropped(x)}
  BY ONLY <1>10
<1> QED BY <1>8, <1>9, <1>11

LEMMA StepWithin ==
  ASSUME NEW k \in Kinds, NEW G \in Graphs, IsFiniteSet(Vertices), NEW u \in Vertices,
         NEW s \in Within(G)
  PROVE  StepOf(k, G, u, s) \in Within(G)
<1>1. s \in Searches
  BY DEF Within
<1>2. From(G, Fresh, s, Search!DfsVisit(G, u, s)) /\ From(G, Ripe, s, Search!CyclesVisit(G, u, s))
  BY <1>1, DfsFrom, CyclesFrom
<1>3. Search!DfsVisit(G, u, s) \in Within(G) /\ Search!CyclesVisit(G, u, s) \in Within(G)
  BY <1>2, WithinFrom
<1> QED BY <1>3, KafasStepWithin DEF StepOf

(* run is what the loop makes of the starts us, one after the other. *)
RunOver(k, G, us, first, run) ==
  /\ run \in [0..Len(us) -> Within(G)]
  /\ run[0] = first
  /\ \A i \in 1..Len(us) : run[i] = StepOf(k, G, us[i], run[i - 1])

LEMMA StartsExist ==
  ASSUME NEW k \in Kinds, NEW G \in Graphs, IsFiniteSet(Vertices), NEW us \in Seq(Vertices),
         NEW first \in Within(G)
  PROVE  \E run : run = [i \in 0..Len(us) |->
                           IF i = 0 THEN first ELSE StepOf(k, G, us[i], run[i - 1])]
<1>1. PICK n \in Nat : n = Len(us)
  OBVIOUS
<1>2. PICK R : R = Within(G)
  OBVIOUS
<1>3. PICK H : H = [c \in (1..n) \X R |-> StepOf(k, G, us[c[1]], c[2])]
  OBVIOUS
<1>4. Runs(n, R, first, H)
  <2>1. ASSUME NEW c \in (1..n) \X R PROVE StepOf(k, G, us[c[1]], c[2]) \in R
    <3>1. us[c[1]] \in Vertices /\ c[2] \in Within(G)
      BY <1>1, <1>2
    <3> QED BY <1>2, <3>1, StepWithin
  <2>2. H \in [(1..n) \X R -> R]
    BY <1>3, <2>1
  <2> QED BY <1>1, <1>2, <2>2 DEF Runs
<1>5. PICK run \in [0..n -> R] :
        run = [i \in 0..n |-> IF i = 0 THEN first ELSE H[<<i, run[i - 1]>>]]
  BY ONLY <1>4, RunIs
<1>6. \A i \in 0..n : run[i] = IF i = 0 THEN first ELSE H[<<i, run[i - 1]>>]
  BY ONLY <1>5
<1>7. ASSUME NEW i \in 0..n
      PROVE  run[i] = IF i = 0 THEN first ELSE StepOf(k, G, us[i], run[i - 1])
  <2>1. CASE i = 0
    BY <1>6, <2>1
  <2>2. CASE i # 0
    <3>1. i - 1 \in 0..n /\ i \in 1..n
      BY <2>2
    <3>2. run[i - 1] \in R
      BY <1>5, <3>1
    <3>3. PICK c \in (1..n) \X R : c = <<i, run[i - 1]>> /\ c[1] = i /\ c[2] = run[i - 1]
      BY <3>1, <3>2
    <3> QED BY <1>3, <1>6, <2>2, <3>3
  <2> QED BY <2>1, <2>2
<1>8. run = [i \in 0..n |-> IF i = 0 THEN first ELSE StepOf(k, G, us[i], run[i - 1])]
  BY <1>5, <1>7
<1> QED BY <1>1, <1>8

LEMMA StartsAre ==
  ASSUME NEW k \in Kinds, NEW G \in Graphs, IsFiniteSet(Vertices), NEW us \in Seq(Vertices),
         NEW first \in Within(G),
         NEW run, run = [i \in 0..Len(us) |->
                           IF i = 0 THEN first ELSE StepOf(k, G, us[i], run[i - 1])]
  PROVE  RunOver(k, G, us, first, run)
<1>1. PICK n \in Nat : n = Len(us)
  OBVIOUS
<1>2. run = [i \in 0..n |-> IF i = 0 THEN first ELSE StepOf(k, G, us[i], run[i - 1])]
  BY <1>1
<1>3. run[0] = first /\ \A i \in 1..n : run[i] = StepOf(k, G, us[i], run[i - 1])
  <2>1. \A i \in 0..n : run[i] = IF i = 0 THEN first ELSE StepOf(k, G, us[i], run[i - 1])
    BY ONLY <1>2
  <2> QED BY ONLY <1>1, <2>1
<1>4. \A i \in 0..n : run[i] \in Within(G)
  <2>1. PICK S : S = {i \in 0..n : run[i] \in Within(G)}
    OBVIOUS
  <2>2. 0 \in S
    BY <1>3, <2>1
  <2>3. ASSUME NEW i \in 1..n, i - 1 \in S PROVE i \in S
    <3>1. us[i] \in Vertices
      BY <1>1
    <3> QED BY <1>3, <2>1, <2>3, <3>1, StepWithin
  <2>4. \A i \in 0..n : i \in S
    BY <2>2, <2>3, StepByStep
  <2> QED BY <2>1, <2>4
<1>5. run \in [0..n -> Within(G)]
  BY <1>2, <1>4
<1> QED BY <1>1, <1>3, <1>5 DEF RunOver

(* The loops are such runs, and end in their last states. *)
LEMMA HasCycleRun ==
  ASSUME NEW G \in Graphs, IsFiniteSet(Vertices), NEW us \in Seq(Vertices)
  PROVE  \E run : /\ RunOver("dfs", G, us, Search!NewSearch(G, <<>>), run)
                  /\ Search!HasCycle(G, us) = [found |-> Search!Reports(run[Len(us)]),
                                               cycle |-> run[Len(us)].cycle]
<1>1. PICK first \in Within(G) : first = Search!NewSearch(G, <<>>)
  <2>1. <<>> \in Seq(Drawn(G))
    OBVIOUS
  <2> QED BY <2>1, NewSearchFacts
<1>2. PICK k \in Kinds : k = "dfs"
  BY DEF Kinds
<1>3. \E run : run = [i \in 0..Len(us) |->
                        IF i = 0 THEN first ELSE StepOf(k, G, us[i], run[i - 1])]
  BY StartsExist
<1>4. \E run :
        /\ run = [i \in 0..Len(us) |->
             IF i = 0 THEN Search!NewSearch(G, <<>>)
             ELSE LET s == run[i - 1] IN
                  IF Search!Reports(s) \/ s.color[us[i]] # "WHITE" THEN s
                  ELSE Search!DfsVisit(G, us[i], s)]
        /\ Search!HasCycle(G, us) = [found |-> Search!Reports(run[Len(us)]),
                                     cycle |-> run[Len(us)].cycle]
  <2>1. \E run : run = [i \in 0..Len(us) |->
             IF i = 0 THEN Search!NewSearch(G, <<>>)
             ELSE LET s == run[i - 1] IN
                  IF Search!Reports(s) \/ s.color[us[i]] # "WHITE" THEN s
                  ELSE Search!DfsVisit(G, us[i], s)]
    BY ONLY <1>1, <1>2, <1>3 DEF StepOf
  <2> QED BY <2>1 DEF Search!HasCycle
<1>5. PICK run :
        /\ run = [i \in 0..Len(us) |->
             IF i = 0 THEN Search!NewSearch(G, <<>>)
             ELSE LET s == run[i - 1] IN
                  IF Search!Reports(s) \/ s.color[us[i]] # "WHITE" THEN s
                  ELSE Search!DfsVisit(G, us[i], s)]
        /\ Search!HasCycle(G, us) = [found |-> Search!Reports(run[Len(us)]),
                                     cycle |-> run[Len(us)].cycle]
  BY <1>4
<1>6. run = [i \in 0..Len(us) |-> IF i = 0 THEN first ELSE StepOf(k, G, us[i], run[i - 1])]
  BY ONLY <1>1, <1>2, <1>5 DEF StepOf
<1>7. RunOver(k, G, us, first, run)
  BY <1>6, StartsAre
<1> QED BY <1>1, <1>2, <1>5, <1>7

LEMMA KafasStartsWithin ==
  ASSUME NEW G \in Graphs, IsFiniteSet(Vertices), NEW us \in Seq(Vertices), NEW c \in Seq(Drawn(G))
  PROVE  Search!KafasStarts(G, us, c) \in Within(G)
<1>1. PICK first \in Within(G) : first = Search!NewSearch(G, c)
  BY NewSearchFacts
<1>2. PICK k \in Kinds : k = "kafas"
  BY DEF Kinds
<1>3. \E run : run = [i \in 0..Len(us) |->
                        IF i = 0 THEN first ELSE StepOf(k, G, us[i], run[i - 1])]
  BY StartsExist
<1>4. \E run : /\ run = [i \in 0..Len(us) |->
                    IF i = 0 THEN Search!NewSearch(G, c) ELSE KafasStep(G, us[i], run[i - 1])]
               /\ Search!KafasStarts(G, us, c) = run[Len(us)]
  <2>1. \E run : run = [i \in 0..Len(us) |->
             IF i = 0 THEN Search!NewSearch(G, c) ELSE KafasStep(G, us[i], run[i - 1])]
    BY ONLY <1>1, <1>2, <1>3 DEF StepOf
  <2> QED BY <2>1 DEF Search!KafasStarts, KafasStep
<1>5. PICK run : /\ run = [i \in 0..Len(us) |->
                    IF i = 0 THEN Search!NewSearch(G, c) ELSE KafasStep(G, us[i], run[i - 1])]
                 /\ Search!KafasStarts(G, us, c) = run[Len(us)]
  BY <1>4
<1>6. run = [i \in 0..Len(us) |-> IF i = 0 THEN first ELSE StepOf(k, G, us[i], run[i - 1])]
  BY ONLY <1>1, <1>2, <1>5 DEF StepOf
<1>7. RunOver(k, G, us, first, run)
  BY <1>6, StartsAre
<1>8. Len(us) \in 0..Len(us)
  OBVIOUS
<1> QED BY <1>5, <1>7, <1>8 DEF RunOver

LEMMA CyclesStartsWithin ==
  ASSUME NEW G \in Graphs, IsFiniteSet(Vertices), NEW us \in Seq(Vertices), NEW s \in Within(G)
  PROVE  Search!CyclesStarts(G, us, s) \in Within(G)
<1>2. PICK k \in Kinds : k = "cycles"
  BY DEF Kinds
<1>3. \E run : run = [i \in 0..Len(us) |->
                        IF i = 0 THEN s ELSE StepOf(k, G, us[i], run[i - 1])]
  BY StartsExist
<1>4. \E run : /\ run = [i \in 0..Len(us) |->
                    IF i = 0 THEN s ELSE Search!CyclesVisit(G, us[i], run[i - 1])]
               /\ Search!CyclesStarts(G, us, s) = run[Len(us)]
  <2>1. \E run : run = [i \in 0..Len(us) |->
             IF i = 0 THEN s ELSE Search!CyclesVisit(G, us[i], run[i - 1])]
    BY ONLY <1>2, <1>3 DEF StepOf
  <2> QED BY <2>1 DEF Search!CyclesStarts
<1>5. PICK run : /\ run = [i \in 0..Len(us) |->
                    IF i = 0 THEN s ELSE Search!CyclesVisit(G, us[i], run[i - 1])]
                 /\ Search!CyclesStarts(G, us, s) = run[Len(us)]
  BY <1>4
<1>6. run = [i \in 0..Len(us) |-> IF i = 0 THEN s ELSE StepOf(k, G, us[i], run[i - 1])]
  BY ONLY <1>2, <1>5 DEF StepOf
<1>7. RunOver(k, G, us, s, run)
  BY <1>6, StartsAre
<1>8. Len(us) \in 0..Len(us)
  OBVIOUS
<1> QED BY <1>5, <1>7, <1>8 DEF RunOver

(* What has_allcycles finds has edges of the graph only. *)
LEMMA HasAllCyclesFacts ==
  ASSUME NEW G \in Graphs, IsFiniteSet(Vertices), NEW us \in Seq(Vertices), NEW c \in Seq(Drawn(G))
  PROVE  LET a == Search!HasAllCycles(G, us, c) IN
         a.found \in BOOLEAN /\ a.cycle \in Seq(Drawn(G)) /\ a.kafa \in SUBSET Vertices
<1>1. PICK x \in Within(G) : x = Search!KafasStarts(G, us, c)
  BY KafasStartsWithin
<1>2. x \in Searches /\ x.cycle \in Seq(Drawn(G))
  BY DEF Within
<1>3. PICK noted : noted = {x.kafas[i] : i \in DOMAIN x.kafas}
  OBVIOUS
<1>4. PICK n \in Within(G) : n = Search!NewSearch(G, x.cycle)
  BY <1>2, NewSearchFacts
<1>5. PICK m : m = [n EXCEPT !.kafa = x.kafa \ noted]
  OBVIOUS
<1>6. PICK a : a = x.kafa \ noted
  OBVIOUS
<1>7. m \in Within(G)
  <2>1. n \in Searches /\ n.cycle \in Seq(Drawn(G))
    BY DEF Within
  <2>2. m = [color |-> n.color, cycle |-> n.cycle, kafa |-> a, kafas |-> n.kafas,
             open |-> n.open, r |-> n.r]
    <3>1. m = [n EXCEPT !.kafa = a]
      BY <1>5, <1>6
    <3>2. n = [color |-> n.color, cycle |-> n.cycle, kafa |-> n.kafa, kafas |-> n.kafas,
               open |-> n.open, r |-> n.r]
      BY <2>1, SearchParts
    <3> QED BY ONLY <3>1, <3>2
  <2>3. a \in SUBSET Vertices
    BY <1>2, <1>6, SearchParts
  <2>4. m \in Searches /\ m.cycle = n.cycle
    BY <2>1, <2>2, <2>3, SearchParts, SearchMade
  <2> QED BY <2>1, <2>4 DEF Within
<1>8. PICK y \in Within(G) : y = Search!CyclesStarts(G, x.kafas, m)
  <2>1. x.kafas \in Seq(Vertices)
    BY <1>2, SearchParts
  <2> QED BY <1>7, <2>1, CyclesStartsWithin
<1>9. y \in Searches /\ y.cycle \in Seq(Drawn(G))
  BY DEF Within
<1>10. Search!HasAllCycles(G, us, c)
         = IF x.r = 0 THEN [found |-> FALSE, cycle |-> <<>>, kafa |-> x.kafa]
                      ELSE [found |-> TRUE, cycle |-> y.cycle, kafa |-> y.kafa]
  BY <1>1, <1>3, <1>4, <1>5, <1>8 DEF Search!HasAllCycles
<1>11. <<>> \in Seq(Drawn(G)) /\ x.kafa \in SUBSET Vertices /\ y.kafa \in SUBSET Vertices
  BY <1>2, <1>9, SearchParts
<1> QED BY <1>9, <1>10, <1>11

-----------------------------------------------------------------------------
(* What has_cycle finds *)

LockEdge(G, e) == e \in Drawn(G) /\ e.type # "YIELD"

(* The targets of lock edges have their values. *)
Fine(G) == \A e \in Links : LockEdge(G, e) => e.to \in G.valued

(* Each edge of c comes from the target of the next one. *)
Chain(G, c) ==
  /\ c \in Seq(Links) /\ c # <<>>
  /\ \A j \in 1..Len(c) : LockEdge(G, c[j])
  /\ \A j \in 1..Len(c) : j < Len(c) => c[j + 1].to = c[j].from
  /\ \A j, k \in 1..Len(c) : c[j].from = c[k].from => j = k

Circle(G, c) == Chain(G, c) /\ c[1].to = c[Len(c)].from

(* What dfs_visit of v makes of a state s whose cycle is empty: it finds   *)
(* nothing and is done with v, or hands a chain that starts at a grey      *)
(* vertex up from v, or has closed one.                                    *)
Found(G, v, s, q) ==
  \/ q.r = 0 /\ q.cycle = <<>> /\ Of(q, {"GREY"}) = Of(s, {"GREY"}) \ {v}
  \/ /\ q.r = 1 /\ Chain(G, q.cycle)
     /\ q.cycle[Len(q.cycle)].from = v /\ q.cycle[1].to \in Of(s, {"GREY"})
     /\ \A j \in 1..Len(q.cycle) : j < Len(q.cycle) => q.cycle[j].from \in Of(s, Fresh)
  \/ q.r = 2 /\ Circle(G, q.cycle)

(* A chain of one edge. *)
LEMMA ChainOfOne ==
  ASSUME NEW G, NEW e \in Links, LockEdge(G, e), NEW c, c = Append(<<>>, e)
  PROVE  Chain(G, c) /\ Len(c) = 1 /\ c[1] = e
<1>1. <<>> \in Seq(Links) /\ Len(<<>>) = 0
  OBVIOUS
<1>2. c \in Seq(Links) /\ Len(c) = 0 + 1 /\ c[0 + 1] = e
  BY <1>1, AppendLink
<1>3. c # <<>>
  BY <1>1, <1>2
<1> QED BY <1>2, <1>3 DEF Chain

(* A chain with one more edge, to the last vertex it comes from. *)
Extends(G, c, e, d) ==
  /\ Chain(G, c) /\ e \in Links /\ LockEdge(G, e) /\ e.to = c[Len(c)].from
  /\ \A j \in 1..Len(c) : c[j].from # e.from
  /\ d = Append(c, e)

LEMMA ChainOfMore ==
  ASSUME NEW G, NEW c, NEW e, NEW d, Extends(G, c, e, d)
  PROVE  /\ Chain(G, d) /\ Len(d) = Len(c) + 1 /\ d[Len(c) + 1] = e
         /\ \A j \in 1..Len(c) : d[j] = c[j]
<1> USE DEF Extends
<1>1. PICK n \in Nat : n = Len(c) /\ n # 0
  BY DEF Chain
<1>2. d \in Seq(Links) /\ Len(d) = n + 1 /\ (\A j \in 1..n : d[j] = c[j]) /\ d[n + 1] = e
  BY <1>1, AppendLink DEF Chain
<1>3. \A j \in 1..(n + 1) : j \in 1..n \/ j = n + 1
  OBVIOUS
<1>4. \A j \in 1..(n + 1) : LockEdge(G, d[j])
  BY <1>1, <1>2, <1>3 DEF Chain
<1>5. ASSUME NEW j \in 1..(n + 1), j < n + 1 PROVE d[j + 1].to = d[j].from
  <2>1. j \in 1..n /\ (j < n => j + 1 \in 1..n)
    BY <1>5
  <2>2. CASE j < n
    BY <1>1, <1>2, <2>1, <2>2 DEF Chain
  <2>3. CASE j = n
    BY <1>1, <1>2, <2>1, <2>3
  <2>4. j < n \/ j = n
    BY <2>1
  <2> QED BY <2>2, <2>3, <2>4
<1>6. ASSUME NEW j \in 1..(n + 1), NEW k \in 1..(n + 1), d[j].from = d[k].from PROVE j = k
  <2>1. CASE j \in 1..n /\ k \in 1..n
    BY <1>1, <1>2, <1>6, <2>1 DEF Chain
  <2>2. CASE j \in 1..n /\ k = n + 1
    BY <1>1, <1>2, <1>6, <2>2
  <2>3. CASE j = n + 1 /\ k \in 1..n
    BY <1>1, <1>2, <1>6, <2>3
  <2> QED BY <1>3, <2>1, <2>2, <2>3
<1>7. d # <<>>
  BY <1>2
<1> QED BY <1>1, <1>2, <1>4, <1>5, <1>6, <1>7 DEF Chain

(* The calls of lower rank than c find what they should. *)
FindBelow(G, w, f, c) ==
  \A d \in Calls : w[d] < w[c] /\ d[3].cycle = <<>> /\ d[3].color[d[1]] = "GREY" =>
    Found(G, d[1], d[3], f[d])

LEMMA NextFinds ==
  ASSUME NEW G, NEW w, Lowers(G, Fresh, w), NEW v \in Vertices, NEW i \in Nat \ {0},
         i <= Len(G.edges[v]), NEW s \in Searches, NEW f, FindBelow(G, w, f, <<v, i, s>>),
         NEW b, From(G, Fresh, s, b), Of(b, {"GREY"}) = Of(s, {"GREY"}),
         s.color[v] = "GREY", b.cycle = <<>>
  PROVE  Found(G, v, s, f[<<v, i + 1, b>>])
<1>1. <<v, i + 1, b>> \in Calls /\ w[<<v, i + 1, b>>] < w[<<v, i, s>>]
  BY LowerNext
<1>2. PICK d \in Calls : d = <<v, i + 1, b>> /\ w[d] < w[<<v, i, s>>]
  BY <1>1
<1>3. d[1] = v /\ d[3] = b
  BY ONLY <1>2
<1>4. b.color[v] = "GREY"
  <2>1. v \in Of(s, {"GREY"})
    BY DEF Of
  <2> QED BY <2>1 DEF Of
<1>5. Found(G, v, b, f[d])
  BY <1>2, <1>3, <1>4 DEF FindBelow
<1>6. Of(b, Fresh) \subseteq Of(s, Fresh)
  BY DEF From
<1> QED BY <1>2, <1>5, <1>6 DEF Found

LEMMA BelowFinds ==
  ASSUME NEW G, NEW w, Lowers(G, Fresh, w), NEW v \in Vertices, NEW i \in Nat \ {0},
         NEW s \in Searches, NEW f, FindBelow(G, w, f, <<v, i, s>>),
         NEW u \in Vertices, s.color[u] = "WHITE", s.cycle = <<>>
  PROVE  LET p == Search!Paint(s, u, "GREY") IN
         /\ Found(G, u, p, f[<<u, 1, p>>])
         /\ Of(p, {"GREY"}) = Of(s, {"GREY"}) \cup {u}
         /\ Of(p, Fresh) = Of(s, Fresh) \ {u}
<1>1. PICK p \in Searches :
        /\ p = Search!Paint(s, u, "GREY") /\ Of(p, Fresh) = Of(s, Fresh) \ {u}
        /\ p.color = [s.color EXCEPT ![u] = "GREY"] /\ p.cycle = s.cycle
  <2>1. PICK c \in Colours : c = "GREY"
    BY ColourNames
  <2>2. PICK p \in Searches : p = Search!Paint(s, u, c)
    BY PaintFacts
  <2>3. p.color = [s.color EXCEPT ![u] = c] /\ p.cycle = s.cycle
    BY <2>2, PaintFacts
  <2>4. Of(p, Fresh) = Of(s, Fresh) \ {u}
    BY <2>1, <2>2, ColourNames, GreyFacts
  <2> QED BY <2>1, <2>2, <2>3, <2>4
<1>2. s.color \in [Vertices -> Colours]
  BY SearchParts
<1>3. Of(p, {"GREY"}) = Of(s, {"GREY"}) \cup {u} /\ p.color[u] = "GREY"
  BY <1>1, <1>2 DEF Of
<1>4. u \in Of(s, Fresh) /\ Of(p, Fresh) \subseteq Of(s, Fresh) \ {u}
  BY <1>1 DEF Of, Fresh
<1>5. <<u, 1, p>> \in Calls /\ w[<<u, 1, p>>] < w[<<v, i, s>>]
  BY <1>4, LowerTarget
<1>6. PICK d \in Calls : d = <<u, 1, p>> /\ w[d] < w[<<v, i, s>>]
  BY <1>5
<1>7. d[1] = u /\ d[3] = p
  BY ONLY <1>6
<1>8. Found(G, u, p, f[d])
  BY <1>1, <1>3, <1>6, <1>7 DEF FindBelow
<1> QED BY <1>1, <1>3, <1>6, <1>8

(* Vertices that have their values are compared by them. *)
LEMMA ValueFacts ==
  ASSUME NEW G, NEW u \in G.valued, NEW v \in G.valued
  PROVE  Search!Value(G, u) = Search!Value(G, v) <=> u = v
BY DEF Search!Value

LEMMA DfsFinds ==
  ASSUME NEW G \in Graphs, Fine(G), NEW w, Lowers(G, Fresh, w), NEW v \in Vertices,
         NEW i \in Nat \ {0}, NEW s \in Searches, NEW f, Sound(G, Fresh, w, f, <<v, i, s>>),
         FindBelow(G, w, f, <<v, i, s>>), s.cycle = <<>>, s.color[v] = "GREY"
  PROVE  Found(G, v, s, Search!DfsLoop(f, G, v, i, s))
<1>1. PICK x : x = Search!DfsLoop(f, G, v, i, s)
  OBVIOUS
<1>2. PICK e : e = Target(G, v, i)
  OBVIOUS
<1>3. PICK b : b = Below(f, s, e)
  OBVIOUS
<1>4. Len(G.edges[v]) \in Nat
  BY DEF Graphs
<1>5. DfsCase(f, G, v, i, s, e, b, x)
  BY <1>1, <1>2, <1>3, DfsIs
<1>6. s.color \in [Vertices -> Colours]
  BY SearchParts
<1>7. CASE i > Len(G.edges[v])
  <2>1. PICK c \in Colours : c = "BLACK"
    BY ColourNames
  <2>2. PICK p \in Searches : p = Search!Paint(s, v, c)
    BY PaintFacts
  <2>3. p.color = [s.color EXCEPT ![v] = c] /\ p.cycle = s.cycle
    BY <2>2, PaintFacts
  <2>4. x = [p EXCEPT !.r = 0]
    BY <1>5, <1>7, <2>1, <2>2 DEF DfsCase
  <2>5. x.color = p.color /\ x.cycle = p.cycle /\ x.r = 0
    BY <2>4, ColourNames, ResultFacts
  <2>6. Of(x, {"GREY"}) = Of(s, {"GREY"}) \ {v}
    BY <1>6, <2>1, <2>3, <2>5 DEF Of
  <2> QED BY <1>1, <2>3, <2>5, <2>6 DEF Found
<1>8. CASE ~ (i > Len(G.edges[v]))
  <2>1. i <= Len(G.edges[v]) /\ i \in 1..Len(G.edges[v])
    BY <1>4, <1>8
  <2>2. e \in Drawn(G) /\ e \in Links /\ e.to \in Vertices /\ e.from = v
    BY <1>2, <2>1, EdgeFacts DEF Target
  <2>3. s.color[e.to] \in Colours
    BY <1>6, <2>2
  <2>4. CASE e.type = "YIELD" \/ s.color[e.to] \in {"BLACK", "RED"}
    <3>1. x = f[<<v, i + 1, s>>]
      BY <1>5, <1>8, <2>4 DEF DfsCase
    <3>2. Found(G, v, s, f[<<v, i + 1, s>>])
      BY <2>1, FromItself, NextFinds
    <3> QED BY <1>1, <3>1, <3>2
  <2>5. CASE e.type # "YIELD" /\ s.color[e.to] = "GREY"
    <3>1. x = Search!Collect(s, e)
      BY <1>5, <1>8, <2>5 DEF DfsCase
    <3>2. PICK c : c = Append(<<>>, e)
      OBVIOUS
    <3>3. x.cycle = c /\ x.r = 1
      BY <2>2, <3>1, <3>2, CollectFacts
    <3>4. Chain(G, c) /\ Len(c) = 1 /\ c[1] = e
      BY <2>2, <2>5, <3>2, ChainOfOne DEF LockEdge
    <3>5. e.to \in Of(s, {"GREY"})
      BY <2>2, <2>5 DEF Of
    <3> QED BY <1>1, <2>2, <3>3, <3>4, <3>5 DEF Found
  <2>6. CASE e.type # "YIELD" /\ s.color[e.to] = "WHITE"
    <3>1. From(G, Fresh, s, b) /\ b.r \in 0..2 /\ b \in Searches
      BY <1>2, <1>3, <2>1, <2>6, BelowFrom DEF From
    <3>2. PICK p : p = Search!Paint(s, e.to, "GREY")
      OBVIOUS
    <3>3. /\ Found(G, e.to, p, b)
          /\ Of(p, {"GREY"}) = Of(s, {"GREY"}) \cup {e.to}
          /\ Of(p, Fresh) = Of(s, Fresh) \ {e.to}
      BY <1>3, <2>2, <2>6, <3>2, BelowFinds DEF Below
    <3>4. e.to \in Of(s, Fresh) /\ e.to \notin Of(s, {"GREY"}) /\ v \notin Of(s, Fresh)
      BY <2>2, <2>6 DEF Of, Fresh
    <3>5. LockEdge(G, e) /\ e.to \in G.valued
      BY <2>2, <2>6 DEF LockEdge, Fine
    <3>6. CASE b.r = 0
      <4>1. x = f[<<v, i + 1, b>>]
        BY <1>5, <1>8, <2>6, <3>6 DEF DfsCase
      <4>2. b.cycle = <<>> /\ Of(b, {"GREY"}) = Of(s, {"GREY"})
        <5>1. b.cycle = <<>> /\ Of(b, {"GREY"}) = Of(p, {"GREY"}) \ {e.to}
          BY <3>3, <3>6 DEF Found
        <5>2. PICK W : W = Of(s, {"GREY"})
          OBVIOUS
        <5>3. PICK B : B = Of(p, {"GREY"})
          OBVIOUS
        <5>4. B = W \cup {e.to} /\ e.to \notin W
          BY <3>3, <3>4, <5>2, <5>3
        <5>5. B \ {e.to} = W
          BY ONLY <5>4
        <5> QED BY <5>1, <5>2, <5>3, <5>5
      <4> QED BY <1>1, <2>1, <3>1, <4>1, <4>2, NextFinds
    <3>7. CASE b.r = 1
      <4>1. /\ Chain(G, b.cycle) /\ b.cycle[Len(b.cycle)].from = e.to
            /\ b.cycle[1].to \in Of(p, {"GREY"})
            /\ \A j \in 1..Len(b.cycle) : j < Len(b.cycle) => b.cycle[j].from \in Of(p, Fresh)
        BY <3>3, <3>7 DEF Found
      <4>2. PICK n \in Nat : n = Len(b.cycle) /\ 1 \in 1..n
        BY <4>1 DEF Chain
      <4>3. b.cycle[1].to \in G.valued
        BY <4>1, <4>2 DEF Chain, Fine
      <4>4. Closes(G, e, b) <=> e.to = b.cycle[1].to
        BY <3>5, <4>3, ValueFacts DEF Closes
      <4>5. \A j \in 1..n : b.cycle[j].from \in Of(s, Fresh)
        <5>1. \A j \in 1..n : j < n \/ j = n
          OBVIOUS
        <5> QED BY <3>3, <3>4, <4>1, <4>2, <5>1
      <4>6. x = IF Closes(G, e, b) THEN [b EXCEPT !.r = 2] ELSE Search!Collect(b, e)
        BY <1>5, <1>8, <2>6, <3>7 DEF DfsCase
      <4>7. CASE Closes(G, e, b)
        <5>1. x.cycle = b.cycle /\ x.r = 2
          BY <3>1, <4>6, <4>7, ColourNames, ResultFacts
        <5>2. Circle(G, b.cycle)
          BY <4>1, <4>4, <4>7 DEF Circle
        <5> QED BY <1>1, <5>1, <5>2 DEF Found
      <4>8. CASE ~ Closes(G, e, b)
        <5>1. PICK d : d = Append(b.cycle, e)
          OBVIOUS
        <5>2. x.cycle = d /\ x.r = 1
          BY <2>2, <3>1, <4>6, <4>8, <5>1, CollectFacts
        <5>3. \A j \in 1..Len(b.cycle) : b.cycle[j].from # e.from
          BY <2>2, <3>4, <4>2, <4>5
        <5>4. /\ Chain(G, d) /\ Len(d) = n + 1 /\ d[n + 1] = e
              /\ \A j \in 1..n : d[j] = b.cycle[j]
          <6>1. PICK c : c = b.cycle
            OBVIOUS
          <6>2. Extends(G, c, e, d) /\ n = Len(c)
            BY <2>2, <3>5, <4>1, <4>2, <5>1, <5>3, <6>1 DEF Extends
          <6>3. /\ Chain(G, d) /\ Len(d) = Len(c) + 1 /\ d[Len(c) + 1] = e
                /\ \A j \in 1..Len(c) : d[j] = c[j]
            BY ONLY <6>2, ChainOfMore
          <6> QED BY ONLY <6>1, <6>2, <6>3
        <5>5. d[1].to \in Of(s, {"GREY"})
          BY <3>3, <4>1, <4>2, <4>4, <4>8, <5>4
        <5>6. \A j \in 1..(n + 1) : j < n + 1 => d[j].from \in Of(s, Fresh)
          <6>1. \A j \in 1..(n + 1) : j < n + 1 => j \in 1..n
            OBVIOUS
          <6> QED BY <4>5, <5>4, <6>1
        <5> QED BY <1>1, <2>2, <5>2, <5>4, <5>5, <5>6 DEF Found
      <4> QED BY <4>7, <4>8
    <3>8. CASE b.r = 2
      <4>1. x = b
        BY <1>5, <1>8, <2>6, <3>8 DEF DfsCase
      <4> QED BY <1>1, <3>3, <3>8, <4>1 DEF Found
    <3> QED BY <3>1, <3>6, <3>7, <3>8
  <2> QED BY <2>3, <2>4, <2>5, <2>6 DEF Colours
<1> QED BY <1>7, <1>8

LEMMA LoopFinds ==
  ASSUME NEW G \in Graphs, Fine(G), IsFiniteSet(Vertices), NEW f, IsLoop("dfs", G, f),
         NEW v \in Vertices, NEW i \in Nat \ {0}, NEW s \in Searches,
         s.cycle = <<>>, s.color[v] = "GREY"
  PROVE  Found(G, v, s, f[<<v, i, s>>])
<1> DEFINE P == {c \in Calls : c[3].cycle = <<>> /\ c[3].color[c[1]] = "GREY" =>
                                 Found(G, c[1], c[3], f[c])}
<1>1. PICK w, K : Lowers(G, Fresh, w) /\ K \in Nat /\ \A c \in Calls : w[c] < K
  BY Ranked
<1>2. w \in [Calls -> Nat]
  BY <1>1 DEF Lowers
<1>3. PICK k \in Kinds : k = "dfs" /\ NewOf(k) = Fresh
  BY DEF Kinds, NewOf
<1>4. ASSUME NEW c \in Calls PROVE From(G, Fresh, c[3], f[c])
  <2>1. PICK u \in Vertices, j \in Nat \ {0}, q \in Searches : c = <<u, j, q>> /\ c[3] = q
    BY CallParts
  <2>2. From(G, NewOf(k), q, f[<<u, j, q>>])
    BY <1>3, LoopSound
  <2> QED BY <1>3, <2>1, <2>2
<1>5. ASSUME NEW c \in Calls, \A d \in Calls : w[d] < w[c] => d \in P PROVE c \in P
  <2>1. PICK u \in Vertices, j \in Nat \ {0}, q \in Searches : c = <<u, j, q>>
    BY CallParts
  <2>2. c[1] = u /\ c[2] = j /\ c[3] = q
    BY ONLY <2>1
  <2>3. Sound(G, Fresh, w, f, <<u, j, q>>)
    BY <1>4 DEF Sound
  <2>4. FindBelow(G, w, f, <<u, j, q>>)
    BY <1>5, <2>1 DEF FindBelow
  <2>5. ASSUME q.cycle = <<>>, q.color[u] = "GREY"
        PROVE  Found(G, u, q, Search!DfsLoop(f, G, u, j, q))
    BY <1>1, <2>3, <2>4, <2>5, DfsFinds
  <2>6. f[c] = Search!DfsLoop(f, G, c[1], c[2], c[3])
    <3>1. f = [d \in Calls |-> Search!DfsLoop(f, G, d[1], d[2], d[3])]
      BY DEF IsLoop, LoopOf
    <3> QED BY ONLY <3>1, c \in Calls
  <2> QED BY <2>2, <2>5, <2>6
<1>6. Calls \subseteq P
  <2> HIDE DEF P
  <2> QED BY <1>2, <1>5, ByRank
<1>7. PICK c \in Calls : c = <<v, i, s>> /\ c[1] = v /\ c[3] = s
  <2>1. <<v, i, s>> \in Calls /\ <<v, i, s>>[1] = v /\ <<v, i, s>>[3] = s
    BY CallMade
  <2> QED BY <2>1
<1> QED BY <1>6, <1>7

(* A visit from the top, where no vertex is grey. *)
Clear(s) == s.r = 0 /\ s.cycle = <<>> /\ Of(s, {"GREY"}) = {}

LEMMA VisitFinds ==
  ASSUME NEW G \in Graphs, Fine(G), IsFiniteSet(Vertices), NEW v \in Vertices,
         NEW s \in Searches, s.cycle = <<>>, Of(s, {"GREY"}) = {}
  PROVE  LET q == Search!DfsVisit(G, v, s) IN
         Clear(q) \/ (q.r \in {1, 2} /\ Circle(G, q.cycle))
<1>1. PICK p \in Searches :
        /\ p = Search!Paint(s, v, "GREY")
        /\ p.color = [s.color EXCEPT ![v] = "GREY"] /\ p.cycle = s.cycle
  <2>1. PICK c \in Colours : c = "GREY"
    BY ColourNames
  <2>2. PICK p \in Searches : p = Search!Paint(s, v, c)
    BY PaintFacts
  <2>3. p.color = [s.color EXCEPT ![v] = c] /\ p.cycle = s.cycle
    BY <2>2, PaintFacts
  <2> QED BY <2>1, <2>2, <2>3
<1>2. s.color \in [Vertices -> Colours]
  BY SearchParts
<1>3. Of(p, {"GREY"}) = {v} /\ p.color[v] = "GREY"
  BY <1>1, <1>2 DEF Of
<1>4. PICK f : IsLoop("dfs", G, f) /\ Search!DfsVisit(G, v, s) = f[<<v, 1, p>>]
  BY <1>1, VisitsAre
<1>5. PICK i \in Nat \ {0} : i = 1
  OBVIOUS
<1>6. PICK q : q = f[<<v, i, p>>]
  OBVIOUS
<1>7. Found(G, v, p, q)
  BY <1>1, <1>3, <1>4, <1>6, LoopFinds
<1>8. CASE q.r = 0 /\ q.cycle = <<>> /\ Of(q, {"GREY"}) = Of(p, {"GREY"}) \ {v}
  BY <1>3, <1>4, <1>5, <1>6, <1>8 DEF Clear
<1>9. CASE /\ q.r = 1 /\ Chain(G, q.cycle)
           /\ q.cycle[Len(q.cycle)].from = v /\ q.cycle[1].to \in Of(p, {"GREY"})
  BY <1>3, <1>4, <1>5, <1>6, <1>9 DEF Circle
<1>10. CASE q.r = 2 /\ Circle(G, q.cycle)
  BY <1>4, <1>5, <1>6, <1>10
<1> QED BY <1>7, <1>8, <1>9, <1>10 DEF Found

(* The circles of G are longer than the two edges has_cycle passes over.   *)
Long(G) == \A c : Circle(G, c) => Len(c) > 2

LEMMA HasCycleFacts ==
  ASSUME NEW G \in Graphs, IsFiniteSet(Vertices), NEW us \in Seq(Vertices)
  PROVE  LET d == Search!HasCycle(G, us) IN
         /\ d.found \in BOOLEAN /\ d.cycle \in Seq(Drawn(G))
         /\ Fine(G) /\ Long(G) /\ d.found => Circle(G, d.cycle)
<1>1. PICK first : first = Search!NewSearch(G, <<>>)
  OBVIOUS
<1>2. PICK run : /\ RunOver("dfs", G, us, first, run)
                 /\ Search!HasCycle(G, us) = [found |-> Search!Reports(run[Len(us)]),
                                              cycle |-> run[Len(us)].cycle]
  BY <1>1, HasCycleRun
<1>3. PICK n \in Nat : n = Len(us)
  OBVIOUS
<1>4. PICK d : d = Search!HasCycle(G, us)
  OBVIOUS
<1>5. d.found = Search!Reports(run[n]) /\ d.cycle = run[n].cycle
  BY <1>2, <1>3, <1>4
<1>6. /\ \A i \in 0..n : run[i] \in Searches /\ run[i].cycle \in Seq(Drawn(G))
      /\ run[0] = first
  BY <1>2, <1>3 DEF RunOver, Within
<1>7. \A i \in 1..n : run[i] = IF Search!Reports(run[i - 1]) \/ run[i - 1].color[us[i]] # "WHITE"
                               THEN run[i - 1] ELSE Search!DfsVisit(G, us[i], run[i - 1])
  BY <1>2, <1>3 DEF RunOver, StepOf
<1>8. d.found \in BOOLEAN
  BY <1>5 DEF Search!Reports
<1>9. d.cycle \in Seq(Drawn(G))
  BY <1>5, <1>6
<1>10. ASSUME Fine(G), Long(G) PROVE d.found => Circle(G, d.cycle)
  <2> DEFINE Good(s) == Clear(s) \/ (Search!Reports(s) /\ Circle(G, s.cycle))
  <2>1. PICK S : S = {i \in 0..n : Good(run[i])}
    OBVIOUS
  <2>2. 0 \in S
    <3>1. <<>> \in Seq(Drawn(G))
      OBVIOUS
    <3>2. first.r = 0 /\ first.cycle = <<>> /\ \A v \in Vertices : first.color[v] = "WHITE"
      BY <1>1, <3>1, NewSearchFacts
    <3>3. Clear(first)
      BY <3>2 DEF Clear, Of
    <3> QED BY <1>6, <2>1, <3>3
  <2>3. ASSUME NEW i \in 1..n, i - 1 \in S PROVE i \in S
    <3>1. PICK s \in Searches : s = run[i - 1] /\ Good(s)
      BY <1>6, <2>1, <2>3
    <3>2. us[i] \in Vertices
      BY <1>3
    <3>3. CASE Search!Reports(s) \/ s.color[us[i]] # "WHITE"
      BY <1>7, <2>1, <3>1, <3>3
    <3>4. CASE ~ (Search!Reports(s) \/ s.color[us[i]] # "WHITE")
      <4>1. s.cycle = <<>> /\ Of(s, {"GREY"}) = {}
        BY <3>1, <3>4 DEF Clear
      <4>2. PICK q : q = Search!DfsVisit(G, us[i], s)
        OBVIOUS
      <4>3. Clear(q) \/ (q.r \in {1, 2} /\ Circle(G, q.cycle))
        BY <1>10, <3>2, <4>1, <4>2, VisitFinds
      <4>4. Good(q)
        BY <1>10, <4>3 DEF Long, Search!Reports
      <4>5. q = run[i]
        BY <1>7, <3>1, <3>4, <4>2
      <4> QED BY <2>1, <4>4, <4>5
    <3> QED BY <3>3, <3>4
  <2>4. \A i \in 0..n : i \in S
    BY <2>2, <2>3, StepByStep
  <2>5. Good(run[n])
    BY <2>1, <2>4
  <2>6. Clear(run[n]) => ~ Search!Reports(run[n])
    BY DEF Clear, Search!Reports
  <2> QED BY <1>5, <2>5, <2>6
<1> QED BY <1>4, <1>8, <1>9, <1>10

-----------------------------------------------------------------------------
(* That has_cycle finds the cycles there are *)

Black == {"BLACK"}

(* From a black vertex lock edges lead to black ones only, and w falls     *)
(* along them: among black vertices there is no circle.                    *)
Settled(G, s) ==
  /\ Of(s, {"RED"}) = {}
  /\ \E w \in [Vertices -> Nat], K \in Nat :
       /\ \A u \in Vertices : w[u] < K
       /\ \A e \in Links : LockEdge(G, e) /\ e.from \in Of(s, Black) =>
                             e.to \in Of(s, Black) /\ w[e.to] < w[e.from]

(* The loop of v has got to edge i without finding anything.               *)
Ready(G, v, i, s) ==
  /\ s.cycle = <<>> /\ s.color[v] = "GREY" /\ Settled(G, s)
  /\ \A j \in 1..Len(G.edges[v]) : j < i =>
       G.edges[v][j].type = "YIELD" \/ G.edges[v][j].to \in Of(s, Black)

(* If the visit of v finds nothing, v is black, and what was black still.  *)
Done(G, v, s, q) ==
  q.r = 0 => v \in Of(q, Black) /\ Of(s, Black) \subseteq Of(q, Black) /\ Settled(G, q)

(* A vertex turns black when all its lock edges lead to black ones. *)
LEMMA Finishes ==
  ASSUME NEW G \in Graphs, NEW v \in Vertices, NEW s \in Searches, NEW i, Ready(G, v, i, s),
         \A j \in 1..Len(G.edges[v]) : j < i, NEW x, x = [Search!Paint(s, v, "BLACK") EXCEPT !.r = 0]
  PROVE  Done(G, v, s, x)
<1>1. PICK c \in Colours : c = "BLACK"
  BY ColourNames
<1>2. PICK p \in Searches : p = Search!Paint(s, v, c)
  BY PaintFacts
<1>3. p.color = [s.color EXCEPT ![v] = c]
  BY <1>2, PaintFacts
<1>4. x = [p EXCEPT !.r = 0]
  BY <1>1, <1>2
<1>5. x.color = [s.color EXCEPT ![v] = "BLACK"]
  <2>1. 0 \in 0..2
    OBVIOUS
  <2>2. [p EXCEPT !.r = 0].color = p.color
    BY ONLY <2>1, p \in Searches, ResultFacts
  <2> QED BY <1>1, <1>3, <1>4, <2>2
<1>6. s.color \in [Vertices -> Colours]
  BY SearchParts
<1>7. Of(x, Black) = Of(s, Black) \cup {v} /\ Of(x, {"RED"}) = {} /\ v \notin Of(s, Black)
  BY <1>5, <1>6 DEF Of, Black, Ready, Settled
<1>8. PICK w \in [Vertices -> Nat], K \in Nat :
        /\ \A u \in Vertices : w[u] < K
        /\ \A e \in Links : LockEdge(G, e) /\ e.from \in Of(s, Black) =>
                              e.to \in Of(s, Black) /\ w[e.to] < w[e.from]
  BY DEF Ready, Settled
<1>9. PICK w2 \in [Vertices -> Nat] : w2 = [w EXCEPT ![v] = K]
  OBVIOUS
<1>10. K + 1 \in Nat /\ \A u \in Vertices : w2[u] < K + 1
  BY <1>8, <1>9
<1>11. ASSUME NEW e \in Links, LockEdge(G, e), e.from \in Of(x, Black)
       PROVE  e.to \in Of(x, Black) /\ w2[e.to] < w2[e.from]
  <2>1. CASE e.from = v
    <3>1. PICK j \in DOMAIN G.edges[v] : e = Search!Edge(v, G.edges[v][j])
      BY <1>11, <2>1 DEF LockEdge, Drawn
    <3>2. j \in 1..Len(G.edges[v])
      BY <3>1 DEF Graphs
    <3>3. e.to = G.edges[v][j].to /\ e.type = G.edges[v][j].type
      BY <3>1, <3>2, EdgeFacts
    <3>4. e.to \in Of(s, Black)
      BY <1>11, <3>2, <3>3 DEF Ready, LockEdge
    <3>5. e.to # v /\ e.to \in Vertices
      BY <1>7, <3>4 DEF Of
    <3> QED BY <1>7, <1>8, <1>9, <2>1, <3>4, <3>5
  <2>2. CASE e.from # v
    <3>1. e.from \in Of(s, Black)
      BY <1>7, <1>11, <2>2
    <3>2. e.to \in Of(s, Black) /\ w[e.to] < w[e.from]
      BY <1>8, <1>11, <3>1
    <3>3. e.to # v /\ e.to \in Vertices /\ e.from \in Vertices
      BY <1>7, <3>1, <3>2 DEF Of
    <3> QED BY <1>7, <1>9, <2>2, <3>2, <3>3
  <2> QED BY <2>1, <2>2
<1>12. Settled(G, x)
  BY <1>7, <1>10, <1>11 DEF Settled
<1> QED BY <1>7, <1>12 DEF Done

(* The state in which a white vertex is visited. *)
LEMMA Enters ==
  ASSUME NEW G \in Graphs, NEW u \in Vertices, NEW s \in Searches, s.cycle = <<>>,
         s.color[u] = "WHITE", Settled(G, s), NEW p, p = Search!Paint(s, u, "GREY"),
         NEW i \in Nat, i = 1
  PROVE  p \in Searches /\ Ready(G, u, i, p) /\ Of(p, Black) = Of(s, Black)
<1>1. PICK c \in Colours : c = "GREY"
  BY ColourNames
<1>2. p \in Searches /\ p.color = [s.color EXCEPT ![u] = c] /\ p.cycle = s.cycle
  BY <1>1, PaintFacts
<1>3. s.color \in [Vertices -> Colours]
  BY SearchParts
<1>4. Of(p, Black) = Of(s, Black) /\ Of(p, {"RED"}) = Of(s, {"RED"}) /\ p.color[u] = "GREY"
  BY <1>1, <1>2, <1>3 DEF Of, Black
<1>5. Settled(G, p)
  BY <1>4 DEF Settled
<1>6. Len(G.edges[u]) \in Nat
  BY DEF Graphs
<1> QED BY <1>2, <1>4, <1>5, <1>6 DEF Ready

(* The calls of lower rank than c settle what they should. *)
SettleBelow(G, w, f, c) ==
  \A d \in Calls : w[d] < w[c] /\ Ready(G, d[1], d[2], d[3]) => Done(G, d[1], d[3], f[d])

LEMMA NextSettles ==
  ASSUME NEW G \in Graphs, NEW w, Lowers(G, Fresh, w), NEW v \in Vertices, NEW i \in Nat \ {0},
         i <= Len(G.edges[v]), NEW s \in Searches, NEW f, SettleBelow(G, w, f, <<v, i, s>>),
         Ready(G, v, i, s), NEW b, From(G, Fresh, s, b), Of(s, Black) \subseteq Of(b, Black),
         Settled(G, b), b.cycle = <<>>, b.color[v] = "GREY",
         G.edges[v][i].type = "YIELD" \/ G.edges[v][i].to \in Of(b, Black)
  PROVE  Done(G, v, s, f[<<v, i + 1, b>>])
<1>1. <<v, i + 1, b>> \in Calls /\ w[<<v, i + 1, b>>] < w[<<v, i, s>>]
  BY LowerNext
<1>2. PICK d \in Calls : d = <<v, i + 1, b>> /\ w[d] < w[<<v, i, s>>]
  BY <1>1
<1>3. d[1] = v /\ d[2] = i + 1 /\ d[3] = b
  BY ONLY <1>2
<1>4. Ready(G, v, i + 1, b)
  <2>1. Len(G.edges[v]) \in Nat
    BY DEF Graphs
  <2>2. ASSUME NEW j \in 1..Len(G.edges[v]), j < i + 1
        PROVE  G.edges[v][j].type = "YIELD" \/ G.edges[v][j].to \in Of(b, Black)
    <3>1. CASE j = i
      BY <3>1
    <3>2. CASE j < i
      BY <3>2 DEF Ready
    <3>3. j = i \/ j < i
      BY <2>1, <2>2
    <3> QED BY <3>1, <3>2, <3>3
  <2> QED BY <2>2 DEF Ready
<1>5. Done(G, v, b, f[d])
  BY <1>2, <1>3, <1>4 DEF SettleBelow
<1> QED BY <1>2, <1>5 DEF Done

LEMMA DfsSettles ==
  ASSUME NEW G \in Graphs, Fine(G), IsFiniteSet(Vertices), NEW w, Lowers(G, Fresh, w),
         NEW v \in Vertices, NEW i \in Nat \ {0}, NEW s \in Searches, NEW f, IsLoop("dfs", G, f),
         Sound(G, Fresh, w, f, <<v, i, s>>), SettleBelow(G, w, f, <<v, i, s>>), Ready(G, v, i, s)
  PROVE  Done(G, v, s, Search!DfsLoop(f, G, v, i, s))
<1>1. PICK x : x = Search!DfsLoop(f, G, v, i, s)
  OBVIOUS
<1>2. PICK e : e = Target(G, v, i)
  OBVIOUS
<1>3. PICK b : b = Below(f, s, e)
  OBVIOUS
<1>4. Len(G.edges[v]) \in Nat
  BY DEF Graphs
<1>5. DfsCase(f, G, v, i, s, e, b, x)
  BY <1>1, <1>2, <1>3, DfsIs
<1>6. s.color \in [Vertices -> Colours] /\ s.cycle = <<>> /\ s.color[v] = "GREY" /\ Settled(G, s)
  BY SearchParts DEF Ready
<1>7. CASE i > Len(G.edges[v])
  <2>1. x = [Search!Paint(s, v, "BLACK") EXCEPT !.r = 0]
    BY <1>5, <1>7 DEF DfsCase
  <2>2. \A j \in 1..Len(G.edges[v]) : j < i
    BY <1>4, <1>7
  <2> QED BY <1>1, <2>1, <2>2, Finishes
<1>8. CASE ~ (i > Len(G.edges[v]))
  <2>1. i <= Len(G.edges[v]) /\ i \in 1..Len(G.edges[v])
    BY <1>4, <1>8
  <2>2. /\ e \in Drawn(G) /\ e \in Links /\ e.to \in Vertices /\ e.from = v
        /\ e.to = G.edges[v][i].to /\ e.type = G.edges[v][i].type
    BY <1>2, <2>1, EdgeFacts DEF Target
  <2>3. s.color[e.to] \in Colours /\ s.color[e.to] # "RED"
    BY <1>6, <2>2 DEF Settled, Of
  <2>4. CASE e.type = "YIELD" \/ s.color[e.to] = "BLACK"
    <3>1. x = f[<<v, i + 1, s>>]
      BY <1>5, <1>8, <2>4 DEF DfsCase
    <3>2. G.edges[v][i].type = "YIELD" \/ G.edges[v][i].to \in Of(s, Black)
      BY <2>2, <2>4 DEF Of, Black
    <3>3. Done(G, v, s, f[<<v, i + 1, s>>])
      BY <1>6, <2>1, <3>2, FromItself, NextSettles
    <3> QED BY <1>1, <3>1, <3>3
  <2>5. CASE e.type # "YIELD" /\ s.color[e.to] = "GREY"
    <3>1. x = Search!Collect(s, e)
      BY <1>5, <1>8, <2>5 DEF DfsCase
    <3>2. x.r = 1
      BY <2>2, <3>1, CollectFacts
    <3> QED BY <1>1, <3>2 DEF Done
  <2>6. CASE e.type # "YIELD" /\ s.color[e.to] = "WHITE"
    <3>1. From(G, Fresh, s, b) /\ b.r \in 0..2 /\ b \in Searches
      BY <1>2, <1>3, <2>1, <2>6, BelowFrom DEF From
    <3>2. PICK p : p = Search!Paint(s, e.to, "GREY")
      OBVIOUS
    <3>3. PICK k \in Nat \ {0} : k = 1
      OBVIOUS
    <3>4. p \in Searches /\ Ready(G, e.to, k, p) /\ Of(p, Black) = Of(s, Black)
      BY <1>6, <2>2, <2>6, <3>2, <3>3, Enters
    <3>5. b = f[<<e.to, k, p>>]
      BY <1>3, <3>2, <3>3 DEF Below
    <3>6. Of(p, Fresh) \subseteq Of(s, Fresh) \ {e.to} /\ e.to \in Of(s, Fresh)
      <4>1. Of(p, Fresh) = Of(s, Fresh) \ {e.to}
        BY <2>2, <3>2, ColourNames, GreyFacts
      <4> QED BY <2>2, <2>6, <4>1 DEF Of, Fresh
    <3>7. PICK d \in Calls : d = <<e.to, k, p>> /\ w[d] < w[<<v, i, s>>]
      BY <2>2, <3>3, <3>4, <3>6, LowerTarget
    <3>8. Done(G, e.to, p, b)
      <4>1. d[1] = e.to /\ d[2] = k /\ d[3] = p
        BY ONLY <3>7
      <4> QED BY <3>4, <3>5, <3>7, <4>1 DEF SettleBelow
    <3>9. Found(G, e.to, p, b)
      BY <2>2, <3>3, <3>4, <3>5, LoopFinds DEF Ready
    <3>10. CASE b.r = 0
      <4>1. x = f[<<v, i + 1, b>>]
        BY <1>5, <1>8, <2>6, <3>10 DEF DfsCase
      <4>2. e.to \in Of(b, Black) /\ Of(s, Black) \subseteq Of(b, Black) /\ Settled(G, b)
        BY <3>4, <3>8, <3>10 DEF Done
      <4>3. b.cycle = <<>> /\ Of(b, {"GREY"}) = Of(p, {"GREY"}) \ {e.to}
        BY <3>9, <3>10 DEF Found
      <4>4. b.color[v] = "GREY"
        <5>1. v # e.to
          BY <1>6, <2>6
        <5>2. p.color = [s.color EXCEPT ![e.to] = "GREY"]
          BY <2>2, <3>2, ColourNames, PaintFacts
        <5>3. v \in Of(p, {"GREY"})
          BY <1>6, <5>1, <5>2 DEF Of
        <5>4. v \in Of(b, {"GREY"})
          BY <4>3, <5>1, <5>3
        <5> QED BY <5>4 DEF Of
      <4>5. G.edges[v][i].to \in Of(b, Black)
        BY <2>2, <4>2
      <4>6. Done(G, v, s, f[<<v, i + 1, b>>])
        BY <2>1, <3>1, <4>2, <4>3, <4>4, <4>5, NextSettles
      <4> QED BY <1>1, <4>1, <4>6
    <3>11. CASE b.r = 1
      <4>1. x = IF Closes(G, e, b) THEN [b EXCEPT !.r = 2] ELSE Search!Collect(b, e)
        BY <1>5, <1>8, <2>6, <3>11 DEF DfsCase
      <4>2. x.r # 0
        <5>1. CASE Closes(G, e, b)
          BY <3>1, <4>1, <5>1, ColourNames, ResultFacts
        <5>2. CASE ~ Closes(G, e, b)
          BY <2>2, <3>1, <4>1, <5>2, CollectFacts
        <5> QED BY <5>1, <5>2
      <4> QED BY <1>1, <4>2 DEF Done
    <3>12. CASE b.r = 2
      <4>1. x = b
        BY <1>5, <1>8, <2>6, <3>12 DEF DfsCase
      <4> QED BY <1>1, <3>12, <4>1 DEF Done
    <3> QED BY <3>1, <3>10, <3>11, <3>12
  <2> QED BY <2>3, <2>4, <2>5, <2>6 DEF Colours
<1> QED BY <1>7, <1>8

LEMMA LoopSettles ==
  ASSUME NEW G \in Graphs, Fine(G), IsFiniteSet(Vertices), NEW f, IsLoop("dfs", G, f),
         NEW v \in Vertices, NEW i \in Nat \ {0}, NEW s \in Searches, Ready(G, v, i, s)
  PROVE  Done(G, v, s, f[<<v, i, s>>])
<1> DEFINE P == {c \in Calls : Ready(G, c[1], c[2], c[3]) => Done(G, c[1], c[3], f[c])}
<1>1. PICK w, K : Lowers(G, Fresh, w) /\ K \in Nat /\ \A c \in Calls : w[c] < K
  BY Ranked
<1>2. w \in [Calls -> Nat]
  BY <1>1 DEF Lowers
<1>3. PICK k \in Kinds : k = "dfs" /\ NewOf(k) = Fresh
  BY DEF Kinds, NewOf
<1>4. ASSUME NEW c \in Calls PROVE From(G, Fresh, c[3], f[c])
  <2>1. PICK u \in Vertices, j \in Nat \ {0}, q \in Searches : c = <<u, j, q>> /\ c[3] = q
    BY CallParts
  <2>2. From(G, NewOf(k), q, f[<<u, j, q>>])
    BY <1>3, LoopSound
  <2> QED BY <1>3, <2>1, <2>2
<1>5. ASSUME NEW c \in Calls, \A d \in Calls : w[d] < w[c] => d \in P PROVE c \in P
  <2>1. PICK u \in Vertices, j \in Nat \ {0}, q \in Searches : c = <<u, j, q>>
    BY CallParts
  <2>2. c[1] = u /\ c[2] = j /\ c[3] = q
    BY ONLY <2>1
  <2>3. Sound(G, Fresh, w, f, <<u, j, q>>)
    BY <1>4 DEF Sound
  <2>4. SettleBelow(G, w, f, <<u, j, q>>)
    BY <1>5, <2>1 DEF SettleBelow
  <2>5. ASSUME Ready(G, u, j, q) PROVE Done(G, u, q, Search!DfsLoop(f, G, u, j, q))
    BY <1>1, <2>3, <2>4, <2>5, DfsSettles
  <2>6. f[c] = Search!DfsLoop(f, G, c[1], c[2], c[3])
    <3>1. f = [d \in Calls |-> Search!DfsLoop(f, G, d[1], d[2], d[3])]
      BY DEF IsLoop, LoopOf
    <3> QED BY ONLY <3>1, c \in Calls
  <2> QED BY <2>2, <2>5, <2>6
<1>6. Calls \subseteq P
  <2> HIDE DEF P
  <2> QED BY <1>2, <1>5, ByRank
<1>7. PICK c \in Calls : c = <<v, i, s>> /\ c[1] = v /\ c[2] = i /\ c[3] = s
  <2>1. <<v, i, s>> \in Calls /\ <<v, i, s>>[1] = v /\ <<v, i, s>>[2] = i /\ <<v, i, s>>[3] = s
    BY CallMade
  <2> QED BY <2>1
<1> QED BY <1>6, <1>7

LEMMA VisitSettles ==
  ASSUME NEW G \in Graphs, Fine(G), IsFiniteSet(Vertices), NEW v \in Vertices,
         NEW s \in Searches, s.cycle = <<>>, s.color[v] = "WHITE", Settled(G, s)
  PROVE  Done(G, v, s, Search!DfsVisit(G, v, s))
<1>1. PICK i \in Nat \ {0} : i = 1
  OBVIOUS
<1>2. PICK p : p = Search!Paint(s, v, "GREY")
  OBVIOUS
<1>3. p \in Searches /\ Ready(G, v, i, p) /\ Of(p, Black) = Of(s, Black)
  BY <1>1, <1>2, Enters
<1>4. PICK f : IsLoop("dfs", G, f) /\ Search!DfsVisit(G, v, s) = f[<<v, i, p>>]
  BY <1>1, <1>2, VisitsAre
<1>5. Done(G, v, p, f[<<v, i, p>>])
  BY <1>3, <1>4, LoopSettles
<1> QED BY <1>3, <1>4, <1>5 DEF Done

(* No vertex of a set from which lock edges lead back into the set is      *)
(* black: w would fall for ever.                                           *)
LEMMA NoneBlack ==
  ASSUME NEW G, NEW s, Settled(G, s), NEW X \in SUBSET Vertices,
         \A v \in X : \E e \in Links : LockEdge(G, e) /\ e.from = v /\ e.to \in X
  PROVE  X \cap Of(s, Black) = {}
<1> SUFFICES ASSUME NEW v \in X \cap Of(s, Black) PROVE FALSE
  OBVIOUS
<1>1. PICK w \in [Vertices -> Nat] :
        \A e \in Links : LockEdge(G, e) /\ e.from \in Of(s, Black) =>
                           e.to \in Of(s, Black) /\ w[e.to] < w[e.from]
  BY DEF Settled
<1>2. PICK W \in SUBSET Nat : W = {w[u] : u \in X \cap Of(s, Black)}
  OBVIOUS
<1>3. PICK m \in W : \A k \in W : m <= k
  <2>1. w[v] \in W
    BY <1>2
  <2> QED BY <2>1, LeastNat
<1>4. PICK u \in X \cap Of(s, Black) : m = w[u]
  BY <1>2
<1>5. PICK e \in Links : LockEdge(G, e) /\ e.from = u /\ e.to \in X
  OBVIOUS
<1>6. e.to \in X \cap Of(s, Black) /\ w[e.to] < w[u]
  BY <1>1, <1>4, <1>5
<1>7. w[e.to] \in W /\ w[e.to] \in Nat /\ w[u] \in Nat
  BY <1>2, <1>6
<1>8. w[u] <= w[e.to]
  BY <1>3, <1>4, <1>7
<1> QED BY <1>6, <1>7, <1>8

(* has_cycle from vertices us, one of which has lock edges to none but     *)
(* others that have, reports.                                              *)
LEMMA HasCycleFinds ==
  ASSUME NEW G \in Graphs, Fine(G), Long(G), IsFiniteSet(Vertices), NEW us \in Seq(Vertices),
         NEW X \in SUBSET Vertices,
         \A v \in X : \E e \in Links : LockEdge(G, e) /\ e.from = v /\ e.to \in X,
         NEW at \in 1..Len(us), us[at] \in X
  PROVE  Search!HasCycle(G, us).found
<1>1. PICK first : first = Search!NewSearch(G, <<>>)
  OBVIOUS
<1>2. PICK run : /\ RunOver("dfs", G, us, first, run)
                 /\ Search!HasCycle(G, us) = [found |-> Search!Reports(run[Len(us)]),
                                              cycle |-> run[Len(us)].cycle]
  BY <1>1, HasCycleRun
<1>3. PICK n \in Nat : n = Len(us)
  OBVIOUS
<1>4. Search!HasCycle(G, us).found = Search!Reports(run[n])
  BY <1>2, <1>3
<1>5. (\A i \in 0..n : run[i] \in Searches) /\ run[0] = first
  BY <1>2, <1>3 DEF RunOver, Within
<1>6. \A i \in 1..n : run[i] = IF Search!Reports(run[i - 1]) \/ run[i - 1].color[us[i]] # "WHITE"
                               THEN run[i - 1] ELSE Search!DfsVisit(G, us[i], run[i - 1])
  BY <1>2, <1>3 DEF RunOver, StepOf
<1> DEFINE Nothing(i, s) == Clear(s) /\ Settled(G, s) /\ \A k \in 1..i : us[k] \in Of(s, Black)
<1>7. PICK S : S = {i \in 0..n : Search!Reports(run[i]) \/ Nothing(i, run[i])}
  OBVIOUS
<1>8. 0 \in S
  <2>1. <<>> \in Seq(Drawn(G))
    OBVIOUS
  <2>2. first.r = 0 /\ first.cycle = <<>> /\ \A v \in Vertices : first.color[v] = "WHITE"
    BY <1>1, <2>1, NewSearchFacts
  <2>3. Clear(first) /\ Of(first, {"RED"}) = {} /\ Of(first, Black) = {}
    BY <2>2 DEF Clear, Of, Black
  <2>4. PICK w \in [Vertices -> Nat] : w = [v \in Vertices |-> 0]
    OBVIOUS
  <2>5. PICK K \in Nat : K = 1
    OBVIOUS
  <2>6. Settled(G, first)
    BY <2>3, <2>4, <2>5 DEF Settled
  <2> QED BY <1>5, <1>7, <2>3, <2>6
<1>9. ASSUME NEW i \in 1..n, i - 1 \in S PROVE i \in S
  <2>1. PICK s \in Searches : s = run[i - 1] /\ (Search!Reports(s) \/ Nothing(i - 1, s))
    BY <1>5, <1>7, <1>9
  <2>2. us[i] \in Vertices
    BY <1>3
  <2>3. \A k \in 1..i : k \in 1..(i - 1) \/ k = i
    OBVIOUS
  <2>4. CASE Search!Reports(s)
    BY <1>6, <1>7, <2>1, <2>4
  <2>5. CASE ~ Search!Reports(s) /\ s.color[us[i]] # "WHITE"
    <3>1. s.color[us[i]] \in Colours
      BY <2>2, SearchParts
    <3>2. us[i] \in Of(s, Black)
      BY <2>1, <2>2, <2>5, <3>1 DEF Clear, Settled, Of, Black, Colours
    <3>3. run[i] = s
      BY <1>6, <2>1, <2>5
    <3> QED BY <1>7, <2>1, <2>3, <2>5, <3>2, <3>3
  <2>6. CASE ~ Search!Reports(s) /\ s.color[us[i]] = "WHITE"
    <3>1. s.cycle = <<>> /\ Of(s, {"GREY"}) = {} /\ Settled(G, s)
      BY <2>1, <2>6 DEF Clear
    <3>2. PICK q : q = Search!DfsVisit(G, us[i], s)
      OBVIOUS
    <3>3. q = run[i]
      BY <1>6, <2>1, <2>6, <3>2
    <3>4. Clear(q) \/ (q.r \in {1, 2} /\ Circle(G, q.cycle))
      BY <2>2, <3>1, <3>2, VisitFinds
    <3>5. CASE Clear(q)
      <4>1. Done(G, us[i], s, q)
        BY <2>2, <2>6, <3>1, <3>2, VisitSettles
      <4>2. us[i] \in Of(q, Black) /\ Of(s, Black) \subseteq Of(q, Black) /\ Settled(G, q)
        BY <3>5, <4>1 DEF Clear, Done
      <4>3. \A k \in 1..i : us[k] \in Of(q, Black)
        BY <2>1, <2>3, <2>6, <4>2
      <4> QED BY <1>7, <3>3, <3>5, <4>2, <4>3
    <3>6. CASE q.r \in {1, 2} /\ Circle(G, q.cycle)
      <4>1. Search!Reports(q)
        BY <3>6 DEF Long, Search!Reports
      <4> QED BY <1>7, <3>3, <4>1
    <3> QED BY <3>4, <3>5, <3>6
  <2> QED BY <2>4, <2>5, <2>6
<1>10. \A i \in 0..n : i \in S
  BY <1>8, <1>9, StepByStep
<1>11. Search!Reports(run[n]) \/ Nothing(n, run[n])
  BY <1>7, <1>10
<1>12. ~ Nothing(n, run[n])
  <2> SUFFICES ASSUME Nothing(n, run[n]) PROVE FALSE
    OBVIOUS
  <2>1. us[at] \in Of(run[n], Black)
    BY <1>3
  <2>2. X \cap Of(run[n], Black) = {}
    BY NoneBlack
  <2> QED BY <2>1, <2>2
<1> QED BY <1>4, <1>11, <1>12
=============================================================================
