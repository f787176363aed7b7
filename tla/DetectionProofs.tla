-------------------------- MODULE DetectionProofs ---------------------------
(***************************************************************************)
(* The theorems of the whole port: what the monitor reports is a deadlock, *)
(* no deadlock it has been told of escapes it, its graph has the locks of  *)
(* every thread it has read, its searches do to the threads only what      *)
(* Avoidance describes, and every variable keeps its type.                 *)
(*                                                                         *)
(* A circle of lock edges that tell the truth (True) is a deadlock, since a *)
(* mutex is held by one thread and a thread asks for one mutex.  The edges *)
(* tell the truth when no event is unread, which is what GraphIsExact says *)
(* of them, if they have the shape that their vertices give them: threads  *)
(* ask for mutexes and yield to threads, and mutexes are held by threads   *)
(* (Shaped).  The events keep that shape, because each of them says enough *)
(* (SoundEvents).                                                          *)
(***************************************************************************)
EXTENDS SearchProofs

-----------------------------------------------------------------------------
(* The template of a cycle *)

Turned(c, i) == c[Len(c) + 1 - i]

(* Position i of T is that of edge g[i] of c, with one position for each   *)
(* of the edges of the types K from the last k on.                         *)
Marks(c, K, k, T, g) ==
  /\ g \in Seq(1..Len(c)) /\ Len(g) = Len(T)
  /\ \A i \in 1..Len(T) : c[g[i]].type \in K /\ T[i] = c[g[i]].pos /\ g[i] > Len(c) - k
  /\ \A i, j \in 1..Len(T) : g[i] = g[j] => i = j
  /\ \A j \in 1..Len(c) : j > Len(c) - k /\ c[j].type \in K => \E i \in 1..Len(T) : g[i] = j

Places == Positions \cup {NULL}

TemplateStep(c, K, i, r) ==
  IF Turned(c, i).type \in K THEN Append(r, Turned(c, i).pos) ELSE r

LEMMA TurnedType ==
  ASSUME NEW c \in Seq(Links), NEW i \in 1..Len(c)
  PROVE  /\ Len(c) + 1 - i \in 1..Len(c) /\ Turned(c, i) = c[Len(c) + 1 - i]
         /\ Turned(c, i) \in Links /\ Turned(c, i).pos \in Places
<1>1. Len(c) + 1 - i \in 1..Len(c) /\ Turned(c, i) = c[Len(c) + 1 - i]
  BY DEF Turned
<1>2. Turned(c, i) \in Links
  BY <1>1
<1> QED BY <1>1, <1>2 DEF Links, Search!Links, Places

LEMMA TemplateRun ==
  ASSUME NEW c \in Seq(Links), NEW K
  PROVE  \E rest : /\ rest[0] = <<>>
                   /\ \A i \in 1..Len(c) : rest[i] = TemplateStep(c, K, i, rest[i - 1])
                   /\ TemplateOf(c, K) = rest[Len(c)]
<1>1. PICK n \in Nat : n = Len(c)
  OBVIOUS
<1>2. PICK R : R = Seq(Places)
  OBVIOUS
<1>3. PICK H : H = [x \in (1..n) \X R |-> TemplateStep(c, K, x[1], x[2])]
  OBVIOUS
<1>0. PICK none : none = <<>>
  OBVIOUS
<1>4. Runs(n, R, none, H)
  <2>1. none \in R
    BY <1>0, <1>2
  <2>2. ASSUME NEW x \in (1..n) \X R PROVE TemplateStep(c, K, x[1], x[2]) \in R
    <3>1. PICK i \in 1..n : i = x[1]
      OBVIOUS
    <3>2. PICK r \in Seq(Places) : r = x[2]
      BY <1>2
    <3>3. Turned(c, i).pos \in Places
      BY <1>1, TurnedType
    <3>4. Append(r, Turned(c, i).pos) \in Seq(Places)
      BY <3>3, AppendLink
    <3> QED BY <1>2, <3>1, <3>2, <3>4 DEF TemplateStep
  <2>3. H \in [(1..n) \X R -> R]
    BY <1>3, <2>2
  <2> QED BY <1>1, <2>1, <2>3 DEF Runs
<1>5. PICK run \in [0..n -> R] :
        run = [i \in 0..n |-> IF i = 0 THEN none ELSE H[<<i, run[i - 1]>>]]
  BY ONLY <1>4, RunIs
<1>6. \A i \in 0..n : run[i] = IF i = 0 THEN none ELSE H[<<i, run[i - 1]>>]
  BY ONLY <1>5
<1>7. ASSUME NEW i \in 0..n
      PROVE  run[i] = IF i = 0 THEN <<>> ELSE TemplateStep(c, K, i, run[i - 1])
  <2>1. CASE i = 0
    BY <1>0, <1>6, <2>1
  <2>2. CASE i # 0
    <3>1. i - 1 \in 0..n /\ i \in 1..n
      BY <2>2
    <3>2. PICK r \in R : r = run[i - 1]
      BY <1>5, <3>1
    <3>3. PICK x \in (1..n) \X R : x = <<i, r>> /\ x[1] = i /\ x[2] = r
      <4>1. <<i, r>> \in (1..n) \X R /\ <<i, r>>[1] = i /\ <<i, r>>[2] = r
        BY <3>1
      <4> QED BY <4>1
    <3> QED BY <1>3, <1>6, <2>2, <3>2, <3>3
  <2> QED BY <2>1, <2>2
<1>8. run = [i \in 0..n |-> IF i = 0 THEN <<>> ELSE TemplateStep(c, K, i, run[i - 1])]
  BY <1>5, <1>7
<1>9. \E rest :
        /\ rest = [i \in 0..Len(c) |->
             IF i = 0 THEN <<>>
             ELSE IF c[Len(c) + 1 - i].type \in K THEN Append(rest[i - 1], c[Len(c) + 1 - i].pos)
             ELSE rest[i - 1]]
        /\ TemplateOf(c, K) = rest[Len(c)]
  <2>1. \E rest : rest = [i \in 0..Len(c) |->
             IF i = 0 THEN <<>>
             ELSE IF c[Len(c) + 1 - i].type \in K THEN Append(rest[i - 1], c[Len(c) + 1 - i].pos)
             ELSE rest[i - 1]]
    BY ONLY <1>1, <1>8 DEF TemplateStep, Turned
  <2> QED BY <2>1 DEF TemplateOf
<1>10. PICK rest :
        /\ rest = [i \in 0..Len(c) |->
             IF i = 0 THEN <<>>
             ELSE IF c[Len(c) + 1 - i].type \in K THEN Append(rest[i - 1], c[Len(c) + 1 - i].pos)
             ELSE rest[i - 1]]
        /\ TemplateOf(c, K) = rest[Len(c)]
  BY <1>9
<1>11. rest = [i \in 0..n |-> IF i = 0 THEN <<>> ELSE TemplateStep(c, K, i, rest[i - 1])]
  BY ONLY <1>1, <1>10 DEF TemplateStep, Turned
<1>12. rest[0] = <<>> /\ \A i \in 1..n : rest[i] = TemplateStep(c, K, i, rest[i - 1])
  <2>1. \A i \in 0..n : rest[i] = IF i = 0 THEN <<>> ELSE TemplateStep(c, K, i, rest[i - 1])
    BY ONLY <1>11
  <2> QED BY ONLY <1>1, <2>1
<1> QED BY <1>1, <1>10, <1>12

LEMMA TemplateMarks ==
  ASSUME NEW c \in Seq(Links), NEW K
  PROVE  \E g : TemplateOf(c, K) \in Seq(Places) /\ Marks(c, K, Len(c), TemplateOf(c, K), g)
<1>1. PICK rest : /\ rest[0] = <<>>
                  /\ \A i \in 1..Len(c) : rest[i] = TemplateStep(c, K, i, rest[i - 1])
                  /\ TemplateOf(c, K) = rest[Len(c)]
  BY TemplateRun
<1>2. PICK n \in Nat : n = Len(c)
  OBVIOUS
<1> DEFINE Good(k, T) == T \in Seq(Places) /\ \E g : Marks(c, K, k, T, g)
<1>3. PICK S : S = {k \in 0..n : Good(k, rest[k])}
  OBVIOUS
<1>4. 0 \in S
  <2>1. PICK g : g = <<>>
    OBVIOUS
  <2>2. PICK T : T = <<>>
    OBVIOUS
  <2>3. g \in Seq(1..n) /\ Len(g) = 0 /\ T \in Seq(Places) /\ Len(T) = 0
    BY <2>1, <2>2
  <2>4. Marks(c, K, 0, T, g)
    BY <1>2, <2>3 DEF Marks
  <2>5. Good(0, T)
    BY <2>3, <2>4
  <2> HIDE DEF Good
  <2> QED BY <1>1, <1>3, <2>2, <2>5
<1>5. ASSUME NEW k \in 1..n, k - 1 \in S PROVE k \in S
  <2>1. PICK g, T : /\ T = rest[k - 1] /\ T \in Seq(Places) /\ Marks(c, K, k - 1, T, g)
    <3>1. Good(k - 1, rest[k - 1])
      <4> HIDE DEF Good
      <4> QED BY <1>3, <1>5
    <3> QED BY <3>1
  <2>2. PICK e, m : /\ m = n + 1 - k /\ m \in 1..n /\ e = c[m] /\ e = Turned(c, k)
                    /\ e.pos \in Places
    BY <1>2, TurnedType
  <2>3. rest[k] = IF e.type \in K THEN Append(T, e.pos) ELSE T
    BY <1>1, <1>2, <2>1, <2>2 DEF TemplateStep
  <2>4. \A j \in 1..n : (j > n - k <=> (j = m \/ j > n - (k - 1)))
    BY <2>2
  <2>5. ~ (m > n - (k - 1)) /\ m > n - k
    BY <2>2
  <2>6. /\ g \in Seq(1..n) /\ Len(g) = Len(T) /\ Len(T) \in Nat
        /\ \A i \in 1..Len(T) : g[i] \in 1..n /\ c[g[i]].type \in K /\ T[i] = c[g[i]].pos
                                /\ g[i] > n - (k - 1)
        /\ \A i, j \in 1..Len(T) : g[i] = g[j] => i = j
        /\ \A j \in 1..n : j > n - (k - 1) /\ c[j].type \in K => \E i \in 1..Len(T) : g[i] = j
    BY <1>2, <2>1 DEF Marks
  <2>7. CASE e.type \notin K
    <3>1. Marks(c, K, k, T, g)
      BY <1>2, <2>2, <2>4, <2>6, <2>7 DEF Marks
    <3>2. Good(k, T)
      BY <2>1, <3>1
    <3> HIDE DEF Good
    <3> QED BY <1>3, <2>3, <2>7, <3>2
  <2>8. CASE e.type \in K
    <3>1. PICK l \in Nat : l = Len(T)
      BY <2>6
    <3>2. PICK T2 : T2 = Append(T, e.pos)
      OBVIOUS
    <3>3. PICK g2 : g2 = Append(g, m)
      OBVIOUS
    <3>4. /\ T2 \in Seq(Places) /\ Len(T2) = l + 1 /\ (\A i \in 1..l : T2[i] = T[i])
          /\ T2[l + 1] = e.pos
      BY <2>1, <2>2, <3>1, <3>2, AppendLink
    <3>5. /\ g2 \in Seq(1..n) /\ Len(g2) = l + 1 /\ (\A i \in 1..l : g2[i] = g[i])
          /\ g2[l + 1] = m
      BY <2>2, <2>6, <3>1, <3>3, AppendLink
    <3>6. \A i \in 1..(l + 1) : i \in 1..l \/ i = l + 1
      OBVIOUS
    <3>7. \A i \in 1..(l + 1) : c[g2[i]].type \in K /\ T2[i] = c[g2[i]].pos /\ g2[i] > n - k
      <4>1. ASSUME NEW i \in 1..l
            PROVE  c[g2[i]].type \in K /\ T2[i] = c[g2[i]].pos /\ g2[i] > n - k
        <5>1. g[i] \in 1..n /\ g[i] > n - k
          BY <2>4, <2>6, <3>1
        <5> QED BY <2>6, <3>1, <3>4, <3>5, <5>1
      <4>2. c[g2[l + 1]].type \in K /\ T2[l + 1] = c[g2[l + 1]].pos /\ g2[l + 1] > n - k
        BY <2>2, <2>5, <2>8, <3>4, <3>5
      <4> QED BY <3>6, <4>1, <4>2
    <3>8. \A i, j \in 1..(l + 1) : g2[i] = g2[j] => i = j
      <4>1. \A i \in 1..l : g[i] # m
        BY <2>5, <2>6, <3>1
      <4> SUFFICES ASSUME NEW i \in 1..(l + 1), NEW j \in 1..(l + 1), g2[i] = g2[j] PROVE i = j
        OBVIOUS
      <4>2. CASE i \in 1..l /\ j \in 1..l
        BY <2>6, <3>1, <3>5, <4>2
      <4>3. CASE i = l + 1 /\ j \in 1..l
        BY <3>5, <4>1, <4>3
      <4>4. CASE i \in 1..l /\ j = l + 1
        BY <3>5, <4>1, <4>4
      <4> QED BY <3>6, <4>2, <4>3, <4>4
    <3>9. \A j \in 1..n : j > n - k /\ c[j].type \in K => \E i \in 1..(l + 1) : g2[i] = j
      <4> SUFFICES ASSUME NEW j \in 1..n, j > n - k, c[j].type \in K
                   PROVE  \E i \in 1..(l + 1) : g2[i] = j
        OBVIOUS
      <4>1. CASE j = m
        <5>1. l + 1 \in 1..(l + 1)
          OBVIOUS
        <5> QED BY <3>5, <4>1, <5>1
      <4>2. CASE j # m
        <5>1. PICK i \in 1..l : g[i] = j
          BY <2>4, <2>6, <3>1, <4>2
        <5>2. i \in 1..(l + 1)
          OBVIOUS
        <5> QED BY <3>5, <5>1, <5>2
      <4> QED BY <4>1, <4>2
    <3>10. Marks(c, K, k, T2, g2)
      BY <1>2, <3>4, <3>5, <3>7, <3>8, <3>9 DEF Marks
    <3>11. Good(k, T2)
      BY <3>4, <3>10
    <3>12. rest[k] = T2
      BY <2>3, <2>8, <3>2
    <3> HIDE DEF Good
    <3> QED BY <1>3, <3>11, <3>12
  <2> QED BY <2>7, <2>8
<1>6. n \in S
  <2>1. \A i \in 0..n : i \in S
    <3> HIDE DEF Good
    <3> QED BY <1>4, <1>5, StepByStep
  <2> QED BY <2>1
<1>7. Good(n, rest[n])
  <2> HIDE DEF Good
  <2> QED BY <1>3, <1>6
<1> QED BY <1>1, <1>2, <1>7

(* What is saved has positions of the edges only. *)
LEMMA TemplateType ==
  ASSUME NEW c \in Seq(Links), NEW K, \A i \in 1..Len(c) : c[i].pos \in Positions
  PROVE  TemplateOf(c, K) \in Seq(Positions)
<1>1. PICK T, g : T = TemplateOf(c, K) /\ T \in Seq(Places) /\ Marks(c, K, Len(c), T, g)
  BY TemplateMarks
<1>2. \A i \in 1..Len(T) : T[i] \in Positions
  BY <1>1 DEF Marks
<1> QED BY <1>1, <1>2

-----------------------------------------------------------------------------
(* A circle of lock edges is a deadlock *)

(* What lock edge e says is so. *)
True(e) ==
  \/ /\ e.from \in Mutexes /\ e.type = "HOLD" /\ e.to \in Threads
     /\ owner[e.from] = e.to /\ acqPos[e.from] = e.pos
  \/ /\ e.from \in Threads /\ e.type # "HOLD" /\ e.to \in Mutexes
     /\ Asks(e.from) /\ arg[e.from].mtx = e.to

AllTrue(G) == \A e \in Links : LockEdge(G, e) => True(e)

(* The edge that edge k of a circle leads to, and back. *)
After(n, k) == IF k = 1 THEN n ELSE k - 1

(* Each of the n edges of c holds, and leads to where the one after begins. *)
Round(c, n) ==
  /\ n = Len(c)
  /\ \A k \in 1..n : True(c[k]) /\ After(n, k) \in 1..n /\ c[k].to = c[After(n, k)].from
  /\ \A j, k \in 1..n : c[j].from = c[k].from => j = k
  /\ \A j, k \in 1..n : c[j].to = c[k].to => j = k

LEMMA CircleFacts ==
  ASSUME NEW G, AllTrue(G), NEW c, Circle(G, c)
  PROVE  \E n \in Nat \ {0} : Round(c, n)
<1>1. PICK n \in Nat \ {0} : n = Len(c)
  BY DEF Circle, Chain
<1>2. \A k \in 1..n : c[k] \in Links /\ LockEdge(G, c[k])
  BY <1>1 DEF Circle, Chain
<1>3. ASSUME NEW k \in 1..n
      PROVE  After(n, k) \in 1..n /\ c[k].to = c[After(n, k)].from
  <2>1. CASE k = 1
    BY <1>1, <2>1 DEF Circle, After
  <2>2. CASE k # 1
    <3>1. k - 1 \in 1..n /\ k - 1 < n /\ (k - 1) + 1 = k
      BY <2>2
    <3>2. c[(k - 1) + 1].to = c[k - 1].from
      BY <1>1, <3>1 DEF Circle, Chain
    <3> QED BY <2>2, <3>1, <3>2 DEF After
  <2> QED BY <2>1, <2>2
<1>4. \A j, k \in 1..n : c[j].from = c[k].from => j = k
  BY <1>1 DEF Circle, Chain
<1>5. ASSUME NEW j \in 1..n, NEW k \in 1..n, c[j].to = c[k].to PROVE j = k
  <2>1. After(n, j) = After(n, k)
    BY <1>3, <1>4, <1>5
  <2> QED BY <2>1 DEF After
<1>6. \A k \in 1..n : True(c[k])
  BY <1>2 DEF AllTrue
<1>7. Round(c, n)
  BY ONLY <1>1, <1>3, <1>4, <1>5, <1>6 DEF Round
<1> QED BY ONLY <1>1, <1>7

(* Read from its HOLD edges, a circle is a deadlock and its template. *)
LEMMA CircleIsDeadlock ==
  ASSUME NEW G, AllTrue(G), NEW c, Circle(G, c), NEW T, T = TemplateOf(c, {"HOLD"})
  PROVE  /\ T # <<>>
         /\ \E f \in [DOMAIN T -> Threads], h \in [DOMAIN T -> Mutexes] : AskInCircle(T, f, h)
<1>1. c \in Seq(Links)
  BY DEF Circle, Chain
<1>2. PICK g : T \in Seq(Places) /\ Marks(c, {"HOLD"}, Len(c), T, g)
  BY <1>1, TemplateMarks
<1>0. PICK n \in Nat \ {0} : Round(c, n)
  BY CircleFacts
<1>3. /\ n = Len(c)
      /\ \A k \in 1..n : True(c[k]) /\ After(n, k) \in 1..n /\ c[k].to = c[After(n, k)].from
      /\ \A j, k \in 1..n : c[j].from = c[k].from => j = k
      /\ \A j, k \in 1..n : c[j].to = c[k].to => j = k
  BY <1>0 DEF Round
<1>4. PICK l \in Nat : l = Len(T) /\ DOMAIN T = 1..l
  BY <1>2
<1>5. /\ \A i \in 1..l : g[i] \in 1..n /\ c[g[i]].type = "HOLD" /\ T[i] = c[g[i]].pos
      /\ \A i, j \in 1..l : g[i] = g[j] => i = j
      /\ \A j \in 1..n : c[j].type = "HOLD" => \E i \in 1..l : g[i] = j
  <2>1. /\ g \in Seq(1..n) /\ Len(g) = l
        /\ \A i \in 1..l : c[g[i]].type \in {"HOLD"} /\ T[i] = c[g[i]].pos
        /\ \A i, j \in 1..l : g[i] = g[j] => i = j
        /\ \A j \in 1..n : j > n - n /\ c[j].type \in {"HOLD"} => \E i \in 1..l : g[i] = j
    BY <1>2, <1>3, <1>4 DEF Marks
  <2>2. \A i \in 1..l : g[i] \in 1..n
    BY ONLY <2>1
  <2>3. \A j \in 1..n : j > n - n
    BY <1>3
  <2>4. \A j \in 1..n : c[j].type = "HOLD" => \E i \in 1..l : g[i] = j
    BY ONLY <2>1, <2>3
  <2> QED BY ONLY <2>1, <2>2, <2>4
<1>6. ASSUME NEW k \in 1..n PROVE c[k].from \in Mutexes <=> c[k].type = "HOLD"
  BY <1>3, NodesAssumption DEF True
<1>7. T # <<>>
  <2>1. PICK k \in 1..n : c[k].type = "HOLD"
    <3>1. 1 \in 1..n /\ True(c[1]) /\ After(n, 1) \in 1..n /\ c[1].to = c[After(n, 1)].from
      BY <1>3
    <3>2. CASE c[1].type = "HOLD"
      BY <3>1, <3>2
    <3>3. CASE c[1].type # "HOLD"
      <4>1. c[After(n, 1)].from \in Mutexes
        BY <3>1, <3>3 DEF True
      <4> QED BY <1>6, <3>1, <4>1
    <3> QED BY <3>2, <3>3
  <2>2. PICK i \in 1..l : g[i] = k
    BY <1>5, <2>1
  <2> QED BY <1>4, <2>2
<1>8. PICK f : f = [i \in DOMAIN T |-> c[g[i]].to]
  OBVIOUS
<1>9. PICK h : h = [i \in DOMAIN T |-> c[g[i]].from]
  OBVIOUS
<1>10. ASSUME NEW i \in 1..l
       PROVE  /\ f[i] = c[g[i]].to /\ h[i] = c[g[i]].from
              /\ f[i] \in Threads /\ h[i] \in Mutexes /\ owner[h[i]] = f[i] /\ acqPos[h[i]] = T[i]
  <2>1. g[i] \in 1..n /\ c[g[i]].type = "HOLD" /\ T[i] = c[g[i]].pos /\ True(c[g[i]])
    BY <1>3, <1>5
  <2>2. f[i] = c[g[i]].to /\ h[i] = c[g[i]].from
    BY <1>4, <1>8, <1>9
  <2> QED BY <2>1, <2>2 DEF True
<1>11. f \in [DOMAIN T -> Threads] /\ h \in [DOMAIN T -> Mutexes]
  BY <1>4, <1>8, <1>9, <1>10
<1>12. ASSUME NEW i \in 1..l, NEW j \in 1..l, f[i] = f[j] PROVE i = j
  <2>1. g[i] \in 1..n /\ g[j] \in 1..n
    BY ONLY <1>5
  <2>2. c[g[i]].to = c[g[j]].to
    BY ONLY <1>10, <1>12
  <2>3. g[i] = g[j]
    BY ONLY <1>3, <2>1, <2>2
  <2> QED BY ONLY <1>5, <2>3
<1>13. ASSUME NEW i \in 1..l
       PROVE  Asks(f[i]) /\ \E j \in (1..l) \ {i} : arg[f[i]].mtx = h[j]
  <2>1. PICK k \in 1..n : k = After(n, g[i]) /\ c[k].from = f[i]
    <3>1. PICK a \in 1..n : a = g[i]
      BY ONLY <1>5
    <3>2. After(n, a) \in 1..n /\ c[a].to = c[After(n, a)].from
      BY ONLY <1>3
    <3>3. f[i] = c[a].to
      BY ONLY <1>10, <3>1
    <3> QED BY ONLY <3>1, <3>2, <3>3
  <2>2. Asks(f[i]) /\ arg[f[i]].mtx = c[k].to /\ c[k].to \in Mutexes
    BY <1>3, <1>10, <2>1, NodesAssumption DEF True
  <2>3. PICK m \in 1..n : m = After(n, k) /\ c[m].from = c[k].to
    BY <1>3
  <2>4. c[m].type = "HOLD"
    BY <1>6, <2>2, <2>3
  <2>5. PICK j \in 1..l : g[j] = m
    BY <1>5, <2>4
  <2>6. h[j] = arg[f[i]].mtx
    BY <1>10, <2>2, <2>3, <2>5
  <2>7. j # i
    BY <1>10, <2>2, <2>6 DEF Asks
  <2> QED BY <2>2, <2>6, <2>7
<1>14. AskInCircle(T, f, h)
  <2>1. \A i, j \in DOMAIN T : f[i] = f[j] => i = j
    BY ONLY <1>4, <1>12
  <2>2. \A i \in DOMAIN T : owner[h[i]] = f[i] /\ acqPos[h[i]] = T[i]
    BY ONLY <1>4, <1>10
  <2>3. \A i \in DOMAIN T : Asks(f[i]) /\ \E j \in DOMAIN T \ {i} : arg[f[i]].mtx = h[j]
    BY ONLY <1>4, <1>13
  <2> QED BY ONLY <2>1, <2>2, <2>3 DEF AskInCircle
<1> QED BY <1>7, <1>11, <1>14

-----------------------------------------------------------------------------
(* The shape of the graph *)

(* A thread asks for mutexes and yields to threads, once it is in Y; a     *)
(* mutex is held by threads; and every edge has a position.                *)
ThreadEdges(t, Y) ==
  {e \in Edges : /\ e.type # "HOLD" /\ e.pos \in Positions
                 /\ e.type = "YIELD" => e.to \in Threads /\ t \in Y
                 /\ e.type # "YIELD" => e.to \in Mutexes}
MutexEdges == {e \in Edges : e.type = "HOLD" /\ e.pos \in Positions /\ e.to \in Threads}

EdgesOf(v, Y) == IF v \in Threads THEN ThreadEdges(v, Y) ELSE MutexEdges

Shaped(G, Y) == G \in Graphs /\ \A v \in Vertices : G.edges[v] \in Seq(EdgesOf(v, Y))

LEMMA ShapedRewrites ==
  ASSUME NEW G, NEW Y, Shaped(G, Y), NEW v \in Vertices, NEW es \in Seq(EdgesOf(v, Y)), NEW N,
         Rewrites(G, N, v, es)
  PROVE  Shaped(N, Y)
BY DEF Shaped, Rewrites

LEMMA EdgesOfFacts ==
  ASSUME NEW v \in Vertices, NEW Y
  PROVE  /\ EdgesOf(v, Y) \subseteq Edges
         /\ v \in Threads => EdgesOf(v, Y) = ThreadEdges(v, Y)
         /\ v \in Mutexes => EdgesOf(v, Y) = MutexEdges
BY NodesAssumption DEF EdgesOf, ThreadEdges, MutexEdges

(* Without its element at i. *)
LEMMA RemoveSeq ==
  ASSUME NEW S, NEW es \in Seq(S), NEW i \in DOMAIN es
  PROVE  SubSeq(es, 1, i - 1) \o SubSeq(es, i + 1, Len(es)) \in Seq(S)
<1>1. i \in 1..Len(es) /\ Len(es) \in Nat
  OBVIOUS
<1>2. SubSeq(es, 1, i - 1) \in Seq(S)
  BY <1>1, SubSeqProperties, ElementOfSeq
<1>3. SubSeq(es, i + 1, Len(es)) \in Seq(S)
  <2>1. \A k \in (i + 1)..Len(es) : es[k] \in S
    BY <1>1
  <2> QED BY <2>1, <1>1, SubSeqProperties
<1> QED BY <1>2, <1>3, ConcatProperties

LEMMA ReplaceSeq ==
  ASSUME NEW S, NEW es \in Seq(S), NEW i \in DOMAIN es, NEW e \in S
  PROVE  [es EXCEPT ![i] = e] \in Seq(S)
<1>1. PICK n \in Nat : n = Len(es)
  OBVIOUS
<1>2. PICK r : r = [es EXCEPT ![i] = e]
  OBVIOUS
<1>3. r \in [1..n -> S]
  BY <1>1, <1>2
<1>4. r \in Seq(S)
  BY <1>3
<1> QED BY <1>2, <1>4

LEMMA LockEdgesSeq ==
  ASSUME NEW S, NEW es \in Seq(S)
  PROVE  Graph!LockEdges(es) \in Seq(S)
<1>1. PICK n \in Nat : n = Len(es) /\ \A i \in 1..n : es[i] \in S
  OBVIOUS
<1>2. PICK rest : /\ rest = [i \in 0..n |->
                       IF i = 0 THEN <<>>
                       ELSE IF es[i].type = "YIELD" THEN rest[i - 1] ELSE Append(rest[i - 1], es[i])]
                  /\ Graph!LockEdges(es) = rest[n]
  BY <1>1, RestExists DEF Graph!LockEdges
<1>3. \A i \in 0..n :
        rest[i] = IF i = 0 THEN <<>>
                  ELSE IF es[i].type = "YIELD" THEN rest[i - 1] ELSE Append(rest[i - 1], es[i])
  BY ONLY <1>2
<1>4. PICK K : K = {k \in 0..n : rest[k] \in Seq(S)}
  OBVIOUS
<1>5. 0 \in K
  <2>1. rest[0] = <<>> /\ <<>> \in Seq(S)
    BY <1>3
  <2>2. rest[0] \in Seq(S) /\ 0 \in 0..n
    BY ONLY <2>1, <1>1
  <2> QED BY ONLY <1>4, <2>2
<1>6. ASSUME NEW i \in 1..n, i - 1 \in K PROVE i \in K
  <2>1. PICK r \in Seq(S) : r = rest[i - 1]
    BY <1>4, <1>6
  <2>2. rest[i] = IF es[i].type = "YIELD" THEN r ELSE Append(r, es[i])
    BY <1>3, <2>1
  <2>3. Append(r, es[i]) \in Seq(S)
    BY <1>1, AppendElements
  <2>4. rest[i] \in Seq(S) /\ i \in 0..n
    BY ONLY <2>1, <2>2, <2>3
  <2> QED BY ONLY <1>4, <2>4
<1>7. \A i \in 0..n : i \in K
  BY <1>5, <1>6, StepByStep
<1> QED BY <1>2, <1>4, <1>7

-----------------------------------------------------------------------------
(* The events keep the shape of the graph *)

(* What the events of t say that matters to the shape: where it asked for  *)
(* a mutex or acquired it, and that it has yielded.                        *)
SoundEvents(t, Y) ==
  {e \in Events : /\ e.type \in {"REQUEST", "GRANT", "ACQUIRED"} => e.pos \in Positions
                  /\ e.type = "YIELD" => IsFiniteSet(e.cause) /\ t \in Y}

SoundStates(t, Y) ==
  {s \in States : Shaped(s.graph, Y) /\ s.held \in Seq(SoundEvents(t, Y))}

(* A state with another graph. *)
LEMMA SoundWith ==
  ASSUME NEW t, NEW Y, NEW s \in SoundStates(t, Y), NEW N, Shaped(N, Y), NEW R \in SUBSET Threads,
         NEW s2, s2 = [s EXCEPT !.graph = N, !.req = R]
  PROVE  s2 \in SoundStates(t, Y)
<1>1. s \in States /\ s.held \in Seq(SoundEvents(t, Y)) /\ N \in Graphs
  BY DEF SoundStates, Shaped
<1>2. s2 \in States /\ s2.graph = N /\ s2.held = s.held
  BY <1>1 DEF States
<1> QED BY <1>1, <1>2 DEF SoundStates

LEMMA SoundWithGraph ==
  ASSUME NEW t, NEW Y, NEW s \in SoundStates(t, Y), NEW N, Shaped(N, Y)
  PROVE  [s EXCEPT !.graph = N] \in SoundStates(t, Y)
<1>1. PICK s2 : s2 = [s EXCEPT !.graph = N]
  OBVIOUS
<1>2. s \in States /\ s.held \in Seq(SoundEvents(t, Y)) /\ N \in Graphs
  BY DEF SoundStates, Shaped
<1>3. s2 \in States /\ s2.graph = N /\ s2.held = s.held
  BY <1>1, <1>2, StateWithGraph
<1> QED BY <1>1, <1>2, <1>3 DEF SoundStates

(* Every edge the methods of the graph add has its shape. *)
LEMMA AddShaped ==
  ASSUME NEW G, NEW Y, Shaped(G, Y), NEW v \in Vertices, NEW to \in Vertices,
         NEW type \in EdgeTypes, NEW p \in Positions,
         [to |-> to, type |-> type, pos |-> p] \in EdgesOf(v, Y)
  PROVE  Shaped(Graph!Add(G, v, to, type, p), Y)
<1>1. PICK e \in EdgesOf(v, Y) : e = [to |-> to, type |-> type, pos |-> p]
  OBVIOUS
<1>2. PICK es \in Seq(EdgesOf(v, Y)) : es = G.edges[v]
  BY DEF Shaped
<1>3. Append(es, e) \in Seq(EdgesOf(v, Y))
  BY AppendElements
<1>4. Rewrites(G, Graph!Add(G, v, to, type, p), v, Append(es, e))
  BY <1>1, <1>2, AddRewrites DEF Shaped
<1> QED BY <1>3, <1>4, ShapedRewrites

LEMMA RemoveShaped ==
  ASSUME NEW G, NEW Y, Shaped(G, Y), NEW v \in Vertices, NEW i \in DOMAIN G.edges[v]
  PROVE  Shaped(Graph!Remove(G, v, i), Y)
<1>1. PICK es \in Seq(EdgesOf(v, Y)) : es = G.edges[v]
  BY DEF Shaped
<1>2. PICK r : r = SubSeq(es, 1, i - 1) \o SubSeq(es, i + 1, Len(es))
  OBVIOUS
<1>3. r \in Seq(EdgesOf(v, Y))
  BY <1>1, <1>2, RemoveSeq
<1>4. Rewrites(G, Graph!Remove(G, v, i), v, r)
  BY <1>1, <1>2, RemoveRewrites DEF Shaped
<1> QED BY <1>3, <1>4, ShapedRewrites

LEMMA ValuedShaped ==
  ASSUME NEW G, NEW Y, Shaped(G, Y), NEW V \in SUBSET Vertices
  PROVE  Shaped([G EXCEPT !.valued = @ \cup V], Y)
<1>1. PICK N : N = [G EXCEPT !.valued = @ \cup V]
  OBVIOUS
<1>2. N \in Graphs /\ N.edges = G.edges
  BY <1>1 DEF Shaped, Graphs
<1> QED BY <1>1, <1>2 DEF Shaped

(* The edge a value is looked up for is there. *)
LEMMA EdgeToIs ==
  ASSUME NEW G \in Graphs, NEW v \in Vertices, NEW x, Graph!HasEdgeTo(G, v, x)
  PROVE  /\ Graph!EdgeTo(G, v, x) \in DOMAIN G.edges[v]
         /\ Graph!Value(G, G.edges[v][Graph!EdgeTo(G, v, x)].to) = x
<1>1. PICK es \in Seq(Edges) : es = G.edges[v]
  BY DEF Graphs
<1>2. PICK S : S = {i \in DOMAIN es : Graph!Value(G, es[i].to) = x}
  OBVIOUS
<1>3. S \in SUBSET Nat /\ S # {}
  BY <1>1, <1>2 DEF Graph!HasEdgeTo
<1>4. PICK k \in S : \A j \in S : k <= j
  BY <1>3, LeastNat
<1>5. Graph!FirstTo(G, v, x, k)
  <2>1. \A j \in 1..(k - 1) : j \in DOMAIN es /\ ~ (k <= j)
    BY <1>2
  <2>2. \A j \in 1..(k - 1) : Graph!Value(G, es[j].to) # x
    BY <1>2, <1>4, <2>1
  <2> QED BY <1>1, <1>2, <2>2 DEF Graph!FirstTo
<1>6. Graph!FirstTo(G, v, x, Graph!EdgeTo(G, v, x))
  <2>1. \E i \in DOMAIN G.edges[v] : Graph!FirstTo(G, v, x, i)
    BY <1>1, <1>2, <1>5
  <2> QED BY <2>1 DEF Graph!EdgeTo
<1> QED BY <1>6 DEF Graph!FirstTo

LEMMA RequestSound ==
  ASSUME NEW t \in Threads, NEW Y, NEW s \in SoundStates(t, Y), NEW e \in SoundEvents(t, Y),
         e.type = "REQUEST"
  PROVE  ProcessEvent(s, t, e) \in SoundStates(t, Y)
<1>1. s \in States /\ Shaped(s.graph, Y) /\ s.req \in SUBSET Threads
  BY DEF SoundStates, States
<1>2. e.mtx \in Mutexes /\ e.pos \in Positions
  BY DEF SoundEvents, Events
<1>3. [to |-> e.mtx, type |-> "REQUEST", pos |-> e.pos] \in EdgesOf(t, Y)
  BY <1>2 DEF EdgesOf, ThreadEdges, Edges
<1>4. PICK M : M = Graph!Add(s.graph, t, e.mtx, "REQUEST", e.pos)
  OBVIOUS
<1>5. Shaped(M, Y)
  BY <1>1, <1>2, <1>3, <1>4, AddShaped DEF Vertices, EdgeTypes
<1>6. PICK N : N = [M EXCEPT !.valued = @ \cup {t, e.mtx}]
  OBVIOUS
<1>7. Shaped(N, Y)
  BY <1>2, <1>5, <1>6, ValuedShaped DEF Vertices
<1>8. PICK R \in SUBSET Threads : R = s.req \cup {t}
  BY <1>1
<1>9. PICK s2 : s2 = [s EXCEPT !.graph = N, !.req = R]
  OBVIOUS
<1>10. ProcessEvent(s, t, e) = s2
  BY <1>4, <1>6, <1>8, <1>9 DEF ProcessEvent, Graph!Request
<1>11. s2 \in SoundStates(t, Y)
  BY <1>7, <1>9, SoundWith
<1> QED BY <1>10, <1>11

LEMMA GrantSound ==
  ASSUME NEW t \in Threads, NEW Y, NEW s \in SoundStates(t, Y), NEW e \in SoundEvents(t, Y),
         e.type = "GRANT"
  PROVE  ProcessEvent(s, t, e) \in SoundStates(t, Y)
<1>1. s \in States /\ Shaped(s.graph, Y) /\ s.graph \in Graphs /\ t \in Vertices
  BY DEF SoundStates, Shaped, Vertices
<1>2. e.mtx \in Mutexes /\ e.pos \in Positions /\ e.mtx # NULL
  BY NullAssumption DEF SoundEvents, Events
<1>3. PICK N : N = Graph!RequestToGrant(s.graph, t, e.mtx, e.pos)
  OBVIOUS
<1>4. ProcessEvent(s, t, e) = [s EXCEPT !.graph = N]
  BY <1>3 DEF ProcessEvent
<1>5. Shaped(N, Y)
  <2>1. CASE ~ Graph!HasEdgeTo(s.graph, t, e.mtx)
    BY <1>1, <1>3, <2>1 DEF Graph!RequestToGrant
  <2>2. CASE Graph!HasEdgeTo(s.graph, t, e.mtx)
    <3>1. PICK i : i = Graph!EdgeTo(s.graph, t, e.mtx)
      OBVIOUS
    <3>2. PICK es \in Seq(EdgesOf(t, Y)) : es = s.graph.edges[t]
      BY <1>1 DEF Shaped
    <3>3. i \in DOMAIN es /\ es[i].to = e.mtx
      <4>1. i \in DOMAIN es /\ Graph!Value(s.graph, es[i].to) = e.mtx
        BY <1>1, <2>2, <3>1, <3>2, EdgeToIs
      <4> QED BY <1>2, <4>1 DEF Graph!Value
    <3>4. PICK x : x = [to |-> e.mtx, type |-> "GRANT", pos |-> e.pos]
      OBVIOUS
    <3>5. x \in EdgesOf(t, Y)
      BY <1>2, <3>4 DEF EdgesOf, ThreadEdges, Edges
    <3>6. [es EXCEPT ![i] = x] \in Seq(EdgesOf(t, Y))
      BY <3>3, <3>5, ReplaceSeq
    <3>7. [es EXCEPT ![i] = x] \in Seq(Edges)
      BY <1>1, <3>6, EdgesOfFacts
    <3>8. N = [s.graph EXCEPT !.edges[t] = [es EXCEPT ![i] = x]]
      <4>1. N = [s.graph EXCEPT !.edges[t][i] = [to |-> @.to, type |-> "GRANT", pos |-> e.pos]]
        BY <1>3, <2>2, <3>1 DEF Graph!RequestToGrant
      <4>2. s.graph.edges \in [Vertices -> Seq(Edges)]
        BY <1>1 DEF Graphs
      <4>3. N = [s.graph EXCEPT !.edges[t][i] = x]
        BY <1>1, <3>2, <3>3, <3>4, <4>1, <4>2
      <4> QED BY <1>1, <3>2, <4>2, <4>3
    <3>9. Rewrites(s.graph, N, t, [es EXCEPT ![i] = x])
      BY <1>1, <3>7, <3>8, RewritesEdges
    <3> QED BY <1>1, <3>6, <3>9, ShapedRewrites
  <2> QED BY <2>1, <2>2
<1> QED BY <1>4, <1>5, SoundWithGraph

LEMMA YieldSound ==
  ASSUME NEW t \in Threads, NEW Y, NEW s \in SoundStates(t, Y), NEW e \in SoundEvents(t, Y),
         e.type = "YIELD"
  PROVE  ProcessEvent(s, t, e) \in SoundStates(t, Y)
<1>1. s \in States /\ Shaped(s.graph, Y) /\ s.graph \in Graphs /\ t \in Vertices
  BY DEF SoundStates, Shaped, Vertices
<1>2. e.cause \in SUBSET Causes /\ IsFiniteSet(e.cause) /\ t \in Y
  BY DEF SoundEvents, Events
<1>3. PICK v : v = Vector(e.cause)
  OBVIOUS
<1>4. PICK ys : ys = [i \in DOMAIN v |-> [to |-> v[i].thread, type |-> "YIELD", pos |-> v[i].pos]]
  OBVIOUS
<1>5. ys \in Seq(EdgesOf(t, Y))
  <2>1. PICK n \in Nat : v \in [1..n -> e.cause]
    BY <1>2, <1>3, VectorType
  <2>2. \A i \in 1..n : v[i].thread \in Threads /\ v[i].pos \in Positions
    BY <1>2, <2>1 DEF Causes
  <2>3. ASSUME NEW i \in 1..n
        PROVE  [to |-> v[i].thread, type |-> "YIELD", pos |-> v[i].pos] \in EdgesOf(t, Y)
    BY <1>2, <2>2 DEF EdgesOf, ThreadEdges, Edges
  <2>4. ys \in [1..n -> EdgesOf(t, Y)]
    BY <1>4, <2>1, <2>3
  <2> QED BY <2>4
<1>6. PICK es \in Seq(EdgesOf(t, Y)) : es = s.graph.edges[t]
  BY <1>1 DEF Shaped
<1>7. PICK ls \in Seq(EdgesOf(t, Y)) : ls = Graph!LockEdges(es)
  BY LockEdgesSeq
<1>8. ls \o ys \in Seq(EdgesOf(t, Y))
  BY <1>5, ConcatProperties
<1>9. ls \o ys \in Seq(Edges)
  BY <1>1, <1>8, EdgesOfFacts
<1>10. PICK N : N = [s.graph EXCEPT !.edges[t] = ls \o ys]
  OBVIOUS
<1>11. Rewrites(s.graph, N, t, ls \o ys)
  BY <1>1, <1>9, <1>10, RewritesEdges
<1>12. Shaped(N, Y)
  BY <1>1, <1>8, <1>11, ShapedRewrites
<1>13. Graph!Yield(s.graph, t, v) = N
  BY <1>4, <1>6, <1>7, <1>10 DEF Graph!Yield
<1>14. ProcessEvent(s, t, e) = [s EXCEPT !.graph = N]
  BY <1>3, <1>13 DEF ProcessEvent
<1> QED BY <1>12, <1>14, SoundWithGraph

LEMMA AcquiredSound ==
  ASSUME NEW t \in Threads, NEW Y, NEW s \in SoundStates(t, Y), NEW e \in SoundEvents(t, Y),
         e.type = "ACQUIRED"
  PROVE  ProcessEvent(s, t, e) \in SoundStates(t, Y)
<1>1. /\ s \in States /\ Shaped(s.graph, Y) /\ s.graph \in Graphs /\ t \in Vertices
      /\ s.req \in SUBSET Threads
  BY DEF SoundStates, States, Shaped, Vertices
<1>2. e.mtx \in Mutexes /\ e.pos \in Positions /\ e.mtx \in Vertices
  BY DEF SoundEvents, Events, Vertices
<1>3. [to |-> t, type |-> "HOLD", pos |-> e.pos] \in EdgesOf(e.mtx, Y)
  BY <1>2, NodesAssumption DEF EdgesOf, MutexEdges, Edges
<1>4. PICK x : x = Graph!Value(s.graph, e.mtx)
  OBVIOUS
<1>5. PICK i : i = Graph!EdgeTo(s.graph, t, x)
  OBVIOUS
<1>6. PICK R : R = IF Graph!HasEdgeTo(s.graph, t, x) THEN Graph!Remove(s.graph, t, i) ELSE s.graph
  OBVIOUS
<1>7. Shaped(R, Y)
  <2>1. CASE Graph!HasEdgeTo(s.graph, t, x)
    <3>1. i \in DOMAIN s.graph.edges[t]
      BY <1>1, <1>5, <2>1, EdgeToIs
    <3>2. Shaped(Graph!Remove(s.graph, t, i), Y)
      BY <1>1, <3>1, RemoveShaped
    <3> QED BY <1>6, <2>1, <3>2
  <2>2. CASE ~ Graph!HasEdgeTo(s.graph, t, x)
    BY <1>1, <1>6, <2>2
  <2> QED BY <2>1, <2>2
<1>8. PICK N : N = Graph!Add(R, e.mtx, t, "HOLD", e.pos)
  OBVIOUS
<1>9. Shaped(N, Y)
  BY <1>1, <1>2, <1>3, <1>7, <1>8, AddShaped DEF EdgeTypes
<1>10. Graph!GrantToHold(s.graph, t, e.mtx, e.pos) = N
  BY <1>4, <1>5, <1>6, <1>8 DEF Graph!GrantToHold
<1>11. PICK Q \in SUBSET Threads : Q = s.req \ {t}
  BY <1>1
<1>12. PICK s2 : s2 = [s EXCEPT !.graph = N, !.req = Q]
  OBVIOUS
<1>13. ProcessEvent(s, t, e) = s2
  BY <1>10, <1>11, <1>12 DEF ProcessEvent
<1>14. s2 \in SoundStates(t, Y)
  BY <1>9, <1>12, SoundWith
<1> QED BY <1>13, <1>14

LEMMA ReleaseSound ==
  ASSUME NEW t \in Threads, NEW Y, NEW s \in SoundStates(t, Y), NEW e \in SoundEvents(t, Y),
         e.type = "RELEASE"
  PROVE  ProcessEvent(s, t, e) \in SoundStates(t, Y)
<1>1. s \in States /\ Shaped(s.graph, Y) /\ s.graph \in Graphs /\ e.mtx \in Vertices
  BY DEF SoundStates, SoundEvents, Events, Shaped, Vertices
<1>2. PICK N : N = Graph!Release(s.graph, e.mtx, t)
  OBVIOUS
<1>3. Shaped(N, Y)
  <2>1. CASE Graph!HasEdgeTo(s.graph, e.mtx, t)
    <3>1. PICK i : i = Graph!EdgeTo(s.graph, e.mtx, t)
      OBVIOUS
    <3>2. i \in DOMAIN s.graph.edges[e.mtx]
      BY <1>1, <2>1, <3>1, EdgeToIs
    <3>3. Shaped(Graph!Remove(s.graph, e.mtx, i), Y)
      BY <1>1, <3>2, RemoveShaped
    <3> QED BY <1>2, <2>1, <3>1, <3>3 DEF Graph!Release
  <2>2. CASE ~ Graph!HasEdgeTo(s.graph, e.mtx, t)
    BY <1>1, <1>2, <2>2 DEF Graph!Release
  <2> QED BY <2>1, <2>2
<1>4. ProcessEvent(s, t, e) = [s EXCEPT !.graph = N]
  BY <1>2 DEF ProcessEvent
<1> QED BY <1>3, <1>4, SoundWithGraph

LEMMA CancelSound ==
  ASSUME NEW t \in Threads, NEW Y, NEW s \in SoundStates(t, Y), NEW e \in SoundEvents(t, Y),
         e.type = "CANCEL"
  PROVE  ProcessEvent(s, t, e) \in SoundStates(t, Y)
<1>1. PICK N : N = s.graph /\ Shaped(N, Y) /\ s.req \in SUBSET Threads
  BY DEF SoundStates, States
<1>2. PICK Q \in SUBSET Threads : Q = s.req \ {t}
  BY <1>1
<1>3. PICK s2 : s2 = [s EXCEPT !.graph = N, !.req = Q]
  OBVIOUS
<1>4. ProcessEvent(s, t, e) = s2
  BY <1>1, <1>2, <1>3 DEF ProcessEvent, Graph!Cancel
<1>5. s2 \in SoundStates(t, Y)
  BY <1>1, <1>3, SoundWith
<1> QED BY <1>4, <1>5

LEMMA ProcessSound ==
  ASSUME NEW t \in Threads, NEW Y, NEW s \in SoundStates(t, Y), NEW e \in SoundEvents(t, Y)
  PROVE  ProcessEvent(s, t, e) \in SoundStates(t, Y)
<1>1. e.type \in EventTypes
  BY DEF SoundEvents, Events
<1> QED BY <1>1, RequestSound, GrantSound, YieldSound, AcquiredSound, ReleaseSound, CancelSound
        DEF EventTypes

(* What every turn of a loop over events keeps, the loop does. *)
LEMMA EachKeeps ==
  ASSUME NEW t, NEW P, NEW s \in P, NEW S \in SUBSET Events, NEW es \in Seq(S)
  PROVE  /\ (\A r \in P, e \in S : ProcessEvent(r, t, e) \in P) => Each(ProcessEvent, s, t, es) \in P
         /\ (\A r \in P, e \in S : HandleEvent(r, t, e) \in P) => Each(HandleEvent, s, t, es) \in P
<1>1. PICK n \in Nat : n = Len(es) /\ \A i \in 1..n : es[i] \in S
  OBVIOUS
<1>2. es \in Seq(Events)
  OBVIOUS
<1>3. ASSUME NEW b, NEW q, RunOf(b, s, t, es, q), \A r \in P, e \in S : Turn(b, r, t, e) \in P
      PROVE  q[n] \in P
  <2>1. PICK K : K = {k \in 0..n : q[k] \in P}
    OBVIOUS
  <2>2. q[0] = s /\ \A i \in 1..n : q[i] = Turn(b, q[i - 1], t, es[i])
    BY <1>1, <1>3 DEF RunOf
  <2>3. 0 \in K
    BY <2>1, <2>2
  <2>4. ASSUME NEW i \in 1..n, i - 1 \in K PROVE i \in K
    <3>1. q[i - 1] \in P /\ es[i] \in S /\ i \in 0..n
      BY <1>1, <2>1, <2>4
    <3> QED BY <1>3, <2>1, <2>2, <3>1
  <2>5. \A i \in 0..n : i \in K
    BY <2>3, <2>4, StepByStep
  <2> QED BY <2>1, <2>5
<1>4. ASSUME \A r \in P, e \in S : ProcessEvent(r, t, e) \in P
      PROVE  Each(ProcessEvent, s, t, es) \in P
  <2>1. PICK q : RunOf("flush", s, t, es, q) /\ Each(ProcessEvent, s, t, es) = q[Len(es)]
    BY <1>2, EachRun
  <2>2. \A r \in P, e \in S : Turn("flush", r, t, e) \in P
    BY <1>4 DEF Turn
  <2> QED BY <1>1, <1>3, <2>1, <2>2
<1>5. ASSUME \A r \in P, e \in S : HandleEvent(r, t, e) \in P
      PROVE  Each(HandleEvent, s, t, es) \in P
  <2>1. PICK q : RunOf("read", s, t, es, q) /\ Each(HandleEvent, s, t, es) = q[Len(es)]
    BY <1>2, EachRun
  <2>2. \A r \in P, e \in S : Turn("read", r, t, e) \in P
    BY <1>5 DEF Turn
  <2> QED BY <1>1, <1>3, <2>1, <2>2
<1> QED BY <1>4, <1>5

(* Events are held back and dropped as they are. *)
LEMMA SoundHeld ==
  ASSUME NEW t, NEW Y, NEW s \in SoundStates(t, Y), NEW es \in Seq(SoundEvents(t, Y))
  PROVE  [s EXCEPT !.held = es] \in SoundStates(t, Y)
<1>1. PICK s2 : s2 = [s EXCEPT !.held = es]
  OBVIOUS
<1>2. s \in States /\ Shaped(s.graph, Y) /\ es \in Seq(Events)
  BY DEF SoundStates, SoundEvents
<1>3. s2 \in States /\ s2.graph = s.graph /\ s2.held = es
  BY <1>1, <1>2 DEF States
<1> QED BY <1>1, <1>2, <1>3 DEF SoundStates

LEMMA FlushSound ==
  ASSUME NEW t \in Threads, NEW Y, NEW s \in SoundStates(t, Y)
  PROVE  Flush(s, t) \in SoundStates(t, Y)
<1>1. PICK P : P = SoundStates(t, Y)
  OBVIOUS
<1>2. PICK S \in SUBSET Events : S = SoundEvents(t, Y)
  BY DEF SoundEvents
<1>3. PICK es \in Seq(S) : es = s.held
  BY <1>2 DEF SoundStates
<1>4. PICK s2 \in P : s2 = [s EXCEPT !.held = <<>>]
  <2>1. <<>> \in Seq(SoundEvents(t, Y))
    OBVIOUS
  <2> QED BY <1>1, <2>1, SoundHeld
<1>5. \A r \in P, e \in S : ProcessEvent(r, t, e) \in P
  BY <1>1, <1>2, ProcessSound
<1>6. Each(ProcessEvent, s2, t, es) \in P
  BY <1>5, EachKeeps
<1> QED BY <1>1, <1>3, <1>4, <1>6 DEF Flush

LEMMA HandleSound ==
  ASSUME NEW t \in Threads, NEW Y, NEW s \in SoundStates(t, Y), NEW e \in SoundEvents(t, Y)
  PROVE  HandleEvent(s, t, e) \in SoundStates(t, Y)
<1>1. PICK es \in Seq(SoundEvents(t, Y)) : es = s.held
  BY DEF SoundStates
<1>2. \A fs \in Seq(SoundEvents(t, Y)) : [s EXCEPT !.held = fs] \in SoundStates(t, Y)
  BY SoundHeld
<1>3. [s EXCEPT !.held = <<e>>] \in SoundStates(t, Y)
  <2>1. <<e>> \in Seq(SoundEvents(t, Y))
    OBVIOUS
  <2> QED BY <1>2, <2>1
<1>4. [s EXCEPT !.held = <<>>] \in SoundStates(t, Y)
  <2>1. <<>> \in Seq(SoundEvents(t, Y))
    OBVIOUS
  <2> QED BY <1>2, <2>1
<1>5. [s EXCEPT !.held = Append(@, e)] \in SoundStates(t, Y)
  <2>1. Append(es, e) \in Seq(SoundEvents(t, Y))
    BY AppendElements
  <2>2. [s EXCEPT !.held = Append(@, e)] = [s EXCEPT !.held = Append(es, e)]
    BY <1>1 DEF SoundStates, States
  <2> QED BY <1>2, <2>1, <2>2
<1>6. ProcessEvent(s, t, e) \in SoundStates(t, Y)
  BY ProcessSound
<1>7. ProcessEvent(Flush(s, t), t, e) \in SoundStates(t, Y)
  BY FlushSound, ProcessSound
<1> QED BY <1>3, <1>4, <1>5, <1>6, <1>7 DEF HandleEvent

-----------------------------------------------------------------------------
(* The graph and the queues stay as they should be *)

(* The threads whose queues may have YIELD events. *)
MayYield == IF "break" \in Features THEN yielded ELSE Threads

QueuesSound == \A t \in Threads : eq[t] \in Seq(SoundEvents(t, MayYield))

SInv == RInv /\ Shaped(rag, MayYield) /\ QueuesSound

LEMMA EventsGrow ==
  ASSUME NEW t, NEW Y, NEW Z, Y \subseteq Z
  PROVE  SoundEvents(t, Y) \subseteq SoundEvents(t, Z)
BY DEF SoundEvents

LEMMA SeqGrows ==
  ASSUME NEW S, NEW T, S \subseteq T, NEW s \in Seq(S)
  PROVE  s \in Seq(T)
OBVIOUS

LEMMA ShapedGrows ==
  ASSUME NEW Y, NEW Z, Y \subseteq Z, NEW G, Shaped(G, Y)
  PROVE  Shaped(G, Z)
<1>1. \A v \in Vertices : EdgesOf(v, Y) \subseteq EdgesOf(v, Z)
  BY DEF EdgesOf, ThreadEdges
<1>2. \A v \in Vertices : G.edges[v] \in Seq(EdgesOf(v, Z))
  <2> SUFFICES ASSUME NEW v \in Vertices PROVE G.edges[v] \in Seq(EdgesOf(v, Z))
    OBVIOUS
  <2>1. G.edges[v] \in Seq(EdgesOf(v, Y))
    BY DEF Shaped
  <2> QED BY <1>1, <2>1, SeqGrows
<1> QED BY <1>2 DEF Shaped

LEMMA ShapedEdges ==
  ASSUME NEW G, NEW N, NEW Y, Shaped(G, Y), N \in Graphs, N.edges = G.edges
  PROVE  Shaped(N, Y)
BY DEF Shaped

(* Reading a queue keeps the shape of the graph. *)
LEMMA DrainedSound ==
  ASSUME NEW t \in Threads, NEW Y, Shaped(rag, Y), reqThreads \in SUBSET Threads,
         eq \in [Threads -> Seq(Events)], behind \in [Threads -> Shortfalls],
         eq[t] \in Seq(SoundEvents(t, Y))
  PROVE  Drained(t) \in SoundStates(t, Y)
<1>1. PICK P : P = SoundStates(t, Y)
  OBVIOUS
<1>2. PICK S \in SUBSET Events : S = SoundEvents(t, Y)
  BY DEF SoundEvents
<1>3. PICK es \in Seq(S) : es = SubSeq(eq[t], 1, Taken(t))
  <2>1. PICK q \in Seq(S) : q = eq[t]
    BY <1>2
  <2>2. Taken(t) \in 0..Len(q)
    BY <2>1, TakenType
  <2>3. SubSeq(q, 1, Taken(t)) \in Seq(S)
    BY <2>2, PrefixSteps
  <2> QED BY <2>1, <2>3
<1>4. PICK s \in P : s = [graph |-> rag, req |-> reqThreads, held |-> <<>>]
  <2>1. PICK s : s = [graph |-> rag, req |-> reqThreads, held |-> <<>>]
    OBVIOUS
  <2>2. s \in States /\ s.graph = rag /\ s.held = <<>>
    BY <2>1, NowState DEF Shaped, Now
  <2>3. <<>> \in Seq(SoundEvents(t, Y))
    OBVIOUS
  <2>4. s \in SoundStates(t, Y)
    BY <2>2, <2>3 DEF SoundStates
  <2> QED BY <1>1, <2>1, <2>4
<1>5. \A r \in P, e \in S : HandleEvent(r, t, e) \in P
  BY <1>1, <1>2, HandleSound
<1>6. Each(HandleEvent, s, t, es) \in P
  BY <1>5, EachKeeps
<1>7. Flush(Each(HandleEvent, s, t, es), t) \in P
  BY <1>1, <1>6, FlushSound
<1> QED BY <1>1, <1>3, <1>4, <1>7 DEF Drained

(* A thread that records a YIELD event has yielded. *)
LEMMA YieldRecorded ==
  ASSUME TInv, PlainInv, Plain, NEW t \in Threads, Step(t) \/ Operation(t) \/ SpuriousWakeup(t)
  PROVE  /\ yielded \subseteq yielded'
         /\ \A u \in Threads, e \in Events :
              eq'[u] = Append(eq[u], e) /\ e.type = "YIELD" => u \in MayYield'
<1>1. eq \in [Threads -> Seq(Events)] /\ "events" \in Features
  BY DEF TInv, TypeOK, Plain
<1>2. ASSUME NEW u \in Threads, NEW e \in Events, eq' = eq PROVE eq'[u] # Append(eq[u], e)
  <2>1. PICK q \in Seq(Events) : q = eq[u]
    BY <1>1
  <2>2. Append(q, e) # q
    <3>1. Len(Append(q, e)) = Len(q) + 1 /\ Len(q) \in Nat
      OBVIOUS
    <3> QED BY <3>1
  <2> QED BY <1>2, <2>1, <2>2
<1>3. ASSUME NEW type \in EventTypes \ {"YIELD"}, NEW m \in Mutexes, NEW p, Enqueue(t, type, m, p, {}),
             NEW u \in Threads, NEW e \in Events, eq'[u] = Append(eq[u], e)
      PROVE  e.type # "YIELD"
  <2>1. PICK x : x = [type |-> type, mtx |-> m, pos |-> p, cause |-> {}]
    OBVIOUS
  <2>2. eq' = [eq EXCEPT ![t] = Append(eq[t], x)]
    BY <1>1, <1>3, <2>1 DEF Enqueue
  <2>3. CASE u = t
    <3>1. PICK q \in Seq(Events) : q = eq[u]
      BY <1>1
    <3>2. Append(q, e) = Append(q, x)
      BY <1>1, <1>3, <2>2, <2>3, <3>1
    <3>3. Append(q, e)[Len(q) + 1] = e
      OBVIOUS
    <3>4. Append(q, x)[Len(q) + 1] = x
      OBVIOUS
    <3> QED BY <2>1, <3>2, <3>3, <3>4
  <2>4. CASE u # t
    <3>1. PICK q \in Seq(Events) : q = eq[u]
      BY <1>1
    <3>2. q = Append(q, e)
      BY <1>1, <1>3, <2>2, <2>4, <3>1
    <3>3. Len(Append(q, e)) = Len(q) + 1 /\ Len(q) \in Nat
      OBVIOUS
    <3> QED BY <3>2, <3>3
  <2> QED BY <2>3, <2>4
<1>4. ASSUME eq' = eq, yielded' = yielded
      PROVE  /\ yielded \subseteq yielded'
             /\ \A u \in Threads, e \in Events :
                  eq'[u] = Append(eq[u], e) /\ e.type = "YIELD" => u \in MayYield'
  BY <1>2, <1>4
<1>5. ASSUME NEW type \in EventTypes \ {"YIELD"}, NEW m \in Mutexes, NEW p, Enqueue(t, type, m, p, {}),
             yielded' = yielded
      PROVE  /\ yielded \subseteq yielded'
             /\ \A u \in Threads, e \in Events :
                  eq'[u] = Append(eq[u], e) /\ e.type = "YIELD" => u \in MayYield'
  BY <1>3, <1>5
<1>6. CASE \/ TemplateInstance(t) \/ Grant(t) \/ Yield(t) \/ Sleep(t) \/ Retry(t)
           \/ SpuriousWakeup(t) \/ RealLock(t) \/ ReleaseAllowed(t) \/ RealUnlock(t)
  <2>1. eq' = eq /\ yielded' = yielded
    BY <1>6 DEF TemplateInstance, Grant, Yield, Sleep, Retry, SpuriousWakeup, RealLock,
                ReleaseAllowed, RealUnlock, monVars
  <2> QED BY <1>4, <2>1
<1>7. CASE EmitGrant(t)
  <2>1. Enqueue(t, "GRANT", arg[t].mtx, arg[t].pos, {}) /\ yielded' = yielded /\ pc[t] = "granted"
    BY <1>7 DEF EmitGrant, monVars
  <2>2. arg[t].mtx \in Mutexes /\ "GRANT" \in EventTypes \ {"YIELD"}
    BY <2>1 DEF TInv, ArgOK, EventTypes
  <2> QED BY <1>5, <2>1, <2>2
<1>8. CASE Acquired(t)
  <2>1. yielded' = yielded /\ pc[t] = "acquired"
        /\ (eq' = eq \/ Enqueue(t, "ACQUIRED", arg[t].mtx, lockPos[t], {}))
    BY <1>8 DEF Acquired, monVars
  <2>2. arg[t].mtx \in Mutexes /\ "ACQUIRED" \in EventTypes \ {"YIELD"}
    BY <2>1 DEF TInv, ArgOK, EventTypes
  <2> QED BY <1>4, <1>5, <2>1, <2>2
<1>9. ASSUME NEW m \in Mutexes, NEW p \in Positions, Acquire(t, m, p)
      PROVE  /\ yielded \subseteq yielded'
             /\ \A u \in Threads, e \in Events :
                  eq'[u] = Append(eq[u], e) /\ e.type = "YIELD" => u \in MayYield'
  <2>1. yielded' = yielded /\ (eq' = eq \/ Enqueue(t, "REQUEST", m, p, {}))
    BY <1>9 DEF Acquire, monVars
  <2>2. "REQUEST" \in EventTypes \ {"YIELD"}
    BY DEF EventTypes
  <2> QED BY <1>4, <1>5, <2>1, <2>2
<1>10. ASSUME NEW m \in Mutexes, Release(t, m)
       PROVE  /\ yielded \subseteq yielded'
              /\ \A u \in Threads, e \in Events :
                   eq'[u] = Append(eq[u], e) /\ e.type = "YIELD" => u \in MayYield'
  <2>1. yielded' = yielded /\ (eq' = eq \/ Enqueue(t, "RELEASE", m, acqPos[m], {}))
    BY <1>10 DEF Release, monVars
  <2>2. "RELEASE" \in EventTypes \ {"YIELD"}
    BY DEF EventTypes
  <2> QED BY <1>4, <1>5, <2>1, <2>2
<1>11. CASE EmitYield(t)
  <2>1. /\ Enqueue(t, "YIELD", arg[t].mtx, arg[t].pos, yieldCause[t])
        /\ yielded' = IF "break" \in Features THEN yielded \cup {t} ELSE yielded
    BY <1>11 DEF EmitYield
  <2>2. yielded \subseteq yielded' /\ t \in MayYield'
    BY <2>1 DEF MayYield
  <2>3. ASSUME NEW u \in Threads, NEW e \in Events, eq'[u] = Append(eq[u], e), u # t
        PROVE  FALSE
    <3>1. eq'[u] = eq[u]
      BY <1>1, <2>1, <2>3 DEF Enqueue
    <3>2. PICK q \in Seq(Events) : q = eq[u]
      BY <1>1
    <3>3. q = Append(q, e)
      BY ONLY <2>3, <3>1, <3>2
    <3>4. Len(Append(q, e)) = Len(q) + 1 /\ Len(q) \in Nat
      OBVIOUS
    <3> QED BY <3>3, <3>4
  <2> QED BY <2>2, <2>3
<1>12. pc[t] \notin {"trying", "cancelling", "condwait"}
  BY DEF PlainInv
<1>13. /\ ~ RealTryLock(t) /\ ~ RealLockFails(t) /\ ~ CancelAllowed(t) /\ ~ CondWake(t) /\ ~ Cancel(t)
       /\ \A m \in Mutexes : ~ CondWait(t, m) /\ \A p \in Positions : ~ TryAcquire(t, m, p)
  BY <1>12 DEF Plain, RealTryLock, RealLockFails, CancelAllowed, CondWake, Cancel, CondWait, TryAcquire
<1> QED BY <1>6, <1>7, <1>8, <1>9, <1>10, <1>11, <1>13 DEF Step, Operation
(* Every event that is recorded fits the shape. *)
LEMMA RecordedSound ==
  ASSUME SInv, TInv', Plain, ThreadStep
  PROVE  QueuesSound'
<1>1. TInv /\ OwnInv /\ PlainInv
  BY DEF SInv, RInv
<1>2. PICK t \in Threads : Step(t) \/ Operation(t) \/ SpuriousWakeup(t)
  BY DEF ThreadStep
<1>3. /\ yielded \subseteq yielded'
      /\ \A u \in Threads, e \in Events :
           eq'[u] = Append(eq[u], e) /\ e.type = "YIELD" => u \in MayYield'
  BY <1>1, <1>2, YieldRecorded
<1>4. PICK Z : Z = MayYield'
  OBVIOUS
<1>5. MayYield \subseteq Z
  BY <1>3, <1>4 DEF MayYield
<1>6. ASSUME NEW u \in Threads PROVE eq'[u] \in Seq(SoundEvents(u, Z))
  <2>1. PICK q \in Seq(SoundEvents(u, Z)) : q = eq[u]
    <3>1. eq[u] \in Seq(SoundEvents(u, MayYield))
      BY DEF SInv, QueuesSound
    <3> QED BY <1>5, <3>1, EventsGrow, SeqGrows
  <2>2. CASE Still(u)
    BY <2>1, <2>2 DEF Still
  <2>3. CASE Records(u)
    <3>1. PICK e \in Events :
            /\ eq'[u] = Append(eq[u], e)
            /\ Effect(u, e, HoldingView(u), Asked(u), HoldingView(u)', Asked(u)')
      BY <2>3 DEF Records
    <3>2. \A x \in Asked(u) : x.pos \in Positions
      <4>1. Asks(u) => arg[u].pos \in Positions
        BY <1>1 DEF TInv, ArgOK, Asks
      <4> QED BY <4>1 DEF Asked
    <3>3. \A x \in Asked(u)' : x.pos \in Positions
      <4>1. Asks(u)' => arg'[u].pos \in Positions
        BY DEF TInv, ArgOK, Asks
      <4> QED BY <4>1 DEF Asked
    <3>4. e.type \in {"REQUEST", "GRANT", "ACQUIRED"} => e.pos \in Positions
      <4>1. e.type = "REQUEST" => Wants(e, "REQUEST") \in Asked(u)'
        BY <3>1 DEF Effect
      <4>2. e.type = "GRANT" => Wants(e, "REQUEST") \in Asked(u)
        BY <3>1 DEF Effect
      <4>3. e.type = "ACQUIRED" => Wants(e, "GRANT") \in Asked(u)
        BY <3>1 DEF Effect
      <4>4. \A y : Wants(e, y).pos = e.pos
        BY DEF Wants
      <4> QED BY <3>2, <3>3, <4>1, <4>2, <4>3, <4>4
    <3>5. e.type = "YIELD" => IsFiniteSet(e.cause)
      BY <3>1 DEF Effect
    <3>6. e.type = "YIELD" => u \in Z
      BY <1>3, <1>4, <3>1
    <3>7. e \in SoundEvents(u, Z)
      BY <3>4, <3>5, <3>6 DEF SoundEvents
    <3>8. Append(q, e) \in Seq(SoundEvents(u, Z))
      BY <3>7, AppendElements
    <3> QED BY <2>1, <3>1, <3>8
  <2>4. Still(u) \/ Records(u)
    BY <1>1, ProgramRecords
  <2> QED BY <2>2, <2>3, <2>4
<1> QED BY <1>4, <1>6 DEF QueuesSound

LEMMA SInvInit == Init /\ ReplayInit => SInv
<1> SUFFICES ASSUME Init, ReplayInit PROVE SInv
  OBVIOUS
<1>1. RInv
  BY RInvInit
<1>2. rag \in Graphs /\ \A v \in Vertices : rag.edges[v] = <<>>
  BY <1>1 DEF RInv, ReplayInit, Graph!EmptyGraph, Vertices
<1>3. \A S : <<>> \in Seq(S)
  OBVIOUS
<1>4. Shaped(rag, MayYield)
  BY <1>2, <1>3 DEF Shaped
<1>5. QueuesSound
  BY <1>3 DEF QueuesSound, Init
<1> QED BY <1>1, <1>4, <1>5 DEF SInv

LEMMA SInvNext ==
  ASSUME Plain, SInv, [ReplayNext]_<<vars, replayVars>>
  PROVE  SInv'
<1>1. RInv /\ RInv' /\ Shaped(rag, MayYield) /\ QueuesSound
  BY RInvNext DEF SInv
<1>2. ASSUME rag'.edges = rag.edges, eq' = eq, yielded' = yielded PROVE SInv'
  <2>1. MayYield' = MayYield
    BY <1>2 DEF MayYield
  <2>2. rag' \in Graphs
    BY <1>1 DEF RInv
  <2>3. Shaped(rag', MayYield)
    BY <1>1, <1>2, <2>2, ShapedEdges
  <2>4. Shaped(rag, MayYield)'
    BY <2>1, <2>3 DEF Shaped
  <2>5. QueuesSound'
    BY <1>1, <1>2, <2>1 DEF QueuesSound
  <2> QED BY <1>1, <2>4, <2>5 DEF SInv
<1>3. CASE UNCHANGED <<vars, replayVars>>
  BY <1>2, <1>3 DEF vars, monVars, replayVars
<1>4. CASE StartPass
  BY <1>2, <1>4 DEF StartPass, vars, monVars
<1>5. ASSUME NEW t \in Threads, DrainQueue(t) PROVE SInv'
  <2>1. /\ rag' = Drained(t).graph /\ yielded' = yielded
        /\ eq' = [eq EXCEPT ![t] = SubSeq(eq[t], Taken(t) + 1, Len(eq[t]))]
    BY <1>5 DEF DrainQueue, monVars
  <2>7. eq \in [Threads -> Seq(Events)] /\ behind \in [Threads -> Shortfalls]
    BY <1>1 DEF RInv, TInv, TypeOK
  <2>2. MayYield' = MayYield
    BY <2>1 DEF MayYield
  <2>3. Drained(t) \in SoundStates(t, MayYield)
    BY <1>1, <2>7, DrainedSound DEF QueuesSound, RInv
  <2>4. Shaped(rag', MayYield)
    BY <2>1, <2>3 DEF SoundStates
  <2>5. Shaped(rag, MayYield)'
    BY <2>2, <2>4 DEF Shaped
  <2>6. QueuesSound'
    <3>1. PICK q \in Seq(SoundEvents(t, MayYield)) : q = eq[t]
      BY <1>1 DEF QueuesSound
    <3>2. Taken(t) \in 0..Len(q)
      BY <2>7, <3>1, TakenType
    <3>3. SubSeq(q, Taken(t) + 1, Len(q)) \in Seq(SoundEvents(t, MayYield))
      BY <3>2, SuffixElements
    <3>4. eq'[t] \in Seq(SoundEvents(t, MayYield))
      BY <2>1, <2>7, <3>1, <3>3
    <3>5. \A u \in Threads : u # t => eq'[u] = eq[u]
      BY <2>1, <2>7
    <3> QED BY <1>1, <2>2, <3>4, <3>5 DEF QueuesSound
  <2> QED BY <1>1, <2>5, <2>6 DEF SInv
<1>6. CASE AnyVerdict
  <2>1. eq' = eq /\ yielded' = yielded
    BY <1>6 DEF AnyVerdict
  <2>2. rag'.edges = rag.edges
    BY <1>1, <1>6 DEF AnyVerdict, RInv, Graphs
  <2> QED BY <1>2, <2>1, <2>2
<1>7. CASE Notify
  BY <1>2, <1>7 DEF Notify, BreakNotify
<1>8. CASE ThreadStep /\ Miscount /\ UNCHANGED <<rag, reqThreads, mpc, cursor>>
  <2>1. QueuesSound'
    BY <1>1, <1>8, RecordedSound DEF SInv, RInv
  <2>2. PICK t \in Threads : Step(t) \/ Operation(t) \/ SpuriousWakeup(t)
    BY <1>8 DEF ThreadStep
  <2>3. yielded \subseteq yielded'
    BY <1>1, <2>2, YieldRecorded DEF RInv
  <2>4. MayYield \subseteq MayYield'
    BY <2>3 DEF MayYield
  <2>5. rag' = rag
    BY <1>8
  <2>6. Shaped(rag', MayYield')
    BY <1>1, <2>4, <2>5, ShapedGrows
  <2>7. Shaped(rag, MayYield)'
    BY <2>6 DEF Shaped
  <2> QED BY <1>1, <2>1, <2>7 DEF SInv
<1> QED BY <1>3, <1>4, <1>5, <1>6, <1>7, <1>8 DEF ReplayNext, Replays

-----------------------------------------------------------------------------
(* What the search finds *)

(* The mutexes are finitely many, and so are the vertices. *)
LEMMA VerticesFinite == IsFiniteSet(Vertices)
<1>1. PICK n \in Nat : n = Len(QueueOrder) /\ DOMAIN QueueOrder = 1..n
  BY QueueOrderAssumption
<1>2. PICK f : f = [i \in 1..n |-> QueueOrder[i]]
  OBVIOUS
<1>3. Threads = {QueueOrder[i] : i \in 1..n}
  BY <1>1, QueueOrderAssumption DEF Elements
<1>4. f \in Surjection(1..n, Threads)
  BY <1>2, <1>3 DEF Surjection
<1>5. IsFiniteSet(Threads)
  BY <1>4, FS_Interval, FS_Surjection
<1> QED BY <1>5, MutexesAssumption, FS_Union DEF Vertices

(* An edge of the graph has the shape its vertex gives it. *)
LEMMA DrawnShaped ==
  ASSUME NEW G, NEW Y, Shaped(G, Y), NEW e \in Drawn(G)
  PROVE  /\ e \in Links /\ e.from \in Vertices /\ e.pos \in Positions
         /\ e.type = "YIELD" => e.from \in Threads /\ e.from \in Y
         /\ \E i \in DOMAIN G.edges[e.from] :
              /\ G.edges[e.from][i] \in EdgesOf(e.from, Y)
              /\ G.edges[e.from][i].to = e.to /\ G.edges[e.from][i].type = e.type
              /\ G.edges[e.from][i].pos = e.pos
<1>1. e \in Links /\ e.from \in Vertices
  BY DEF Drawn, Links, Search!Links, Vertices
<1>2. PICK i \in DOMAIN G.edges[e.from] : e = Search!Edge(e.from, G.edges[e.from][i])
  BY DEF Drawn
<1>3. PICK es \in Seq(EdgesOf(e.from, Y)) : es = G.edges[e.from]
  BY <1>1 DEF Shaped
<1>4. PICK x \in EdgesOf(e.from, Y) : x = G.edges[e.from][i]
  BY <1>2, <1>3
<1>5. e.to = x.to /\ e.type = x.type /\ e.pos = x.pos
  BY <1>2, <1>4 DEF Search!Edge
<1>6. x.pos \in Positions /\ (x.type = "YIELD" => e.from \in Threads /\ e.from \in Y)
  BY <1>4 DEF EdgesOf, ThreadEdges, MutexEdges
<1> QED BY <1>1, <1>2, <1>4, <1>5, <1>6

(* A lock edge leads from a thread to a mutex or back. *)
LEMMA LockEdgeIs ==
  ASSUME SInv, NEW e \in Links, LockEdge(rag, e)
  PROVE  \E x \in Edges :
           /\ x \in Elements(rag.edges[e.from])
           /\ x.to = e.to /\ x.type = e.type /\ x.pos = e.pos /\ x.type # "YIELD"
           /\ \/ e.from \in Threads /\ x.to \in Mutexes /\ x.type # "HOLD"
              \/ e.from \in Mutexes /\ x.to \in Threads /\ x.type = "HOLD"
<1>1. PICK Y : Shaped(rag, Y)
  BY DEF SInv
<1>2. PICK v : v = e.from /\ v \in Vertices
  BY <1>1, DrawnShaped DEF LockEdge
<1>3. PICK i \in DOMAIN rag.edges[v] :
        /\ rag.edges[v][i] \in EdgesOf(v, Y)
        /\ rag.edges[v][i].to = e.to /\ rag.edges[v][i].type = e.type
        /\ rag.edges[v][i].pos = e.pos
  BY <1>1, <1>2, DrawnShaped DEF LockEdge
<1>4. PICK x \in EdgesOf(v, Y) : x = rag.edges[v][i]
  BY <1>3
<1>5. /\ x \in Edges /\ x \in Elements(rag.edges[v]) /\ x.type # "YIELD"
      /\ x.to = e.to /\ x.type = e.type /\ x.pos = e.pos
  BY <1>2, <1>3, <1>4, EdgesOfFacts DEF Elements, LockEdge
<1>6. \/ v \in Threads /\ x.to \in Mutexes /\ x.type # "HOLD"
      \/ v \in Mutexes /\ x.to \in Threads /\ x.type = "HOLD"
  BY <1>2, <1>4, <1>5, EdgesOfFacts DEF ThreadEdges, MutexEdges, Vertices
<1> QED BY <1>2, <1>5, <1>6

(* What the graph shows of a thread is what it once had and asked for. *)
LEMMA ShownSane ==
  ASSUME SInv, NEW t \in Threads
  PROVE  \E h0 \in Views, a0 \in SUBSET Edges : Shows(Now, t, h0, a0) /\ Sane(h0, a0)
<1>1. Tracks(t, Now, eq[t], HoldingView(t), Asked(t))
  BY DEF SInv, RInv, TracksAll
<1>2. PICK q \in Seq(Events) : q = eq[t]
  BY DEF SInv, RInv, TInv, TypeOK
<1>3. Len(eq[t]) \in Nat
  BY <1>2
<1> QED BY <1>1, <1>3, TracksSane

(* Targets of lock edges have their values. *)
LEMMA GraphFine == SInv => Fine(rag)
<1> SUFFICES ASSUME SInv, NEW e \in Links, LockEdge(rag, e) PROVE e.to \in rag.valued
  BY DEF Fine
<1>1. PICK x \in Edges :
        /\ x \in Elements(rag.edges[e.from]) /\ x.to = e.to /\ x.type # "YIELD"
        /\ \/ e.from \in Threads /\ x.to \in Mutexes
           \/ e.from \in Mutexes /\ x.to \in Threads
  BY LockEdgeIs
<1>2. Now.graph = rag /\ TracksAll
  BY NowState DEF SInv, RInv
<1>5. \A t \in Threads : \E h0 \in Views, a0 \in SUBSET Edges : Shows(Now, t, h0, a0) /\ Sane(h0, a0)
  BY ShownSane
<1>3. CASE e.from \in Threads
  <2>1. PICK h0, a0 : Shows(Now, e.from, h0, a0)
    BY <1>3, <1>5
  <2>2. x \in a0
    BY <1>1, <1>2, <2>1 DEF Shows, Exactly, EdgesToLocks
  <2> QED BY <1>1, <1>2, <2>1, <2>2 DEF Shows
<1>4. CASE e.from \in Mutexes /\ x.to \in Threads
  <2>1. PICK h0, a0 : Shows(Now, x.to, h0, a0)
    BY <1>4, <1>5
  <2>2. x \in h0[e.from]
    BY <1>1, <1>2, <1>4, <2>1 DEF Shows, Exactly, EdgesTo
  <2> QED BY <1>1, <1>2, <1>4, <2>1, <2>2 DEF Shows
<1> QED BY <1>1, <1>3, <1>4

(* No thread has an edge to a mutex that has one to it: even what a queue  *)
(* half read shows of the thread is what it once had and asked for.        *)
LEMMA NoCircleOfTwo ==
  ASSUME SInv, NEW e \in Links, LockEdge(rag, e), NEW d \in Links, LockEdge(rag, d),
         e.from \in Threads, e.to = d.from, d.to = e.from
  PROVE  FALSE
<1>1. PICK x \in Edges : /\ x \in Elements(rag.edges[e.from]) /\ x.to = e.to /\ x.type # "YIELD"
                         /\ x.to \in Mutexes
  BY LockEdgeIs, NodesAssumption
<1>2. PICK y \in Edges : y \in Elements(rag.edges[d.from]) /\ y.to = d.to
  BY LockEdgeIs
<1>3. Now.graph = rag /\ TracksAll
  BY NowState DEF SInv, RInv
<1>4. PICK h0, a0 : Shows(Now, e.from, h0, a0) /\ Sane(h0, a0)
  BY ShownSane
<1>5. x \in a0
  BY <1>1, <1>3, <1>4 DEF Shows, Exactly, EdgesToLocks
<1>6. y \in h0[x.to]
  BY <1>1, <1>2, <1>3, <1>4 DEF Shows, Exactly, EdgesTo
<1> QED BY <1>4, <1>5, <1>6 DEF Sane

(* So has_cycle may pass over circles of two edges: there are none. *)
LEMMA GraphLong == SInv => Long(rag)
<1> SUFFICES ASSUME SInv, NEW c, Circle(rag, c), ~ (Len(c) > 2) PROVE FALSE
  BY DEF Long
<1>1. PICK n \in Nat \ {0} : n = Len(c)
  BY DEF Circle, Chain
<1>2. \A j \in 1..n : c[j] \in Links /\ LockEdge(rag, c[j])
  BY <1>1 DEF Circle, Chain
<1>3. c[1].to = c[n].from
  BY <1>1 DEF Circle
<1>4. CASE n = 1
  <2>1. c[1] \in Links /\ LockEdge(rag, c[1]) /\ c[1].to = c[1].from
    BY <1>2, <1>3, <1>4
  <2> QED BY <2>1, LockEdgeIs, NodesAssumption
<1>5. CASE n = 2
  <2>1. /\ c[1] \in Links /\ LockEdge(rag, c[1])
        /\ c[2] \in Links /\ LockEdge(rag, c[2]) /\ c[1].to = c[2].from
    BY <1>2, <1>3, <1>5
  <2>2. 1 < Len(c) /\ 1 \in 1..Len(c)
    BY <1>1, <1>5
  <2>3. c[1 + 1].to = c[1].from
    BY <2>2 DEF Circle, Chain
  <2>4. c[2].to = c[1].from
    BY <2>3
  <2>5. c[1].from \in Threads \/ c[2].from \in Threads
    BY <2>1, LockEdgeIs
  <2> QED BY <2>1, <2>4, <2>5, NoCircleOfTwo
<1> QED BY <1>1, <1>4, <1>5

(* What the graph has of the threads of a circle whose queues are read. *)
LEMMA CircleShown ==
  ASSUME SInv, NEW S \in SUBSET Threads, InCircle(S), NEW t \in S
  PROVE  /\ t \in reqThreads /\ arg[t].mtx \in Mutexes /\ owner[arg[t].mtx] \in S
         /\ \E x \in Elements(rag.edges[t]) : x.type # "YIELD" /\ x.to = arg[t].mtx
         /\ \A m \in Mutexes : owner[m] = t =>
              \E x \in Elements(rag.edges[m]) : x.type # "YIELD" /\ x.to = t
<1>1. /\ Now \in States /\ Now.graph = rag /\ Now.req = reqThreads /\ Now.held = <<>>
      /\ TracksAll
  BY NowState DEF SInv, RInv, Now
<1>2. eq[t] = <<>> /\ Asks(t) /\ owner[arg[t].mtx] \in S
  BY DEF InCircle
<1>3. Tracks(t, Now, <<>>, HoldingView(t), Asked(t))
  BY <1>1, <1>2 DEF TracksAll
<1>4. Shows(Now, t, HoldingView(t), Asked(t))
  BY <1>3, TracksShown
<1>5. PICK x : x \in Asked(t) /\ x.to = arg[t].mtx
  <2>1. PICK x : x = [to |-> arg[t].mtx, pos |-> arg[t].pos,
                      type |-> IF pc[t] \in {"locking", "acquired"} THEN "GRANT" ELSE "REQUEST"]
    OBVIOUS
  <2>2. x \in Asked(t)
    BY <1>2, <2>1 DEF Asked
  <2> QED BY <2>1, <2>2
<1>6. t \in reqThreads /\ x.to \in Mutexes
  BY <1>1, <1>4, <1>5 DEF Shows
<1>7. x \in Elements(rag.edges[t]) /\ x.type # "YIELD"
  BY <1>1, <1>4, <1>5 DEF Shows, Exactly, EdgesToLocks
<1>8. ASSUME NEW m \in Mutexes, owner[m] = t
      PROVE  \E y \in Elements(rag.edges[m]) : y.type # "YIELD" /\ y.to = t
  <2>1. PICK y : y = [to |-> t, type |-> "HOLD", pos |-> acqPos[m]]
    OBVIOUS
  <2>2. y \in HoldingView(t)[m]
    BY <1>8, <2>1 DEF HoldingView, Holding
  <2>3. y \in Elements(rag.edges[m])
    BY <1>1, <1>4, <2>2 DEF Shows, Exactly
  <2> QED BY <2>1, <2>3
<1> QED BY <1>2, <1>5, <1>6, <1>7, <1>8

(* An edge of a vertex is one that the searches follow. *)
LEMMA EdgeLinks ==
  ASSUME SInv, NEW v \in Vertices, NEW x \in Elements(rag.edges[v]), x.type # "YIELD"
  PROVE  \E e \in Links : LockEdge(rag, e) /\ e.from = v /\ e.to = x.to
<1>1. rag \in Graphs
  BY DEF SInv, RInv
<1>2. PICK i \in 1..Len(rag.edges[v]) : rag.edges[v][i] = x
  BY <1>1 DEF Graphs, Elements
<1>3. PICK e : e = Search!Edge(v, rag.edges[v][i])
  OBVIOUS
<1>4. e \in Drawn(rag) /\ e \in Links /\ e.from = v /\ e.to = x.to /\ e.type = x.type
  BY <1>1, <1>2, <1>3, EdgeFacts
<1> QED BY <1>4 DEF LockEdge

(* So has_cycle finds a circle of locks. *)
LEMMA CircleSeen ==
  ASSUME SInv, NEW S \in SUBSET Threads, InCircle(S), NEW ts \in Orders(reqThreads)
  PROVE  Deadlock(ts).found
<1>1. /\ rag \in Graphs /\ reqThreads \in SUBSET Threads /\ IsFiniteSet(Vertices)
      /\ Fine(rag) /\ Long(rag)
  BY VerticesFinite, GraphFine, GraphLong DEF SInv, RInv
<1>2. PICK n \in Nat : n = Cardinality(reqThreads)
  BY <1>1, FS_Subset, FS_CardinalityType DEF Vertices
<1>3. ts \in [1..n -> reqThreads] /\ Elements(ts) = reqThreads
  BY <1>2 DEF Orders
<1>4. ts \in Seq(Vertices) /\ Len(ts) = n /\ DOMAIN ts = 1..n
  BY <1>1, <1>3 DEF Vertices
<1>5. PICK t : t \in S
  BY DEF InCircle
<1>6. t \in reqThreads
  BY <1>5, CircleShown
<1>7. PICK k \in 1..Len(ts) : ts[k] = t
  BY <1>3, <1>4, <1>6 DEF Elements
<1>8. PICK X : X = S \cup {arg[u].mtx : u \in S}
  OBVIOUS
<1>9. X \in SUBSET Vertices
  BY <1>8, CircleShown DEF Vertices
<1>10. ASSUME NEW v \in X PROVE \E e \in Links : LockEdge(rag, e) /\ e.from = v /\ e.to \in X
  <2>1. CASE v \in S
    <3>1. PICK x \in Elements(rag.edges[v]) : x.type # "YIELD" /\ x.to = arg[v].mtx
      BY <2>1, CircleShown
    <3>2. x.to \in X
      BY <1>8, <2>1, <3>1
    <3> QED BY <1>9, <3>1, <3>2, EdgeLinks
  <2>2. CASE \E u \in S : v = arg[u].mtx
    <3>1. PICK u \in S : v = arg[u].mtx
      BY <2>2
    <3>2. v \in Mutexes /\ owner[v] \in S
      BY <3>1, CircleShown
    <3>3. PICK o \in S : o = owner[v]
      BY <3>2
    <3>4. PICK x \in Elements(rag.edges[v]) : x.type # "YIELD" /\ x.to = o
      BY <3>2, <3>3, CircleShown
    <3>5. x.to \in X
      BY <1>8, <3>3, <3>4
    <3> QED BY <1>9, <3>4, <3>5, EdgeLinks
  <2> QED BY <1>8, <2>1, <2>2
<1>11. Search!HasCycle(rag, ts).found
  BY <1>1, <1>4, <1>5, <1>7, <1>8, <1>9, <1>10, HasCycleFinds
<1> QED BY <1>11 DEF Deadlock

(* Once all queues are read, every lock edge tells the truth. *)
LEMMA GraphTrue == SInv /\ Quiet => AllTrue(rag)
<1> SUFFICES ASSUME SInv, Quiet, NEW e \in Links, LockEdge(rag, e) PROVE True(e)
  BY DEF AllTrue
<1>1. PICK x \in Edges :
        /\ x \in Elements(rag.edges[e.from])
        /\ x.to = e.to /\ x.type = e.type /\ x.pos = e.pos /\ x.type # "YIELD"
        /\ \/ e.from \in Threads /\ x.to \in Mutexes /\ x.type # "HOLD"
           \/ e.from \in Mutexes /\ x.to \in Threads /\ x.type = "HOLD"
  BY LockEdgeIs
<1>2. Now \in States /\ Now.graph = rag /\ Now.held = <<>> /\ TracksAll
  BY NowState DEF SInv, RInv
<1>3. \A t \in Threads : Shows(Now, t, HoldingView(t), Asked(t))
  <2> SUFFICES ASSUME NEW t \in Threads PROVE Shows(Now, t, HoldingView(t), Asked(t))
    OBVIOUS
  <2>1. Tracks(t, Now, <<>>, HoldingView(t), Asked(t))
    BY <1>2 DEF TracksAll, Quiet
  <2> QED BY <2>1, TracksShown
<1>4. CASE e.from \in Threads /\ x.to \in Mutexes /\ x.type # "HOLD"
  <2>1. x \in Asked(e.from)
    BY <1>1, <1>2, <1>3, <1>4 DEF Shows, Exactly, EdgesToLocks
  <2>2. Asks(e.from) /\ x.to = arg[e.from].mtx
    BY <2>1 DEF Asked
  <2> QED BY <1>1, <1>4, <2>2 DEF True
<1>5. CASE e.from \in Mutexes /\ x.to \in Threads /\ x.type = "HOLD"
  <2>1. x \in HoldingView(x.to)[e.from]
    BY <1>1, <1>2, <1>3, <1>5 DEF Shows, Exactly, EdgesTo
  <2>2. x \in Holding(x.to, e.from)
    BY <1>5, <2>1 DEF HoldingView
  <2>3. owner[e.from] = x.to /\ acqPos[e.from] = x.pos
    BY <2>2 DEF Holding
  <2> QED BY <1>1, <1>5, <2>3 DEF True
<1> QED BY <1>1, <1>4, <1>5

(* What the searches from the requesting threads return. *)
LEMMA VerdictFacts ==
  ASSUME SInv, NEW ts \in Orders(reqThreads)
  PROVE  /\ Deadlock(ts).found \in BOOLEAN /\ Deadlock(ts).cycle \in Seq(Drawn(rag))
         /\ Livelock(ts).found \in BOOLEAN /\ Livelock(ts).cycle \in Seq(Drawn(rag))
         /\ Livelock(ts).kafa \in SUBSET Vertices
         /\ Quiet /\ Deadlock(ts).found => AllTrue(rag) /\ Circle(rag, Deadlock(ts).cycle)
<1>1. rag \in Graphs /\ reqThreads \in SUBSET Threads /\ IsFiniteSet(Vertices)
  BY VerticesFinite DEF SInv, RInv
<1>2. ts \in Seq(Vertices)
  <2>1. Cardinality(reqThreads) \in Nat
    BY <1>1, FS_Subset, FS_CardinalityType DEF Vertices
  <2>2. ts \in [1..Cardinality(reqThreads) -> reqThreads]
    BY DEF Orders
  <2> QED BY <1>1, <2>1, <2>2 DEF Vertices
<1>3. PICK d : d = Search!HasCycle(rag, ts)
  OBVIOUS
<1>4. /\ d.found \in BOOLEAN /\ d.cycle \in Seq(Drawn(rag))
      /\ Fine(rag) /\ Long(rag) /\ d.found => Circle(rag, d.cycle)
  BY <1>1, <1>2, <1>3, HasCycleFacts
<1>5. PICK a : a = Search!HasAllCycles(rag, ts, d.cycle)
  OBVIOUS
<1>6. a.found \in BOOLEAN /\ a.cycle \in Seq(Drawn(rag)) /\ a.kafa \in SUBSET Vertices
  BY <1>1, <1>2, <1>4, <1>5, HasAllCyclesFacts
<1>7. Quiet /\ d.found => AllTrue(rag) /\ Circle(rag, d.cycle)
  BY <1>4, GraphFine, GraphTrue, GraphLong
<1>8. Deadlock(ts) = d /\ Livelock(ts) = a
  BY <1>3, <1>5 DEF Deadlock, Livelock
<1> QED BY <1>4, <1>6, <1>7, <1>8

(* The edge a livelock is broken at is a YIELD edge of its cycles. *)
LEMMA ChosenYields ==
  ASSUME NEW G, NEW es, NEW e \in Search!FirstYield(G, es)
  PROVE  \E i \in DOMAIN es : e = es[i] /\ es[i].type = "YIELD"
<1>1. PICK yields : yields = {i \in DOMAIN es : es[i].type = "YIELD"}
  OBVIOUS
<1>2. PICK S \in SUBSET yields : e \in Search!LastOf(es, S)
  <2>1. PICK alone : alone = {i \in yields : Len(G.edges[es[i].from]) = 1}
    OBVIOUS
  <2>2. PICK pure : pure = {i \in yields : \A j \in DOMAIN G.edges[es[i].from] :
                                             G.edges[es[i].from][j].type = "YIELD"}
    OBVIOUS
  <2>3. Search!FirstYield(G, es) = IF alone # {} THEN Search!LastOf(es, alone)
                                   ELSE IF pure # {} THEN Search!LastOf(es, pure)
                                   ELSE Search!LastOf(es, yields)
    BY <1>1, <2>1, <2>2 DEF Search!FirstYield
  <2> QED BY <2>1, <2>2, <2>3
<1>3. PICK i \in S : e = es[i]
  BY <1>2 DEF Search!LastOf
<1> QED BY <1>1, <1>2, <1>3

(* What is saved of cycles of the graph is a template. *)
LEMMA SavedType ==
  ASSUME SInv, NEW c \in Seq(Drawn(rag)), NEW K
  PROVE  TemplateOf(c, K) \in Seq(Positions)
<1>1. \A i \in 1..Len(c) : c[i] \in Drawn(rag)
  OBVIOUS
<1>2. \A i \in 1..Len(c) : c[i].pos \in Positions
  BY <1>1, DrawnShaped DEF SInv
<1>3. c \in Seq(Links)
  BY <1>1, SeqGrows DEF Drawn
<1> QED BY <1>2, <1>3, TemplateType

-----------------------------------------------------------------------------
(* The invariant of the whole port *)

(* The monitor lets one thread through at a time, and does not go on after *)
(* it has killed the process.                                              *)
DInv ==
  /\ SInv
  /\ mpc \in {"idle", "drain", "check", "notify", "off"}
  /\ Threads # {} => cursor \in DOMAIN QueueOrder
  /\ templates \subseteq Seq(Positions) /\ killed \in BOOLEAN
  /\ IF mpc = "notify" THEN \E t \in Threads : breaking = {t} ELSE breaking = {}
  /\ killed => mpc = "off" /\ (Quiet => SavedDeadlock)

LEMMA ReportSaves ==
  ASSUME SInv, templates \subseteq Seq(Positions), mpc = "check", breaking = {},
         NEW ts \in Orders(reqThreads), ReportDeadlock(ts)
  PROVE  /\ AnyVerdict
         /\ templates' \subseteq Seq(Positions)
         /\ killed' = TRUE /\ mpc' = "off" /\ breaking' = {}
         /\ Quiet' => SavedDeadlock'
<1>1. PICK c \in Seq(Drawn(rag)) : c = Deadlock(ts).cycle
  BY VerdictFacts
<1>2. PICK T : T = TemplateOf(c, {"HOLD"})
  OBVIOUS
<1>3. /\ templates' = templates \cup {T} /\ killed' = TRUE /\ mpc' = "off"
      /\ UNCHANGED <<vars, rag, reqThreads, cursor, behind>> /\ Deadlock(ts).found
  BY <1>1, <1>2 DEF ReportDeadlock
<1>4. T \in Seq(Positions)
  BY <1>2, SavedType
<1>5. AnyVerdict
  <2>1. rag.kafa \in SUBSET (Threads \cup Mutexes) /\ rag' = [rag EXCEPT !.kafa = rag.kafa]
    BY <1>3 DEF SInv, RInv, Graphs, Vertices
  <2> QED BY <1>3, <2>1 DEF AnyVerdict, vars, monVars, lockVars, realVars, grantVars
<1>6. ASSUME Quiet' PROVE SavedDeadlock'
  <2>1. Quiet
    BY <1>3, <1>6 DEF Quiet, vars
  <2>2. AllTrue(rag) /\ Circle(rag, c)
    BY <1>1, <1>3, <2>1, VerdictFacts
  <2>3. /\ T # <<>>
        /\ \E f \in [DOMAIN T -> Threads], h \in [DOMAIN T -> Mutexes] : AskInCircle(T, f, h)
    BY <1>2, <2>2, CircleIsDeadlock
  <2>4. PICK f \in [DOMAIN T -> Threads], h \in [DOMAIN T -> Mutexes] : AskInCircle(T, f, h)
    BY <2>3
  <2>5. AskInCircle(T, f, h)'
    BY <1>3, <2>4 DEF AskInCircle, Asks, vars, lockVars
  <2>6. T \in templates'
    BY <1>3
  <2> QED BY <2>3, <2>5, <2>6 DEF SavedDeadlock
<1> QED BY <1>3, <1>4, <1>5, <1>6 DEF vars, monVars

LEMMA BreakChooses ==
  ASSUME SInv, templates \subseteq Seq(Positions), mpc = "check", breaking = {},
         NEW ts \in Orders(reqThreads), BreakLivelock(ts)
  PROVE  /\ AnyVerdict
         /\ templates' \subseteq Seq(Positions) /\ killed' = killed
         /\ \/ mpc' = "idle" /\ UNCHANGED <<bypass, breaking>>
            \/ /\ mpc' = "notify"
               /\ \E t \in Threads : /\ t \in MayYield /\ breaking' = {t}
                                     /\ bypass' = [bypass EXCEPT ![t] = TRUE]
<1>1. PICK es \in Seq(Drawn(rag)) : es = Livelock(ts).cycle
  BY VerdictFacts
<1>2. PICK chosen : chosen = Search!FirstYield(rag, es)
  OBVIOUS
<1>3. /\ templates' = templates \cup {TemplateOf(es, {"HOLD", "YIELD"})}
      /\ rag' = [rag EXCEPT !.kafa = Livelock(ts).kafa]
      /\ \/ mpc' = "idle" /\ UNCHANGED <<bypass, breaking>>
         \/ \E e \in chosen : /\ bypass' = [bypass EXCEPT ![e.from] = TRUE]
                              /\ breaking' = {e.from} /\ mpc' = "notify"
      /\ UNCHANGED <<pc, arg, lockPos, lockVars, realVars, grantVars, yieldCause, yielded, eq,
                     reqThreads, cursor, behind, killed>>
  BY <1>1, <1>2 DEF BreakLivelock
<1>4. ASSUME NEW e \in chosen PROVE e.from \in Threads /\ e.from \in MayYield
  <2>1. PICK i \in DOMAIN es : e = es[i] /\ es[i].type = "YIELD"
    BY <1>2, <1>4, ChosenYields
  <2>2. e \in Drawn(rag)
    BY <2>1
  <2> QED BY <2>1, <2>2, DrawnShaped DEF SInv
<1>5. \/ mpc' = "idle" /\ UNCHANGED <<bypass, breaking>>
      \/ /\ mpc' = "notify"
         /\ \E t \in Threads : /\ t \in MayYield /\ breaking' = {t}
                               /\ bypass' = [bypass EXCEPT ![t] = TRUE]
  BY <1>3, <1>4
<1>6. AnyVerdict
  <2>1. \E marks \in SUBSET (Threads \cup Mutexes) : rag' = [rag EXCEPT !.kafa = marks]
    BY <1>3, VerdictFacts DEF Vertices
  <2>2. \/ mpc' \in {"idle", "off"} /\ UNCHANGED <<bypass, breaking>>
        \/ \E t \in Threads : /\ bypass' = [bypass EXCEPT ![t] = TRUE]
                              /\ breaking' = {t} /\ mpc' = "notify"
    BY <1>5
  <2> QED BY <1>3, <2>1, <2>2 DEF AnyVerdict
<1>7. templates' \subseteq Seq(Positions)
  BY <1>3, SavedType
<1> QED BY <1>3, <1>5, <1>6, <1>7

LEMMA NothingFound ==
  ASSUME SInv, mpc = "check", NEW ts \in Orders(reqThreads), FindNothing(ts)
  PROVE  /\ AnyVerdict
         /\ mpc' = "idle" /\ UNCHANGED <<vars, detVars>>
<1>1. /\ rag' = [rag EXCEPT !.kafa = Livelock(ts).kafa] /\ mpc' = "idle"
      /\ UNCHANGED <<vars, reqThreads, cursor, behind, detVars>>
  BY DEF FindNothing
<1>2. Livelock(ts).kafa \in SUBSET (Threads \cup Mutexes)
  BY VerdictFacts DEF Vertices
<1> QED BY <1>1, <1>2 DEF AnyVerdict, vars, monVars, lockVars, realVars, grantVars

LEMMA ThreadsLeaveBreaking ==
  ASSUME NEW t, Step(t) \/ Operation(t) \/ SpuriousWakeup(t)
  PROVE  breaking' = breaking
BY DEF Step, Operation, SpuriousWakeup, TemplateInstance, Grant, EmitGrant, Yield, EmitYield, Sleep,
       Retry, RealLock, Acquired, RealTryLock, RealLockFails, ReleaseAllowed, RealUnlock, CancelAllowed,
       CondWake, Acquire, TryAcquire, Release, CondWait, Cancel, monVars

(* What the monitor does is what Replay lets it do. *)
LEMMA DetReplays ==
  ASSUME DInv, [DetNext]_allVars
  PROVE  [ReplayNext]_<<vars, replayVars>>
<1>1. CASE UNCHANGED allVars
  BY <1>1 DEF allVars
<1>2. CASE StartPass \/ (\E t \in Threads : DrainQueue(t)) \/ Notify
  BY <1>2 DEF ReplayNext, Replays
<1>3. CASE CheckForCycles
  <2>1. mpc = "check" /\ breaking = {} /\ templates \subseteq Seq(Positions)
    BY <1>3 DEF CheckForCycles, DInv
  <2>2. AnyVerdict
    BY <1>3, <2>1, ReportSaves, BreakChooses, NothingFound DEF CheckForCycles, DInv
  <2> QED BY <2>2 DEF ReplayNext, Replays
<1>4. CASE ProgramStep
  <2>1. ThreadStep /\ Miscount /\ UNCHANGED <<rag, reqThreads, mpc, cursor>>
    BY <1>4 DEF ProgramStep, ThreadStep
  <2> QED BY <2>1 DEF ReplayNext
<1> QED BY <1>1, <1>2, <1>3, <1>4 DEF DetNext, MonitorStep

LEMMA DInvInit == DetInit => DInv
<1> SUFFICES ASSUME DetInit PROVE DInv
  OBVIOUS
<1>1. SInv
  BY SInvInit DEF DetInit
<1>2. mpc = "idle" /\ cursor = 1 /\ killed = FALSE /\ breaking = {} /\ templates = Elements(History)
  BY DEF DetInit, ReplayInit, Init
<1>3. templates \subseteq Seq(Positions)
  BY <1>2, HistoryAssumption DEF Elements
<1>4. Threads # {} => cursor \in DOMAIN QueueOrder
  <2>1. PICK n \in Nat : DOMAIN QueueOrder = 1..n
    BY QueueOrderAssumption
  <2>2. Threads # {} => 1..n # {}
    BY <2>1, QueueOrderAssumption DEF Elements
  <2> QED BY <1>2, <2>1, <2>2
<1> QED BY <1>1, <1>2, <1>3, <1>4 DEF DInv

LEMMA DInvNext ==
  ASSUME Plain, DInv, [DetNext]_allVars
  PROVE  DInv'
<1>1. SInv /\ SInv'
  BY DetReplays, SInvNext DEF DInv
<1>2. /\ mpc \in {"idle", "drain", "check", "notify", "off"}
      /\ Threads # {} => cursor \in DOMAIN QueueOrder
      /\ templates \subseteq Seq(Positions) /\ killed \in BOOLEAN
      /\ (IF mpc = "notify" THEN \E t \in Threads : breaking = {t} ELSE breaking = {})
      /\ killed => mpc = "off" /\ (Quiet => SavedDeadlock)
  BY DEF DInv
<1>3. CASE UNCHANGED allVars
  <2>1. UNCHANGED <<mpc, cursor, templates, killed, breaking, eq, owner, acqPos, pc, arg>>
    BY <1>3 DEF allVars, vars, replayVars, detVars, monVars, lockVars
  <2>2. Quiet' = Quiet /\ SavedDeadlock' = SavedDeadlock
    BY <2>1 DEF Quiet, SavedDeadlock, AskInCircle, Asks
  <2> QED BY <1>1, <1>2, <2>1, <2>2 DEF DInv
<1>4. ASSUME ~ killed, killed' = killed, templates' = templates,
             mpc' \in {"idle", "drain", "check", "notify", "off"},
             IF mpc' = "notify" THEN \E t \in Threads : breaking' = {t} ELSE breaking' = {},
             Threads # {} => cursor' \in DOMAIN QueueOrder
      PROVE  DInv'
  BY <1>1, <1>2, <1>4 DEF DInv
<1>5. CASE StartPass /\ UNCHANGED detVars
  <2>1. /\ ~ killed /\ UNCHANGED <<killed, templates, breaking>> /\ mpc = "idle"
        /\ mpc' = "drain" /\ cursor' = 1
    BY <1>2, <1>5 DEF StartPass, detVars, vars, monVars
  <2>2. Threads # {} => 1 \in DOMAIN QueueOrder
    <3>1. PICK n \in Nat : DOMAIN QueueOrder = 1..n
      BY QueueOrderAssumption
    <3>2. Threads # {} => 1..n # {}
      BY <3>1, QueueOrderAssumption DEF Elements
    <3> QED BY <3>1, <3>2
  <2> QED BY <1>2, <1>4, <2>1, <2>2
<1>6. ASSUME NEW t \in Threads, DrainQueue(t), UNCHANGED detVars PROVE DInv'
  <2>1. /\ ~ killed /\ UNCHANGED <<killed, templates, breaking>> /\ mpc = "drain"
        /\ \/ cursor < Len(QueueOrder) /\ cursor' = cursor + 1 /\ mpc' = "drain"
           \/ cursor = Len(QueueOrder) /\ mpc' = "check" /\ cursor' = cursor
    BY <1>2, <1>6 DEF DrainQueue, detVars, monVars
  <2>2. cursor' \in DOMAIN QueueOrder
    <3>1. PICK n \in Nat : n = Len(QueueOrder) /\ DOMAIN QueueOrder = 1..n
      BY QueueOrderAssumption
    <3> QED BY <1>2, <2>1, <3>1
  <2> QED BY <1>2, <1>4, <2>1, <2>2
<1>7. CASE CheckForCycles
  <2>1. PICK ts \in Orders(reqThreads) : ReportDeadlock(ts) \/ BreakLivelock(ts) \/ FindNothing(ts)
    BY <1>7 DEF CheckForCycles
  <2>2. mpc = "check" /\ breaking = {} /\ ~ killed /\ cursor' = cursor
    BY <1>2, <1>7 DEF CheckForCycles, ReportDeadlock, BreakLivelock, FindNothing
  <2>3. CASE ReportDeadlock(ts)
    <3>1. /\ templates' \subseteq Seq(Positions) /\ killed' = TRUE /\ mpc' = "off" /\ breaking' = {}
          /\ Quiet' => SavedDeadlock'
      BY <1>1, <1>2, <2>2, <2>3, ReportSaves
    <3> QED BY <1>1, <1>2, <2>2, <3>1 DEF DInv
  <2>4. CASE BreakLivelock(ts)
    <3>1. /\ templates' \subseteq Seq(Positions) /\ killed' = killed
          /\ \/ mpc' = "idle" /\ UNCHANGED <<bypass, breaking>>
             \/ mpc' = "notify" /\ \E t \in Threads : breaking' = {t}
      BY <1>1, <1>2, <2>2, <2>4, BreakChooses
    <3> QED BY <1>1, <1>2, <2>2, <3>1 DEF DInv
  <2>5. CASE FindNothing(ts)
    <3>1. mpc' = "idle" /\ UNCHANGED <<killed, templates, breaking>>
      BY <1>1, <2>2, <2>5, NothingFound DEF vars, detVars, monVars
    <3> QED BY <1>2, <1>4, <2>2, <3>1
  <2> QED BY <2>1, <2>3, <2>4, <2>5
<1>8. CASE Notify /\ UNCHANGED detVars
  <2>1. PICK t \in Threads : breaking = {t}
    BY <1>2, <1>8 DEF Notify
  <2>2. /\ ~ killed /\ UNCHANGED <<killed, templates>> /\ mpc' = "idle" /\ cursor' = cursor
        /\ breaking' = breaking \ {t}
    BY <1>2, <1>8, <2>1 DEF Notify, BreakNotify, detVars
  <2> QED BY <1>2, <1>4, <2>1, <2>2
<1>9. CASE ProgramStep
  <2>1. ~ killed /\ UNCHANGED <<killed, templates, mpc, cursor>>
    BY <1>9 DEF ProgramStep, detVars
  <2>2. breaking' = breaking
    BY <1>9, ThreadsLeaveBreaking DEF ProgramStep
  <2> QED BY <1>2, <1>4, <2>1, <2>2
<1> QED BY <1>3, <1>5, <1>6, <1>7, <1>8, <1>9 DEF DetNext, MonitorStep

-----------------------------------------------------------------------------
(* The theorems *)

LEMMA DInvAlways ==
  ASSUME "events" \in Features, "trylock" \notin Features, "cancel" \notin Features,
         "fail" \notin Features, "condwait" \notin Features
  PROVE  DetSpec => []DInv
<1>1. Plain
  BY DEF Plain
<1>2. DetInit => DInv
  BY DInvInit
<1>3. DInv /\ [DetNext]_allVars => DInv'
  BY <1>1, DInvNext
<1> QED BY <1>2, <1>3, PTL DEF DetSpec

(* What the monitor keeps has its type: the edges of its graph, which have *)
(* a position each (the events it is fed, in detection.cc, process_event), *)
(* the threads it looks for cycles from, its place in its loop and the     *)
(* templates it saves.  For any number of threads and mutexes, any history *)
(* and queues of any length.                                               *)
THEOREM DetTypeCorrect ==
  ASSUME "events" \in Features, "trylock" \notin Features, "cancel" \notin Features,
         "fail" \notin Features, "condwait" \notin Features, Threads # {}
  PROVE  DetSpec => []DetTypeOK
<1>1. DetSpec => []DInv
  BY DInvAlways
<1>2. DInv => DetTypeOK
  <2> SUFFICES ASSUME DInv PROVE DetTypeOK
    OBVIOUS
  <2>1. rag \in Graphs /\ Shaped(rag, MayYield) /\ reqThreads \subseteq Threads
    BY DEF DInv, SInv, RInv
  <2>2. PICK S : S = [to : Threads \cup Mutexes, type : {"REQUEST", "GRANT", "HOLD", "YIELD"},
                      pos : Positions]
    OBVIOUS
  <2>3. \A v \in Vertices : EdgesOf(v, MayYield) \subseteq S
    BY <2>2 DEF EdgesOf, ThreadEdges, MutexEdges, Edges
  <2>4. \A v \in Vertices : rag.edges[v] \in Seq(S)
    BY <2>1, <2>3, SeqGrows DEF Shaped
  <2>5. rag.edges \in [Threads \cup Mutexes -> Seq(S)]
    BY <2>1, <2>4 DEF Graphs, Vertices
  <2>6. rag.valued \subseteq Threads \cup Mutexes /\ rag.kafa \subseteq Threads \cup Mutexes
    BY <2>1 DEF Graphs, Vertices
  <2>7. behind \in [Threads -> Shortfalls]
    BY DEF DInv, SInv, RInv
  <2> QED BY <2>1, <2>2, <2>5, <2>6, <2>7 DEF DInv, DetTypeOK
<1> QED BY <1>1, <1>2, PTL

(* When the monitor has reported a deadlock and killed the process, there  *)
(* is one, and it is what was saved, provided no thread has recorded an    *)
(* event since its queue was read (check_for_cycles in detection.cc, with  *)
(* has_cycle of graph.cc).  For any number of threads and mutexes, any     *)
(* history and queues of any length, and in whatever order the searches    *)
(* start.                                                                  *)
THEOREM QuietReportsAreDeadlocks ==
  ASSUME "events" \in Features, "trylock" \notin Features, "cancel" \notin Features,
         "fail" \notin Features, "condwait" \notin Features
  PROVE  DetSpec => []QuietReportIsDeadlock
<1>1. DetSpec => []DInv
  BY DInvAlways
<1>2. DInv => QuietReportIsDeadlock
  BY DEF DInv, QuietReportIsDeadlock
<1> QED BY <1>1, <1>2, PTL

(* The monitor sees every deadlock: when it looks for cycles (has_cycle    *)
(* and dfs_visit in graph.cc) and the threads of one have their queues     *)
(* read, it finds a cycle, whatever the other threads have not told it     *)
(* yet, and in whatever order it starts.  For any number of threads and    *)
(* mutexes, any history and queues of any length.                          *)
THEOREM DeadlocksAreSeen ==
  ASSUME "events" \in Features, "trylock" \notin Features, "cancel" \notin Features,
         "fail" \notin Features, "condwait" \notin Features
  PROVE  DetSpec => []DeadlockSeen
<1>1. DetSpec => []DInv
  BY DInvAlways
<1>2. DInv => DeadlockSeen
  <2> SUFFICES ASSUME DInv, NEW S \in SUBSET Threads, InCircle(S), NEW ts \in Orders(reqThreads)
               PROVE  Deadlock(ts).found
    BY DEF DeadlockSeen
  <2>1. SInv
    BY DEF DInv
  <2> QED BY <2>1, CircleSeen
<1> QED BY <1>1, <1>2, PTL

(* The searches of graph.cc leave no more than their marks in the graph,   *)
(* so what is proved of Replay holds of the whole port.                    *)
LEMMA DetectionReplays ==
  ASSUME "events" \in Features, "trylock" \notin Features, "cancel" \notin Features,
         "fail" \notin Features, "condwait" \notin Features
  PROVE  DetSpec => ReplaySpec
<1>1. DetSpec => []DInv
  BY DInvAlways
<1>2. DInv /\ [DetNext]_allVars => [ReplayNext]_<<vars, replayVars>>
  BY DetReplays
<1>3. DetInit => Init /\ ReplayInit
  BY DEF DetInit
<1> QED BY <1>1, <1>2, <1>3, PTL DEF DetSpec, ReplaySpec

(* In the whole port, too, the graph has the locks of every thread whose   *)
(* queue is read (process_event in detection.cc).                          *)
THEOREM DetectionGraphIsExact ==
  ASSUME "events" \in Features, "trylock" \notin Features, "cancel" \notin Features,
         "fail" \notin Features, "condwait" \notin Features
  PROVE  DetSpec => []GraphExact
<1>1. DetSpec => ReplaySpec
  BY DetectionReplays
<1>2. ReplaySpec => []GraphExact
  BY GraphIsExact
<1> QED BY <1>1, <1>2, PTL

-----------------------------------------------------------------------------
(* The threads do as Avoidance says, without their events *)

LEMMA AcquireMaps ==
  ASSUME NEW t \in Threads, NEW m \in Mutexes, NEW p \in Positions
  PROVE  Acquire(t, m, p) => A!Acquire(t, m, p)
<1> SUFFICES ASSUME Acquire(t, m, p) PROVE A!Acquire(t, m, p)
  OBVIOUS
<1>1. /\ pc[t] = "idle" /\ A!MayLock(t, m)
      /\ arg' = [arg EXCEPT ![t] = [mtx |-> m, pos |-> p]]
  <2>1. A!Held(t) = Held(t)
    BY DEF Held, A!Held
  <2>2. A!MayLock(t, m) <=> MayLock(t, m)
    BY <2>1 DEF MayLock, A!MayLock, Cardinality, A!Cardinality
  <2> QED BY <2>2 DEF Acquire
<1>2. UNCHANGED <<A!lockVars, A!realVars, A!grantVars, yieldCause, bypass, A!monVars>>
  BY DEF Acquire, lockVars, A!lockVars, realVars, A!realVars, grantVars, A!grantVars,
         monVars, A!monVars
<1>3. A!Enqueue(t, "REQUEST", m, p, {})
  BY DEF A!Enqueue
<1>4. CASE owner[m] = t
  <2>1. A!Goto(t, "locking") /\ UNCHANGED <<lockPos, [u \in Threads |-> <<>>]>>
    BY <1>4 DEF Acquire, Goto, A!Goto
  <2> QED BY <1>1, <1>2, <1>4, <2>1 DEF A!Acquire
<1>5. CASE owner[m] # t
  <2>1. A!Goto(t, "request") /\ lockPos' = [lockPos EXCEPT ![t] = p]
    BY <1>5 DEF Acquire, Goto, A!Goto
  <2> QED BY <1>1, <1>2, <1>3, <1>5, <2>1 DEF A!Acquire
<1> QED BY <1>4, <1>5

LEMMA ReleaseMaps ==
  ASSUME NEW t \in Threads, NEW m \in Mutexes
  PROVE  Release(t, m) => A!Release(t, m)
BY DEF Release, A!Release, Goto, A!Goto, Enqueue, A!Enqueue,
       lockVars, A!lockVars, realVars, A!realVars, grantVars, A!grantVars, monVars, A!monVars

LEMMA TemplateInstanceMaps ==
  ASSUME NEW t \in Threads
  PROVE  TemplateInstance(t) => A!TemplateInstance(t)
BY DEF TemplateInstance, A!TemplateInstance, MatchingTemplates, A!MatchingTemplates,
       Matches, A!Matches, OtherSlots, A!OtherSlots, Elements, A!Elements,
       MatchedGrants, A!MatchedGrants, Goto, A!Goto,
       lockVars, A!lockVars, realVars, A!realVars, grantVars, A!grantVars, monVars, A!monVars

LEMMA RequestMaps ==
  ASSUME NEW t \in Threads
  PROVE  /\ Grant(t) => A!Grant(t)
         /\ EmitGrant(t) => A!EmitGrant(t)
         /\ Yield(t) => A!Yield(t)
BY DEF Grant, A!Grant, EmitGrant, A!EmitGrant, Yield, A!Yield, Causes, A!Causes,
       Goto, A!Goto, Enqueue, A!Enqueue,
       lockVars, A!lockVars, realVars, A!realVars, grantVars, A!grantVars, monVars, A!monVars

LEMMA WaitMaps ==
  ASSUME NEW t \in Threads
  PROVE  /\ EmitYield(t) => A!EmitYield(t)
         /\ Sleep(t) => A!Sleep(t)
         /\ Retry(t) => A!Retry(t)
         /\ SpuriousWakeup(t) => A!SpuriousWakeup(t)
BY DEF EmitYield, A!EmitYield, Sleep, A!Sleep, Retry, A!Retry, SpuriousWakeup, A!SpuriousWakeup,
       Goto, A!Goto, Enqueue, A!Enqueue,
       lockVars, A!lockVars, realVars, A!realVars, grantVars, A!grantVars, monVars, A!monVars

LEMMA LockMaps ==
  ASSUME NEW t \in Threads
  PROVE  /\ RealLock(t) => A!RealLock(t)
         /\ Acquired(t) => A!Acquired(t)
         /\ RealUnlock(t) => A!RealUnlock(t)
BY DEF RealLock, A!RealLock, RealFree, A!RealFree, Acquired, A!Acquired, RealUnlock, A!RealUnlock,
       Return, A!Return, NoArg, A!NoArg, Goto, A!Goto, Enqueue, A!Enqueue,
       lockVars, A!lockVars, realVars, A!realVars, grantVars, A!grantVars, monVars, A!monVars

LEMMA ReleaseAllowedMaps ==
  ASSUME NEW t \in Threads
  PROVE  ReleaseAllowed(t) => A!ReleaseAllowed(t)
BY DEF ReleaseAllowed, A!ReleaseAllowed, RemoveAllowed, A!RemoveAllowed, Elements, A!Elements,
       Without, A!Without, Cleared, A!Cleared, Woken, A!Woken,
       lockVars, A!lockVars, realVars, A!realVars, grantVars, A!grantVars, monVars, A!monVars

LEMMA BreakMaps ==
  ASSUME NEW t \in Threads
  PROVE  /\ BreakYield(t) => A!BreakYield(t)
         /\ BreakNotify(t) => A!BreakNotify(t)
BY DEF BreakYield, A!BreakYield, BreakNotify, A!BreakNotify, Cleared, A!Cleared, Woken, A!Woken,
       lockVars, A!lockVars, realVars, A!realVars, grantVars, A!grantVars, monVars, A!monVars

LEMMA InitMaps == Init => A!Init
BY DEF Init, A!Init, NoArg, A!NoArg, Causes, A!Causes

(* Nothing but events is read. *)
LEMMA StutterMaps ==
  ASSUME UNCHANGED <<pc, arg, lockPos, lockVars, realVars, grantVars, yieldCause, bypass, monVars>>
  PROVE  UNCHANGED A!vars
BY DEF A!vars, lockVars, A!lockVars, realVars, A!realVars, grantVars, A!grantVars,
       monVars, A!monVars

LEMMA ThreadMaps ==
  ASSUME PlainInv, Plain, NEW t \in Threads, Step(t) \/ Operation(t) \/ SpuriousWakeup(t)
  PROVE  A!Next
<1>1. pc[t] \notin {"trying", "cancelling", "condwait"}
  BY DEF PlainInv
<1>2. /\ ~ RealTryLock(t) /\ ~ RealLockFails(t) /\ ~ CancelAllowed(t) /\ ~ CondWake(t) /\ ~ Cancel(t)
      /\ \A m \in Mutexes : ~ CondWait(t, m) /\ \A p \in Positions : ~ TryAcquire(t, m, p)
  BY <1>1 DEF Plain, RealTryLock, RealLockFails, CancelAllowed, CondWake, Cancel, CondWait, TryAcquire
<1>3. CASE SpuriousWakeup(t)
  BY <1>3, WaitMaps DEF A!Next
<1>4. CASE Step(t)
  <2>1. A!Step(t)
    BY <1>2, <1>4, TemplateInstanceMaps, RequestMaps, WaitMaps, LockMaps, ReleaseAllowedMaps
    DEF Step, A!Step
  <2> QED BY <2>1 DEF A!Next
<1>5. CASE Operation(t)
  <2>1. A!Operation(t)
    BY <1>2, <1>5, AcquireMaps, ReleaseMaps DEF Operation, A!Operation
  <2> QED BY <2>1 DEF A!Next
<1> QED BY <1>3, <1>4, <1>5

LEMMA DetAvoids ==
  ASSUME Plain, "break" \in Features, DInv, [DetNext]_allVars
  PROVE  [A!Next]_A!vars
<1>1. SInv /\ templates \subseteq Seq(Positions)
  BY DEF DInv
<1>2. PlainInv
  BY <1>1 DEF SInv, RInv
<1>3. CASE UNCHANGED vars
  <2>1. UNCHANGED <<pc, arg, lockPos, lockVars, realVars, grantVars, yieldCause, bypass, monVars>>
    BY <1>3 DEF vars
  <2> QED BY <2>1, StutterMaps
<1>4. CASE UNCHANGED allVars
  BY <1>3, <1>4 DEF allVars
<1>5. CASE StartPass
  BY <1>3, <1>5 DEF StartPass
<1>6. ASSUME NEW t \in Threads, DrainQueue(t) PROVE [A!Next]_A!vars
  BY <1>6, StutterMaps DEF DrainQueue
<1>7. CASE CheckForCycles
  <2>1. PICK ts \in Orders(reqThreads) : ReportDeadlock(ts) \/ BreakLivelock(ts) \/ FindNothing(ts)
    BY <1>7 DEF CheckForCycles
  <2>2. mpc = "check" /\ breaking = {}
    BY <1>7 DEF CheckForCycles, DInv
  <2>3. CASE ReportDeadlock(ts) \/ FindNothing(ts)
    BY <1>3, <2>3 DEF ReportDeadlock, FindNothing
  <2>4. CASE BreakLivelock(ts)
    <3>1. UNCHANGED <<pc, arg, lockPos, lockVars, realVars, grantVars, yieldCause, yielded, eq>>
      BY <2>4 DEF BreakLivelock
    <3>2. CASE UNCHANGED <<bypass, breaking>>
      BY <3>1, <3>2, StutterMaps DEF monVars
    <3>3. CASE \E t \in Threads : /\ t \in MayYield /\ breaking' = {t}
                                  /\ bypass' = [bypass EXCEPT ![t] = TRUE]
      <4>1. PICK t \in Threads : /\ t \in MayYield /\ breaking' = {t}
                                 /\ bypass' = [bypass EXCEPT ![t] = TRUE]
        BY <3>3
      <4>2. t \in yielded /\ t \notin breaking /\ breaking' = breaking \cup {t}
        BY <2>2, <4>1 DEF MayYield
      <4>3. BreakYield(t)
        BY <3>1, <4>1, <4>2 DEF BreakYield
      <4>4. A!BreakYield(t)
        BY <4>3, BreakMaps
      <4> QED BY <4>4 DEF A!Next, A!Monitor
    <3> QED BY <1>1, <2>2, <2>4, <3>2, <3>3, BreakChooses
  <2> QED BY <2>1, <2>3, <2>4
<1>8. CASE Notify
  <2>1. PICK t \in Threads : BreakNotify(t)
    BY <1>1, <1>8 DEF Notify, SInv, RInv, TInv, TypeOK
  <2>2. A!BreakNotify(t)
    BY <2>1, BreakMaps
  <2> QED BY <2>2 DEF A!Next, A!Monitor
<1>9. CASE ProgramStep
  <2>1. PICK t \in Threads : Step(t) \/ Operation(t) \/ SpuriousWakeup(t)
    BY <1>9 DEF ProgramStep
  <2> QED BY <1>2, <2>1, ThreadMaps
<1> QED BY <1>4, <1>5, <1>6, <1>7, <1>8, <1>9 DEF DetNext, MonitorStep

(* The monitor only lets a thread through that has yielded, one at a time, *)
(* and notifies it before the next (check_for_cycles in detection.cc), and *)
(* the rest of the state of the threads it leaves alone: with its searches *)
(* in it, the port is still what Avoidance describes with an arbitrary     *)
(* breaking of livelocks, of which the theorems of AvoidanceProofs are.    *)
THEOREM DetectionImplementsAvoidance ==
  ASSUME "events" \in Features, "break" \in Features, "trylock" \notin Features,
         "cancel" \notin Features, "fail" \notin Features, "condwait" \notin Features
  PROVE  DetSpec => ImplementsAvoidance
<1>1. Plain
  BY DEF Plain
<1>2. DetSpec => []DInv
  BY DInvAlways
<1>3. DInv /\ [DetNext]_allVars => [A!Next]_A!vars
  BY <1>1, DetAvoids
<1>4. DetInit => A!Init
  BY InitMaps DEF DetInit
<1> QED BY <1>2, <1>3, <1>4, PTL DEF DetSpec, ImplementsAvoidance, A!Spec
=============================================================================
