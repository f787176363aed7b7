------------------------------ MODULE RagSearch ------------------------------
(***************************************************************************)
(* The searches of the monitor's graph (pthreads/src/graph.cc).  has_cycle *)
(* looks for a cycle of locks, a deadlock; has_allcycles for a thread all  *)
(* of whose paths end in cycles, a livelock.  Both colour the vertices as  *)
(* they go and keep the colours from one start to the next.                *)
(*                                                                         *)
(* The state of a search is a record that its visits pass on; field r is   *)
(* the result of the last visit.  A recursive method is a function of its  *)
(* calls <<v, i, s>>: what its loop over the edges of vertex v, from edge  *)
(* i on, makes of state s.                                                 *)
(* A definition named Mutant_X_... is what a plausible bug would make of   *)
(* the definition X after it; no specification uses it.                    *)
(***************************************************************************)
EXTENDS Rag, FiniteSets

CONSTANTS
  Positions

Links  == [from : Vertices, to : Vertices, type : {"REQUEST", "GRANT", "HOLD", "YIELD"},
           pos : Positions \cup {NULL}]
Edge(v, e) == [from |-> v, to |-> e.to, type |-> e.type, pos |-> e.pos]

(* cycle: the edges collected.  kafas: the vertices noted by visit_kafas.  *)
(* open: Vertex::open_cycles.                                              *)
Searches == [color : [Vertices -> {"WHITE", "GREY", "BLACK", "RED"}], cycle : Seq(Links),
             kafa : SUBSET Vertices, kafas : Seq(Vertices),
             open : [Vertices -> SUBSET (Vertices \cup {NULL})], r : 0..2]

Calls == Vertices \X (Nat \ {0}) \X Searches

White == [v \in Vertices |-> "WHITE"]
NewSearch(G, cycle) == [color |-> White, cycle |-> cycle, kafa |-> G.kafa, kafas |-> <<>>,
                        open |-> [v \in Vertices |-> {}], r |-> 0]

Paint(s, v, c) == [s EXCEPT !.color[v] = c]

-----------------------------------------------------------------------------
Collect(s, e) == [s EXCEPT !.cycle = Append(@, e), !.r = 1]

(* The loop of dfs_visit.  A back edge (r = 1) starts a cycle, and v adds  *)
(* its edge to it until the cycle is closed (r = 2).                       *)
DfsLoop(Loop, G, v, i, s) ==
  IF i > Len(G.edges[v]) THEN [Paint(s, v, "BLACK") EXCEPT !.r = 0]
  ELSE
    LET e == Edge(v, G.edges[v][i])
        below == Loop[<<e.to, 1, Paint(s, e.to, "GREY")>>]
        closes == Value(G, e.to) = Value(G, below.cycle[1].to)
    IN  CASE e.type = "YIELD" \/ s.color[e.to] \in {"BLACK", "RED"} -> Loop[<<v, i + 1, s>>]
          [] e.type # "YIELD" /\ s.color[e.to] = "GREY" -> Collect(s, e)
          [] e.type # "YIELD" /\ s.color[e.to] = "WHITE" ->
               CASE below.r = 0 -> Loop[<<v, i + 1, below>>]
                 [] below.r = 1 -> IF closes THEN [below EXCEPT !.r = 2] ELSE Collect(below, e)
                 [] below.r = 2 -> below

DfsVisit(G, v, s) ==
  LET loop[c \in Calls] == DfsLoop(loop, G, c[1], c[2], c[3])
  IN  loop[<<v, 1, Paint(s, v, "GREY")>>]

(* "this should not return 1", says the code: but it does, when the cycle  *)
(* goes through the vertex the search started at.                          *)
Mutant_Reports_ClosedOnly(s) == s.r = 2 /\ Len(s.cycle) > 2

Reports(s) == s.r > 0 /\ Len(s.cycle) > 2

(* has_cycle from each of the threads ts in turn, with the cycle it found. *)
HasCycle(G, ts) ==
  LET run[i \in 0..Len(ts)] ==
        IF i = 0 THEN NewSearch(G, <<>>)
        ELSE LET s == run[i - 1] IN
             IF Reports(s) \/ s.color[ts[i]] # "WHITE" THEN s ELSE DfsVisit(G, ts[i], s)
      last == run[Len(ts)]
  IN  [found |-> Reports(last), cycle |-> last.cycle]

-----------------------------------------------------------------------------
(* visit_kafas: v is safe (r = 0) as soon as one of its edges leads to a   *)
(* safe vertex, or if it has none.  A grey vertex closes a cycle (r = 2)   *)
(* and is noted once in kafas.                                             *)
KafasCall(Loop, G, v, s) ==
  CASE s.color[v] = "BLACK" -> [s EXCEPT !.r = 0]
    [] s.color[v] = "RED"   -> [s EXCEPT !.r = 1]
    [] s.color[v] = "GREY"  ->
         IF v \in s.kafa THEN [s EXCEPT !.r = 2]
         ELSE [s EXCEPT !.kafa = @ \cup {v}, !.kafas = Append(@, v), !.r = 2]
    [] s.color[v] = "WHITE" -> Loop[<<v, 1, [Paint(s, v, "GREY") EXCEPT !.r = 0]>>]

KafasLoop(Loop, G, v, i, s) ==
  IF i > Len(G.edges[v]) \/ (i > 1 /\ s.r = 0)
  THEN Paint(s, v, IF s.r = 0 THEN "BLACK" ELSE "RED")
  ELSE Loop[<<v, i + 1, KafasCall(Loop, G, G.edges[v][i].to, s)>>]

KafasVisit(G, v, s) ==
  LET loop[c \in Calls] == KafasLoop(loop, G, c[1], c[2], c[3])
  IN  KafasCall(loop, G, v, s)

(* After a start that is safe, what has_cycle left in cycle is dropped.    *)
Dropped(k) ==
  LET targets == {k.cycle[i].to : i \in DOMAIN k.cycle}
  IN  [k EXCEPT !.cycle = <<>>,
                !.color = [v \in Vertices |-> IF v \in targets THEN "BLACK" ELSE @[v]]]

(* The loop of has_allcycles over the threads ts, until one is not safe.   *)
KafasStarts(G, ts, cycle) ==
  LET run[i \in 0..Len(ts)] ==
        IF i = 0 THEN NewSearch(G, cycle)
        ELSE LET s == run[i - 1]
                 k == KafasVisit(G, ts[i], [s EXCEPT !.kafas = <<>>])
             IN  CASE s.r # 0 -> s
                   [] s.r = 0 /\ k.r # 0 -> k
                   [] s.r = 0 /\ k.r = 0 -> Dropped(k)
  IN  run[Len(ts)]

(* find_only_cycles: the edges from which a cycle still to be closed is    *)
(* reached, in the order the visits end.                                   *)
CyclesCall(Loop, G, v, s) ==
  CASE s.color[v] = "GREY" ->
         IF v \in s.kafa THEN s
         ELSE [s EXCEPT !.kafa = @ \cup {v}, !.open[v] = @ \cup {Value(G, v)}]
    [] s.color[v] = "RED" -> s
    [] s.color[v] \in {"WHITE", "BLACK"} -> Loop[<<v, 1, Paint(s, v, "GREY")>>]

(* What v makes of the visit d of the target of e. *)
Closed(G, v, e, d) ==
  LET open == d.open[v] \cup d.open[e.to] IN
  [d EXCEPT !.open[v] = IF v \in d.kafa THEN open \ {Value(G, v)} ELSE open,
            !.cycle = IF d.open[e.to] # {} THEN Append(@, e) ELSE @,
            !.kafa = @ \ {v}]

CyclesLoop(Loop, G, v, i, s) ==
  IF i > Len(G.edges[v]) THEN Paint(s, v, "RED")
  ELSE LET e == Edge(v, G.edges[v][i])
       IN  Loop[<<v, i + 1, Closed(G, v, e, CyclesCall(Loop, G, e.to, s))>>]

CyclesVisit(G, v, s) ==
  LET loop[c \in Calls] == CyclesLoop(loop, G, c[1], c[2], c[3])
  IN  CyclesCall(loop, G, v, s)

CyclesStarts(G, vs, s) ==
  LET run[i \in 0..Len(vs)] == IF i = 0 THEN s ELSE CyclesVisit(G, vs[i], run[i - 1])
  IN  run[Len(vs)]

(* has_allcycles: whether it finds a livelock, the edges of its cycles,    *)
(* and the kafa fields it leaves set for the next call.                    *)
HasAllCycles(G, ts, cycle) ==
  LET k == KafasStarts(G, ts, cycle)
      noted == {k.kafas[i] : i \in DOMAIN k.kafas}
      c == CyclesStarts(G, k.kafas, [NewSearch(G, k.cycle) EXCEPT !.kafa = k.kafa \ noted])
  IN  IF k.r = 0 THEN [found |-> FALSE, cycle |-> <<>>, kafa |-> k.kafa]
                 ELSE [found |-> TRUE, cycle |-> c.cycle, kafa |-> c.kafa]

-----------------------------------------------------------------------------
LastOf(es, S) == {es[i] : i \in {j \in S : \A k \in S : k <= j}}

Mutant_FirstYield_AnyEdge(G, es) == LastOf(es, DOMAIN es)

(* The edge through which check_for_cycles breaks a livelock: the last of  *)
(* the YIELD edges of the cycles from a thread with no other edge, or else *)
(* from one that only yields, or else of all; {} if there is none.         *)
FirstYield(G, es) ==
  LET yields == {i \in DOMAIN es : es[i].type = "YIELD"}
      alone  == {i \in yields : Len(G.edges[es[i].from]) = 1}
      pure   == {i \in yields : \A j \in DOMAIN G.edges[es[i].from] :
                                  G.edges[es[i].from][j].type = "YIELD"}
  IN  IF alone # {} THEN LastOf(es, alone)
      ELSE IF pure # {} THEN LastOf(es, pure) ELSE LastOf(es, yields)
=============================================================================
