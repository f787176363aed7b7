--------------------------------- MODULE Rag ---------------------------------
(***************************************************************************)
(* The resource allocation graph of the monitor (pthreads/src/graph.cc):   *)
(* one vertex per thread and per mutex, each with its outgoing edges in    *)
(* the order they were added.  A thread points at the mutex it asks for    *)
(* (REQUEST, GRANT) and at the threads it yields to (YIELD); a mutex       *)
(* points at the thread that has it (HOLD).                                *)
(*                                                                         *)
(* A graph is a value, and every method of class Graph that changes it an  *)
(* operator that returns the new one; module RagSearch looks for cycles.   *)
(* A definition named Mutant_X_... is what a plausible bug would make of   *)
(* the definition X after it; no specification uses it.                    *)
(***************************************************************************)
EXTENDS Naturals, Sequences

CONSTANTS
  Vertices,     \* the threads and mutexes
  NULL

(* edges[v]: Vertex::edges.  valued: the vertices whose field value is     *)
(* set.  kafa: those whose field kafa is; only the search uses it.         *)
EmptyGraph == [edges |-> [v \in Vertices |-> <<>>], valued |-> {}, kafa |-> {}]

(* Vertex::value, by which the code compares vertices: the first event     *)
(* about a vertex may create it without one.                               *)
Value(G, v) == IF v \in G.valued THEN v ELSE NULL

Add(G, v, to, type, p) ==
  [G EXCEPT !.edges[v] = Append(@, [to |-> to, type |-> type, pos |-> p])]

Remove(G, v, i) ==
  [G EXCEPT !.edges[v] = SubSeq(@, 1, i - 1) \o SubSeq(@, i + 1, Len(@))]

(* Edge i is the first of v whose target has value x. *)
FirstTo(G, v, x, i) ==
  /\ i \in DOMAIN G.edges[v]
  /\ Value(G, G.edges[v][i].to) = x
  /\ \A j \in 1..(i - 1) : Value(G, G.edges[v][j].to) # x

HasEdgeTo(G, v, x) == \E i \in DOMAIN G.edges[v] : Value(G, G.edges[v][i].to) = x
EdgeTo(G, v, x) == CHOOSE i \in DOMAIN G.edges[v] : FirstTo(G, v, x, i)

Request(G, t, m, p) ==
  [Add(G, t, m, "REQUEST", p) EXCEPT !.valued = @ \cup {t, m}]

RequestToGrant(G, t, m, p) ==
  IF HasEdgeTo(G, t, m)
  THEN [G EXCEPT !.edges[t][EdgeTo(G, t, m)] =
         [to |-> @.to, type |-> "GRANT", pos |-> p]]
  ELSE G

Mutant_GrantToHold_KeepsRequest(G, t, m, p) == Add(G, m, t, "HOLD", p)

(* The edge from t to m is turned round; after a trylock there is none.    *)
GrantToHold(G, t, m, p) ==
  LET x == Value(G, m) IN
  IF HasEdgeTo(G, t, x)
  THEN Add(Remove(G, t, EdgeTo(G, t, x)), m, t, "HOLD", p)
  ELSE Add(G, m, t, "HOLD", p)

Release(G, m, t) ==
  IF HasEdgeTo(G, m, t) THEN Remove(G, m, EdgeTo(G, m, t)) ELSE G

(* The body of cancel is commented out. *)
Cancel(G, t, m) == G

(* The edges in es that are not YIELD edges, in their order. *)
LockEdges(es) ==
  LET rest[i \in 0..Len(es)] ==
        IF i = 0 THEN <<>>
        ELSE IF es[i].type = "YIELD" THEN rest[i - 1] ELSE Append(rest[i - 1], es[i])
  IN  rest[Len(es)]

(* The causes cs take the place of the ones t yielded on before. *)
Yield(G, t, cs) ==
  LET edge(c) == [to |-> c.thread, type |-> "YIELD", pos |-> c.pos]
  IN  [G EXCEPT !.edges[t] = LockEdges(@) \o [i \in DOMAIN cs |-> edge(cs[i])]]
=============================================================================
