------------------------------ MODULE DalvikRag ------------------------------
(***************************************************************************)
(* The resource allocation graph of the Dalvik port and its search for     *)
(* cycles (dimmunix.c, hasCycles): threads and monitors, each with one     *)
(* edge to what it waits for or is held by, and threads with edges to      *)
(* those they yield to.                                                    *)
(*                                                                         *)
(* The search is depth first.  It threads its globals - the colours, the   *)
(* stack, cycle, joinPointFound - through its calls: their values are a    *)
(* record here, in which found is what the last call returned.  A graph G  *)
(* is [next, acqPos, yields], where a yields edge is [thread, pos].        *)
(***************************************************************************)
EXTENDS Integers, Sequences, FiniteSets

CONSTANTS
  Threads,      \* threads of the application
  Monitors,     \* the fat locks of its objects
  Positions,    \* the stack frames (class.method(line)) it enters them at
  NULL          \* the null pointer

ASSUME NullAssumption == NULL \notin Threads \cup Monitors \cup Positions
ASSUME NodesAssumption ==
  Threads \cap Monitors = {} /\ IsFiniteSet(Threads) /\ IsFiniteSet(Monitors)

Nodes  == Threads \cup Monitors
Labels == Positions \cup {NULL}
Edges  == [thread : Threads, pos : Positions]

Elements(s) == {s[i] : i \in DOMAIN s}

(* The elements of s that are in S, in their order. *)
Chosen(s, S) ==
  LET rest[i \in 0..Len(s)] ==
        IF i = 0 THEN <<>>
        ELSE IF s[i] \in S THEN Append(rest[i - 1], s[i]) ELSE rest[i - 1]
  IN  rest[Len(s)]

-----------------------------------------------------------------------------
(* Colour 0 is new, 1 is on the way, 2 is safe. *)
Entries  == [node : Nodes, label : Labels]
Searches == [colour : [Nodes -> 0..2], stack : Seq(Entries), cycle : Seq(Entries),
             join : Nodes \cup {NULL}, found : BOOLEAN]

(* reset() *)
NewSearch == [colour |-> [n \in Nodes |-> 0], stack |-> <<>>, cycle |-> <<>>,
              join |-> NULL, found |-> FALSE]

Push(s, n, l) == [s EXCEPT !.stack = Append(@, [node |-> n, label |-> l])]
Pop(s) == [s EXCEPT !.stack = SubSeq(@, 1, Len(@) - 1), !.join = IF s.found THEN @ ELSE NULL]
Colour(s, n, c) == [s EXCEPT !.colour[n] = c]

(* A node that is grey: a cycle, whose nodes are remembered the first time. *)
Hit(s, n) ==
  IF s.join = NULL THEN [s EXCEPT !.found = TRUE, !.cycle = s.stack, !.join = n]
                   ELSE [s EXCEPT !.found = TRUE]

(* One edge of n.  Visits[<<n, s>>] is what hasCycles(n) makes of s.       *)
Follow(Visits, s, n, to, label) ==
  LET p == Push(s, n, label) IN
  Pop(CASE p.colour[to] = 1 -> Hit(p, to)
        [] p.colour[to] = 0 -> Visits[<<to, p>>]
        [] p.colour[to] = 2 -> [p EXCEPT !.found = FALSE])

(* hasCycleNext: the edge of a lock is labelled with its position.         *)
FollowNext(Visits, G, s, n) ==
  Follow(Visits, s, n, G.next[n], IF n \in Monitors THEN G.acqPos[n] ELSE NULL)

(* hasCycleYields: the edges are followed as long as each of them leads to *)
(* a cycle; n is safe if one does not, or if it has none.                  *)
FollowYields(Visits, G, s, n) ==
  LET es == IF n \in Threads THEN G.yields[n] ELSE <<>>
      run[i \in 0..Len(es)] ==
        IF i = 0 THEN [s EXCEPT !.found = (es # <<>>)]
        ELSE IF run[i - 1].found
        THEN Follow(Visits, run[i - 1], n, es[i].thread, es[i].pos)
        ELSE run[i - 1]
      last == run[Len(es)]
  IN  IF last.found THEN last ELSE Colour(last, n, 2)

Visit(Visits, G, n, s) ==
  IF G.next[n] = NULL THEN [Colour(s, n, 2) EXCEPT !.found = FALSE]
  ELSE LET r == FollowNext(Visits, G, Colour(s, n, 1), n)
       IN  IF r.found THEN r ELSE FollowYields(Visits, G, r, n)

HasCycles(G, start) ==
  LET Visits[c \in Nodes \X Searches] == Visit(Visits, G, c[1], c[2])
  IN  Visits[<<start, NewSearch>>]

(* A definition named Mutant_X_... is what a plausible bug would make of   *)
(* the definition X that follows; no specification uses it.                *)
Mutant_GetTemplate_DropsLast(s) ==
  Chosen([i \in 1..(Len(s.cycle) - 1) |-> s.cycle[i].label], Positions)

(* getTemplate: the labels of the cycle from the join point on.  A join    *)
(* point that is not in it is looked for past its end: the process dies,   *)
(* or finds the node in stale memory, and nothing is added.                *)
GetTemplate(s) ==
  LET at == {i \in DOMAIN s.cycle : s.cycle[i].node = s.join}
      from == IF at = {} THEN Len(s.cycle) + 1 ELSE CHOOSE i \in at : \A j \in at : i <= j
      labels == [i \in 1..(Len(s.cycle) + 1 - from) |-> s.cycle[from + i - 1].label]
  IN  Chosen(labels, Positions)
=============================================================================
