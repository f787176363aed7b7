------------------------------ MODULE Immunity ------------------------------
(***************************************************************************)
(* What Dimmunix promises a program, with no queue, lock or event in it.   *)
(*                                                                         *)
(* A deadlock that happened once is remembered as a template: the program  *)
(* positions at which the deadlocked threads had acquired the locks they   *)
(* held.  A grant is the permission to acquire a mutex at a position.      *)
(* From then on no grant is given that puts one grant on every position of *)
(* a template, so that the deadlock cannot form again, unless the monitor  *)
(* told the thread to go ahead once because it starves.                    *)
(***************************************************************************)
EXTENDS Naturals, Sequences

CONSTANTS Threads, Mutexes, Positions,
          History       \* the templates: a sequence of sequences of positions

VARIABLES grants,       \* the grants in force: [pos, thread, mtx]
          tokens        \* threads that may complete one template occupation

vars == <<grants, tokens>>

Grants == [pos : Positions, thread : Threads, mtx : Mutexes]

(* The grants G put a different one on every position of the template T. *)
Occupies(G, T) ==
  \E f \in [DOMAIN T -> G] :
     /\ \A i \in DOMAIN T : f[i].pos = T[i]
     /\ \A i, j \in DOMAIN T : f[i] = f[j] => i = j

(* The grant g would be the last one an occupation of a template lacks. *)
Completes(G, g) ==
  \E k \in DOMAIN History : Occupies(G \cup {g}, History[k]) /\ ~Occupies(G, History[k])

Init == grants = {} /\ tokens = {}

Grant(g) ==
  /\ grants' = grants \cup {g}
  /\ ~Completes(grants, g)
  /\ UNCHANGED tokens

(* The monitor lets a starving thread through ... *)
Break(t) ==
  /\ tokens' = tokens \cup {t}
  /\ UNCHANGED grants

(* ... for one grant, whatever that grant completes. *)
Force(g) ==
  /\ g.thread \in tokens
  /\ tokens' = tokens \ {g.thread}
  /\ grants' = grants \cup {g}

Revoke(g) ==
  /\ grants' = grants \ {g}
  /\ UNCHANGED tokens

Next == \/ \E g \in Grants : Grant(g) \/ Force(g) \/ Revoke(g)
        \/ \E t \in Threads : Break(t)

Spec == Init /\ [][Next]_vars
=============================================================================
