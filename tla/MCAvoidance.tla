---------------------------- MODULE MCAvoidance ----------------------------
(* Instances of Avoidance for TLC: histories over two positions. *)
EXTENDS Avoidance, TLC

CONSTANTS posA, posB

(* Two threads deadlocked at the same position. *)
HistoryAA == << <<posA, posA>> >>

(* Two threads deadlocked at the same position, on another day at two.     *)
HistoryAAandAB == << <<posA, posA>>, <<posA, posB>> >>

(* Three threads deadlocked, two of them at posA; on another day two at    *)
(* posB.                                                                   *)
HistoryAAB == << <<posA, posA, posB>>, <<posB, posB>> >>

(* With pthread_cond_wait a grant can be left behind each time round: the  *)
(* run looks no further once a position has more than two.                 *)
FewGrants == \A pos \in Positions : Len(allowed[pos]) <= 2

(* A lock that fails leaves a grant each time: the run looks no further    *)
(* once grants are left of two kinds, or twice of one.                     *)
OneFailure ==
  /\ Cardinality(failed) <= 1
  /\ \A c \in failed :
       Cardinality({i \in DOMAIN allowed[c.pos] :
                      allowed[c.pos][i] = [thread |-> c.thread, mtx |-> c.mtx]}) <= 2

Symmetry == Permutations(Threads) \cup Permutations(Mutexes)
=============================================================================
