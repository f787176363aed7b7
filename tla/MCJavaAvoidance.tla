--------------------------- MODULE MCJavaAvoidance ---------------------------
(* Instances of JavaAvoidance for TLC. *)
EXTENDS JavaAvoidance

CONSTANTS posA, posB, posC, posZ, t1, t2, m1, m2

(* A deadlock at A and B, and another one at C and A. *)
HistoryABCA == << <<posA, posB>>, <<posC, posA>> >>

(* t1 locks m1 at A.  t2 locks m2 at B; it may be in m1 then, where it     *)
(* locked it is not in the history, and t1 wait for it with its grant.     *)
WithinOther == {<<t1, m1, posA>>, <<t2, m2, posB>>, <<t2, m1, posZ>>}

(* In m2 there is a call after which t2 does not come to A any more. *)
T2LeavesB == {<<t2, 1, 2>>}

(* Only m1 is entered again by its owner. *)
OnlyM1Twice == [l \in {m1, m2} |-> IF l = m1 THEN 2 ELSE 1]
=============================================================================
