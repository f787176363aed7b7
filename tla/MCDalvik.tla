------------------------------ MODULE MCDalvik ------------------------------
(* Instances of Dalvik for TLC. *)
EXTENDS Dalvik

CONSTANTS posA, posB, t1, t2, m1, m2

(* Nothing has happened yet. *)
EmptyFile == << >>

(* The threads share the code at A, and t2 has a place of its own, so that *)
(* they may deadlock at A and A, and at A and B.  t1 also enters m1 in     *)
(* java.* code.                                                            *)
SharedPlaces == {<<t1, m1, posA>>, <<t1, m2, posA>>, <<t2, m2, posA>>, <<t2, m2, posB>>,
                 <<t2, m1, posB>>, <<t1, m1, NULL>>}

(* Any thread enters any monitor at any position. *)
Everywhere == Threads \X Monitors \X Positions

(* The run looks no further once the file or the memory has more than this *)
(* (a template that is not saved may be found, and added, again).          *)
FewLines == Len(file) <= 2 /\ Len(history) <= 2
=============================================================================
