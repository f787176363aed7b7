----------------------------- MODULE MCDetection -----------------------------
(* Instances of Detection for TLC. *)
EXTENDS Detection

CONSTANTS posA, posB, t1, t2

(* Nothing to avoid yet. *)
NoHistory == << >>

(* Two threads deadlocked at two positions, or both at the same. *)
HistoryAB == << <<posA, posB>> >>
HistoryAA == << <<posA, posA>> >>

TwoThreads == <<t1, t2>>

(* The run looks no further once there are more events unread than this. *)
FewUnread == Len(eq[t1]) + Len(eq[t2]) <= 6
=============================================================================
