------------------------------- MODULE Memory -------------------------------
(***************************************************************************)
(* What a port of Dimmunix that saves its own deadlocks promises over many *)
(* runs of a program: whatever is recorded by the time it starts is known  *)
(* from then on, and no grant ever puts a different thread on every        *)
(* position of a known template.  Grants die with the process, records do  *)
(* not.                                                                    *)
(***************************************************************************)
EXTENDS Sequences

CONSTANTS Threads, Positions

VARIABLES given,        \* the grants in force: [pos, thread]
          known,        \* the templates this run of the program avoids
          recorded      \* the templates in the history file

vars == <<given, known, recorded>>

Grants == [pos : Positions, thread : Threads]

(* Different threads have the grants G at all positions of T. *)
Occupied(G, T) ==
  \E f \in [DOMAIN T -> Threads] :
     /\ \A i \in DOMAIN T : [pos |-> T[i], thread |-> f[i]] \in G
     /\ \A i, j \in DOMAIN T : f[i] = f[j] => i = j

Init ==
  /\ given = {}
  /\ recorded \subseteq Seq(Positions)
  /\ known = recorded

(* A record is never lost, and makes no difference before the next start. *)
Learn ==
  /\ recorded \subseteq recorded'
  /\ recorded' \subseteq Seq(Positions)
  /\ UNCHANGED known

Grant(g) ==
  /\ given' = given \cup {g}
  /\ \A T \in known : ~Occupied(given', T)
  /\ Learn

Revoke(g) ==
  /\ given' = given \ {g}
  /\ UNCHANGED <<known, recorded>>

Notice == Learn /\ UNCHANGED given

Restart ==
  /\ given' = {}
  /\ known' = recorded
  /\ UNCHANGED recorded

Next == \/ \E g \in Grants : Grant(g) \/ Revoke(g)
        \/ Notice
        \/ Restart

Spec == Init /\ [][Next]_vars
=============================================================================
