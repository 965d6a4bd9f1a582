-------------------------------- MODULE MCTrap --------------------------------
(* Values of the function-valued constants of TrapDiscovery for model checking. *)
EXTENDS TrapDiscovery

\* Container 1 is of a pod that runs elsewhere, 2 and 3 are of one pod here.
TwoPods == [c \in Container |-> IF c = 1 THEN "o" ELSE "p"]

\* The joined names differ, or those of containers 1 and 3, which are of two
\* pods, run into each other.
OwnIDs    == [c \in Container |-> c]
JoinedIDs == [c \in Container |-> IF c = 1 THEN 3 ELSE c]

\* The first item names an ip, the second one container of a pod, the third has
\* a broken expression, the last selects by label and fits all names.
Labels == [i \in Item |-> IF i = 2 THEN {"p"} ELSE {"o", "p"}]
Names  == [i \in Item |-> IF i = 2 THEN {2} ELSE Container]
=============================================================================
