------------------------------- MODULE MCTracer -------------------------------
(* Values of the function-valued constants of Tracer for model checking. *)
EXTENDS Tracer

CONSTANTS d1, d2, d3

\* d1 and d2 are two KiveData of one file, d3 is of a file on another device
\* of this node, which has the same inode number.
Inodes  == [d \in Data |-> 1]
Devices == [d \in Data |-> IF d = d3 THEN 2 ELSE 1]

AllHere == [d \in Data |-> Here]

\* The releases around the change of inode_permission.
Around   == {<<5, 11>>, <<5, 12>>}
Modern   == {<<5, 12>>}
=============================================================================
