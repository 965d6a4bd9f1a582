-------------------------------- MODULE MCKive --------------------------------
(* Values of the function-valued constants of Kive for model checking. *)
EXTENDS Kive

CONSTANTS n1, n2, k1, k2

\* One node, or two nodes in containers of one host, which share its kernel.
OneKernel == [n \in Node |-> k1]

\* Two nodes, each with a kernel of its own.
TwoKernels == [n \in Node |-> IF n = n1 THEN k1 ELSE k2]

AllOnN1 == [p \in Pod |-> n1]

\* Every trap selects every pod.
SelectAll == [t \in Trap |-> Pod]

\* All traps name one file, which all containers share (a volume).
SharedFile == [x \in Trap \X Pod \X Inst |-> 1]

\* Each pod has its own file, the same for every trap.
FilePerPod == [x \in Trap \X Pod \X Inst |-> x[2]]

\* Each container has its own file: an image layer, copied on every start.
FilePerContainer == [x \in Trap \X Pod \X Inst |-> x[3]]
=============================================================================
