-------------------------- MODULE MCTensorRTBackend --------------------------
(* Instances of TensorRTBackend for TLC. *)
EXTENDS TensorRTBackend, TLC

CONSTANTS p1, p2, m1, m2

OneProc   == {p1}
TwoProcs  == {p1, p2}
OnePath   == {m1}
TwoPaths  == {m1, m2}

(* Processes are interchangeable, and so are model paths. *)
Symmetry == Permutations({p1, p2}) \cup Permutations({m1, m2})
=============================================================================
