--------------------------- MODULE MCInferPipeline ---------------------------
(* Instances of InferPipeline for TLC: two threads, two images. *)
EXTENDS InferPipeline, TLC

CONSTANTS t1, t2, i1, i2

MCThreads == {t1, t2}
MCImages  == {i1, i2}

(* Threads are interchangeable, and so are images: sound for the runs      *)
(* without liveness.                                                       *)
Symmetry == Permutations(MCThreads) \cup Permutations(MCImages)
=============================================================================
