------------------------------ MODULE MCLogger ------------------------------
(* Instances of Logger for TLC: two threads, one module, up to two paths   *)
(* that can be opened and one that cannot (a missing directory).           *)
EXTENDS Logger, TLC

CONSTANTS t1, t2, fileA, fileB, noDir, core

MCThreads == {t1, t2}
MCModules == {core}
OneLevel  == {1}
TwoLevels == {1, 2}
OneFile   == {fileA}
TwoFiles  == {fileA, fileB}
FaultyPaths == {fileA, noDir, EmptyPath}

Symmetry == Permutations(MCThreads)
=============================================================================
