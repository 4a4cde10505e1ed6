------------------------- MODULE MCExamplePrograms -------------------------
(* Instances of ExamplePrograms for TLC: the general application has two   *)
(* threads, the examples one.  One model at a time lives on an engine, so  *)
(* one address of each is enough for one engine.                           *)
EXTENDS ExamplePrograms

CONSTANTS t1, t2, n1, n2, i1, i2, e1, m1, r1, r2, r3

MCThreads  == {t1, t2}
MCNetworks == {n1, n2}
MCImages   == {i1, i2}
MCEngines  == {e1}
MCModels   == {m1}
MCResults  == {r1, r2, r3}
MCBuilds   == {{}, {"tensorrt"}, {"onnxruntime"}}
MCBatches  == {<<i1, i2>>}
MCPaths    == {<<i1>>, <<i1, i2>>}
=============================================================================
