--------------------------- MODULE TensorRTBackend ---------------------------
(***************************************************************************)
(* What the TensorRT backend acquires, from crkit_create_engine through    *)
(* crkit_load_model to crkit_destroy_engine: driver objects and buffers    *)
(* held by the backend's raw pointers, and the engine cache it writes next *)
(* to the ONNX file.  Processes share the disk: they load, save, crash and *)
(* restart; the ONNX file may be replaced meanwhile.                       *)
(*                                                                         *)
(* A network is the version of a model file it was built from.  Buffer     *)
(* sizes are those of a network, so a buffer IS the network it was sized   *)
(* for: two different networks may need different sizes.                   *)
(***************************************************************************)
EXTENDS Naturals, FiniteSets

CONSTANTS Procs,       \* processes, one engine handle each
          Models,      \* model paths
          None,        \* null pointer, missing file
          Corrupt,     \* a cache file no engine can be read from
          MaxVersion,  \* bound: how often an ONNX file is replaced, plus one
          MaxLoads,    \* bound: crkit_load_model calls per engine handle
          OneModel,    \* TRUE iff the application unloads before it loads
          Exceptions,  \* TRUE iff the allocator may throw
          Crashes      \* TRUE iff a process may be killed at any point

ASSUME BoundsAssumption == MaxVersion \in Nat \ {0} /\ MaxLoads \in Nat \ {0}
ASSUME FlagsAssumption  == {OneModel, Exceptions, Crashes} \subseteq BOOLEAN

VARIABLES pc,       \* where each process is in the library
          path,     \* model path of its last crkit_load_model
          loads,    \* crkit_load_model calls on its engine
          fields,   \* the backend's pointers
          live,     \* how many objects of each kind the process has allocated
          handles,  \* models it holds a CRKitModel for
          onnx,     \* version of each model file on disk
          cache     \* content of each <model>.trt file

disk == <<onnx, cache>>
vars == <<pc, path, loads, fields, live, handles, disk>>

Networks == [model : Models, version : 1..MaxVersion]
ASSUME ValuesAssumption ==
  /\ None \notin Models \cup Networks
  /\ Corrupt \notin Networks \cup {None}

Kinds == {"engineImpl", "modelImpl", "stream", "runtime", "engine", "context", "buffer"}
NoFields == [stream |-> FALSE, runtime |-> FALSE, engine |-> None, context |-> None,
             sizes |-> None, buffers |-> [b \in 1..4 |-> None]]
Nothing == [k \in Kinds |-> 0]
Loading == {"checking", "reading", "building", "saving", "writing", "racing", "preparing"}
PCs == {"down", "created", "streaming", "ready"} \cup Loading

Init == /\ pc      = [p \in Procs |-> "down"]
        /\ path    = [p \in Procs |-> None]
        /\ loads   = [p \in Procs |-> 0]
        /\ fields  = [p \in Procs |-> NoFields]
        /\ live    = [p \in Procs |-> Nothing]
        /\ handles = [p \in Procs |-> {}]
        /\ onnx    = [m \in Models |-> 1]
        /\ cache   = [m \in Models |-> None]

(* Definitions whose name begins with Bug_ are not the code: each is a     *)
(* plausible mistake in the definition that follows it, and a property of  *)
(* this module must fail when it takes that definition's place.            *)

Goto(p, label) == pc' = [pc EXCEPT ![p] = label]
Alloc(p, kind) == live' = [live EXCEPT ![p][kind] = @ + 1]
Delete(p, kind) == live' = [live EXCEPT ![p][kind] = @ - 1]

-----------------------------------------------------------------------------
(* crkit_create_engine and TensorRTBackend::initialize. *)

(* Bound: a process that has leaked exits before it creates another engine. *)
CreateEngine(p) == /\ pc[p] = "down" /\ live[p] = Nothing
                   /\ Alloc(p, "engineImpl")
                   /\ Goto(p, "created")
                   /\ UNCHANGED <<path, loads, fields, handles, disk>>

(* BackendFactory::create throws: the handler of crkit_create_engine does  *)
(* not know the CRKitEngineImpl.                                           *)
CreateThrows(p) == /\ Exceptions
                   /\ pc[p] = "created"
                   /\ Goto(p, "down")
                   /\ UNCHANGED <<path, loads, fields, live, handles, disk>>

CreateStream(p) == /\ pc[p] = "created"
                   /\ fields' = [fields EXCEPT ![p].stream = TRUE]
                   /\ Alloc(p, "stream")
                   /\ Goto(p, "streaming")
                   /\ UNCHANGED <<path, loads, handles, disk>>

CreateRuntime(p) == /\ pc[p] = "streaming"
                    /\ fields' = [fields EXCEPT ![p].runtime = TRUE]
                    /\ Alloc(p, "runtime")
                    /\ Goto(p, "ready")
                    /\ UNCHANGED <<path, loads, handles, disk>>

(* The destructor forgets the pinned host buffers. *)
Bug_DeviceBuffersOnly(f) == {b \in {1, 2} : f.buffers[b] # None}

(* ~TensorRTBackend frees what the pointers still reach. *)
ReachableBuffers(f) == {b \in 1..4 : f.buffers[b] # None}

One(flag) == IF flag THEN 1 ELSE 0

Reachable(f) == [engineImpl |-> 1,
                 modelImpl  |-> 0,
                 stream     |-> One(f.stream),
                 runtime    |-> One(f.runtime),
                 engine     |-> One(f.engine # None),
                 context    |-> One(f.context # None),
                 buffer     |-> Cardinality(ReachableBuffers(f))]

DeleteEngine(p) == /\ live' = [live EXCEPT ![p] = [k \in Kinds |-> @[k] - Reachable(fields[p])[k]]]
                   /\ fields' = [fields EXCEPT ![p] = NoFields]
                   /\ loads' = [loads EXCEPT ![p] = 0]
                   /\ Goto(p, "down")

InitializeFails(p) == /\ pc[p] \in {"created", "streaming"}
                      /\ DeleteEngine(p)
                      /\ UNCHANGED <<path, handles, disk>>

(* crkit_destroy_engine, after the model handles have been unloaded. *)
DestroyEngine(p) == /\ pc[p] = "ready" /\ handles[p] = {}
                    /\ DeleteEngine(p)
                    /\ UNCHANGED <<path, handles, disk>>

-----------------------------------------------------------------------------
(* crkit_load_model and TensorRTBackend::loadModel. *)

StartLoad(p, m) == /\ pc[p] = "ready" /\ m \notin handles[p]
                   /\ loads[p] < MaxLoads
                   /\ OneModel => handles[p] = {}
                   /\ path' = [path EXCEPT ![p] = m]
                   /\ loads' = [loads EXCEPT ![p] = @ + 1]
                   /\ Alloc(p, "modelImpl")
                   /\ Goto(p, "checking")
                   /\ UNCHANGED <<fields, handles, disk>>

(* One cache file for all models. *)
Bug_OneCachePath(p) == CHOOSE m \in Models : TRUE

(* getEngineCachePath: the cache file belongs to the model path. *)
CachePath(p) == path[p]

CheckCache(p) == /\ pc[p] = "checking"
                 /\ Goto(p, IF cache[CachePath(p)] # None THEN "reading" ELSE "building")
                 /\ UNCHANGED <<path, loads, fields, live, handles, disk>>

(* loadEngineFromFile: engine_ takes whatever deserializing returns. *)
ReadCache(p) == /\ pc[p] = "reading"
                /\ cache[CachePath(p)] \in Networks
                /\ fields' = [fields EXCEPT ![p].engine = cache[CachePath(p)]]
                /\ Alloc(p, "engine")
                /\ Goto(p, "preparing")
                /\ UNCHANGED <<path, loads, handles, disk>>

(* A cache that cannot be read is tried again. *)
Bug_RetryCache(p) == /\ pc[p] = "reading"
                     /\ fields' = [fields EXCEPT ![p].engine = None]
                     /\ Goto(p, "checking")
                     /\ UNCHANGED <<path, loads, live, handles, disk>>

(* deserializeCudaEngine returns null: the engine is built again. *)
RejectCache(p) == /\ pc[p] = "reading"
                  /\ fields' = [fields EXCEPT ![p].engine = None]
                  /\ Goto(p, "building")
                  /\ UNCHANGED <<path, loads, live, handles, disk>>

(* An exception (the read buffer's allocation) loses the CRKitModelImpl. *)
LoadThrows(p) == /\ Exceptions
                 /\ pc[p] = "reading"
                 /\ Goto(p, "ready")
                 /\ UNCHANGED <<path, loads, fields, live, handles, disk>>

BuildEngine(p) == /\ pc[p] = "building"
                  /\ fields' = [fields EXCEPT ![p].engine = [model |-> path[p], version |-> onnx[path[p]]]]
                  /\ Alloc(p, "engine")
                  /\ Goto(p, "saving")
                  /\ UNCHANGED <<path, loads, handles, disk>>

(* A failed load: crkit_load_model deletes the CRKitModelImpl. *)
FailLoad(p) == Goto(p, "ready") /\ Delete(p, "modelImpl")

(* The parser rejects the file (engine_ untouched) or the build returns    *)
(* null into engine_.                                                      *)
BuildFails(p) == /\ pc[p] = "building"
                 /\ \E e \in {fields[p].engine, None} : fields' = [fields EXCEPT ![p].engine = e]
                 /\ FailLoad(p)
                 /\ UNCHANGED <<path, loads, handles, disk>>

(* saveEngineToFile truncates the file and then writes it; nothing checks  *)
(* the write and nothing excludes another process.                         *)
OpenCache(p) ==
  LET others == {q \in Procs \ {p} : pc[q] \in {"writing", "racing"} /\ CachePath(q) = CachePath(p)}
  IN /\ pc[p] = "saving"
     /\ cache' = [cache EXCEPT ![CachePath(p)] = Corrupt]
     /\ pc' = [q \in Procs |-> IF others # {} /\ q \in others \cup {p} THEN "racing"
                               ELSE IF q = p THEN "writing" ELSE pc[q]]
     /\ UNCHANGED <<path, loads, fields, live, handles, onnx>>

(* Two writers at once may leave a mix of both files. *)
WriteCache(p) == /\ pc[p] \in {"writing", "racing"}
                 /\ \E content \in {fields[p].engine} \cup (IF pc[p] = "racing" THEN {Corrupt} ELSE {}) :
                       cache' = [cache EXCEPT ![CachePath(p)] = content]
                 /\ Goto(p, "preparing")
                 /\ UNCHANGED <<path, loads, fields, live, handles, onnx>>

ShortWrite(p) == /\ pc[p] \in {"writing", "racing"}
                 /\ cache' = [cache EXCEPT ![CachePath(p)] = Corrupt]
                 /\ Goto(p, "preparing")
                 /\ UNCHANGED <<path, loads, fields, live, handles, onnx>>

SaveFails(p) == /\ pc[p] = "saving"
                /\ Goto(p, "preparing")
                /\ UNCHANGED <<path, loads, fields, live, handles, disk>>

(* A cleanup that destroys the engine and leaves the pointer. *)
Bug_EngineFreedTwice(p) == /\ pc[p] = "preparing"
                           /\ live' = [live EXCEPT ![p].engine = @ - 1, ![p].modelImpl = @ - 1]
                           /\ Goto(p, "ready")
                           /\ UNCHANGED <<path, loads, fields, handles, disk>>

(* create_context: the execution context, the sizes, the four buffers.     *)
ContextFails(p) == /\ pc[p] = "preparing"
                   /\ fields' = [fields EXCEPT ![p].context = None]
                   /\ FailLoad(p)
                   /\ UNCHANGED <<path, loads, handles, disk>>

(* Sizes computed once per engine handle. *)
Bug_FirstSizes(f) == IF f.sizes = None THEN f.engine ELSE f.sizes

NetworkSizes(f) == f.engine

(* The first n of the four allocations succeed. *)
Prepared(f, n) == [f EXCEPT !.context = f.engine,
                            !.sizes   = NetworkSizes(f),
                            !.buffers = [b \in 1..4 |-> IF b <= n THEN NetworkSizes(f) ELSE @[b]]]

PrepareFails(p, n) == /\ pc[p] = "preparing" /\ n < 4
                      /\ fields' = [fields EXCEPT ![p] = Prepared(@, n)]
                      /\ live' = [live EXCEPT ![p].context = @ + 1, ![p].buffer = @ + n,
                                              ![p].modelImpl = @ - 1]
                      /\ Goto(p, "ready")
                      /\ UNCHANGED <<path, loads, handles, disk>>

Prepare(p) == /\ pc[p] = "preparing"
              /\ fields' = [fields EXCEPT ![p] = Prepared(@, 4)]
              /\ live' = [live EXCEPT ![p].context = @ + 1, ![p].buffer = @ + 4]
              /\ handles' = [handles EXCEPT ![p] = @ \cup {path[p]}]
              /\ Goto(p, "ready")
              /\ UNCHANGED <<path, loads, disk>>

(* crkit_unload_model deletes the handle; the backend is not told. *)
UnloadModel(p, m) == /\ pc[p] = "ready" /\ m \in handles[p]
                     /\ handles' = [handles EXCEPT ![p] = @ \ {m}]
                     /\ Delete(p, "modelImpl")
                     /\ UNCHANGED <<pc, path, loads, fields, disk>>

-----------------------------------------------------------------------------
(* The process is killed: the system reclaims what it held, not the disk. *)
Crash(p) == /\ Crashes
            /\ pc[p] # "down"
            /\ Goto(p, "down")
            /\ loads'   = [loads EXCEPT ![p] = 0]
            /\ fields'  = [fields EXCEPT ![p] = NoFields]
            /\ live'    = [live EXCEPT ![p] = Nothing]
            /\ handles' = [handles EXCEPT ![p] = {}]
            /\ UNCHANGED <<path, disk>>

(* A process without an engine exits: the system reclaims what it leaked. *)
Exit(p) == /\ pc[p] = "down" /\ live[p] # Nothing
           /\ live' = [live EXCEPT ![p] = Nothing]
           /\ UNCHANGED <<pc, path, loads, fields, handles, disk>>

(* A new version of the model is deployed over the old file. *)
ReplaceModel(m) == /\ onnx[m] < MaxVersion
                   /\ onnx' = [onnx EXCEPT ![m] = @ + 1]
                   /\ UNCHANGED <<pc, path, loads, fields, live, handles, cache>>

LoadStep(p) == \/ CheckCache(p) \/ ReadCache(p) \/ RejectCache(p) \/ LoadThrows(p)
               \/ BuildEngine(p) \/ BuildFails(p)
               \/ OpenCache(p) \/ WriteCache(p) \/ ShortWrite(p) \/ SaveFails(p)
               \/ ContextFails(p) \/ Prepare(p) \/ \E n \in 0..3 : PrepareFails(p, n)

Next == \/ \E p \in Procs : \/ CreateEngine(p) \/ CreateThrows(p) \/ CreateStream(p)
                            \/ CreateRuntime(p) \/ InitializeFails(p) \/ DestroyEngine(p)
                            \/ LoadStep(p) \/ Crash(p) \/ Exit(p)
                            \/ \E m \in Models : StartLoad(p, m) \/ UnloadModel(p, m)
        \/ \E m \in Models : ReplaceModel(m)

Spec == Init /\ [][Next]_vars

(* A load in progress keeps running. *)
FairSpec == Spec /\ \A p \in Procs : WF_vars(LoadStep(p))

-----------------------------------------------------------------------------
(* Every variable holds a value the code can store: no object is freed     *)
(* that was not allocated (~TensorRTBackend, the deletes of the C API).    *)
Count == 0..(4 * MaxLoads)
TypeOK == /\ pc \in [Procs -> PCs]
          /\ path \in [Procs -> Models \cup {None}]
          /\ loads \in [Procs -> 0..MaxLoads]
          /\ fields \in [Procs -> [stream : BOOLEAN, runtime : BOOLEAN,
                                   engine : Networks \cup {None}, context : Networks \cup {None},
                                   sizes : Networks \cup {None},
                                   buffers : [1..4 -> Networks \cup {None}]]]
          /\ live \in [Procs -> [Kinds -> Count]]
          /\ handles \in [Procs -> SUBSET Models]
          /\ onnx \in [Models -> 1..MaxVersion]
          /\ cache \in [Models -> Networks \cup {None, Corrupt}]

(* A process that has no engine handle has nothing allocated: destroying   *)
(* the engine, or failing to create it, freed everything.                  *)
NoLeak == \A p \in Procs : pc[p] = "down" => live[p] = Nothing

(* A model handle runs its own network: the backend holds the engine of    *)
(* that model, a context of that engine, and buffers of the sizes          *)
(* TensorRTBackend::infer copies.                                          *)
HandleUsable ==
  \A p \in Procs : \A m \in handles[p] :
     pc[p] = "ready" => LET f == fields[p] IN
        /\ f.engine \in Networks /\ f.engine.model = m
        /\ f.context = f.engine
        /\ f.sizes = f.engine
        /\ \A b \in 1..4 : f.buffers[b] = f.engine

(* A cache file holds the network of the model it stands beside, and of no *)
(* version that has not been deployed yet (saveEngineToFile).              *)
CacheOfOwnModel ==
  \A m \in Models : cache[m] \in Networks =>
     cache[m].model = m /\ cache[m].version <= onnx[m]

(* crkit_load_model returns, whatever it finds in the cache. *)
LoadReturns == \A p \in Procs : pc[p] \in Loading ~> pc[p] \notin Loading
=============================================================================
