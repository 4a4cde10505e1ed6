------------------------------ MODULE CRKitApi ------------------------------
(***************************************************************************)
(* The C API as its callers see it: handles, results and the last error.   *)
(* Threads of an application create engines, load models, infer on one     *)
(* image, a file or a batch, free what they get, and read error messages.  *)
(* The steps of a call are the points where it touches an object another   *)
(* call may delete, or the ErrorHandler's mutex.  An object that nobody    *)
(* else knows yet is deleted in the step that fails, though the code sets  *)
(* the error first.  Three catch blocks do not delete what the try block   *)
(* had allocated, its variable being out of scope: the object is Lost.     *)
(*                                                                         *)
(* What the calls do to the shared buffers is in InferPipeline, what a     *)
(* load acquires from the driver in TensorRTBackend.                       *)
(***************************************************************************)
EXTENDS Naturals, Sequences, FiniteSets

CONSTANTS Threads,
          Networks,   \* model files
          Images,
          Engines, Models, Results,  \* addresses
          Builds,     \* sets of backends a build may enable
          Batches,    \* bound: the arrays crkit_infer_batch is called with
          None,       \* null, free memory
          Lost        \* memory still allocated that nothing points to any more

Backends == {"tensorrt", "onnxruntime"}
Objects == Engines \cup Models \cup Results

ASSUME BuildsAssumption == Builds \subseteq SUBSET Backends
ASSUME BatchesAssumption == Batches \subseteq Seq(Images) \ {<<>>}
ASSUME NoneAssumption == None \notin Objects \cup Networks \cup Threads

(* What the heap holds at an address, which is named with its kind.        *)
NetworkOrNone == Networks \cup {None}
EngineObjects == [backend : Backends,
                  loaded : NetworkOrNone, names : NetworkOrNone, outputs : NetworkOrNone]
ModelObjects  == [engine : Engines, network : Networks]
ResultObjects == [image : Images]

ASSUME HeapAssumption ==
  /\ Engines \cap Models = {} /\ Engines \cap Results = {} /\ Models \cap Results = {}
  /\ {None, Lost} \cap (EngineObjects \cup ModelObjects \cup ResultObjects) = {}
  /\ None # Lost

VARIABLES
  build,       \* the CRKIT_ENABLE_* flags
  heap,        \* the objects behind the handles
  at, arg,     \* running calls: where, with what
  array,       \* the results a running crkit_infer_batch has so far
  status,      \* what the last call returned: success, a failure with a
               \* message, or one without
  batch,       \* what the last crkit_infer_batch handed over, and for what
  held,        \* handles and single results the application has to give back
  errorMutex,  \* ErrorHandler's
  lastError    \* its message, as each thread sees it: set before the thread's
               \* last call began, or since, by that call or by another thread

calls  == <<at, arg, array, status>>
app    == <<batch, held>>
errors == <<errorMutex, lastError>>
vars == <<build, heap, calls, app, errors>>

Arguments(e, m, images, many) == [engine |-> e, model |-> m, images |-> images, many |-> many]
NoArg == Arguments(None, None, <<>>, FALSE)
NoBatch == [images |-> <<>>, results |-> <<>>]

Init ==
  /\ build \in Builds
  /\ heap   = [x \in Objects |-> None]
  /\ at     = [t \in Threads |-> "idle"]
  /\ arg    = [t \in Threads |-> NoArg]
  /\ array  = [t \in Threads |-> <<>>]
  /\ status = [t \in Threads |-> "SUCCESS"]
  /\ batch  = [t \in Threads |-> NoBatch]
  /\ held   = {}
  /\ errorMutex = None
  /\ lastError  = [t \in Threads |-> "older"]

Exists(x) == heap[x] \notin {None, Lost}

Elements(s) == {s[k] : k \in DOMAIN s}
FreeAll(freed) == [x \in Objects |-> IF x \in freed THEN None ELSE heap[x]]

-----------------------------------------------------------------------------
(* How calls begin and end. *)

Goto(t, label) == at' = [at EXCEPT ![t] = label]

Begin(t) == at[t] = "idle" /\ lastError' = [lastError EXCEPT ![t] = "older"]

Enter(t, label, a) == /\ Begin(t)
                      /\ Goto(t, label)
                      /\ arg' = [arg EXCEPT ![t] = a]
                      /\ UNCHANGED <<array, status>>

Return(t, s) == /\ Goto(t, "idle")
                /\ status' = [status EXCEPT ![t] = s]
                /\ arg' = [arg EXCEPT ![t] = NoArg]
                /\ array' = [array EXCEPT ![t] = <<>>]

(* crkit_infer_batch cleans up after a crkit_infer that failed. *)
Ends(t, s) == IF arg[t].many
              THEN /\ Goto(t, "cleanup")
                   /\ status' = [status EXCEPT ![t] = s]
                   /\ UNCHANGED <<arg, array>>
              ELSE Return(t, s)

(* SET_ERROR, then the return of a status. *)
SetError(t, s) == /\ Goto(t, "error")
                  /\ status' = [status EXCEPT ![t] = s]
                  /\ UNCHANGED <<arg, array>>

(* SET_ERROR_AND_RETURN, whichever CRKIT_ERROR_. *)
Fail(t) == SetError(t, "FAILED")

(* CUDA_CHECK returns CRKIT_ERROR_DEVICE_ERROR without a message. *)
FailSilently(t) == Ends(t, "SILENT")

(* A null handle, image, path or configuration; no iterations, no images.  *)
Reject(t) == /\ Begin(t)
             /\ Fail(t)
             /\ UNCHANGED <<build, heap, app, errorMutex>>

(* ErrorHandler::setLastError assigns and then logs, with its mutex held;  *)
(* one message for all threads.                                            *)
SetLastError(t) ==
  /\ at[t] = "error" /\ errorMutex = None
  /\ errorMutex' = t
  /\ lastError' = [u \in Threads |-> IF u = t THEN "own" ELSE "other"]
  /\ Goto(t, "logging")
  /\ UNCHANGED <<build, heap, arg, array, status, app>>

LogError(t) ==
  /\ at[t] = "logging"
  /\ errorMutex' = None
  /\ Ends(t, status[t])
  /\ UNCHANGED <<build, heap, app, lastError>>

(* crkit_get_last_error: a pointer to the one message, read afterwards. *)
GetLastError(t) ==
  /\ at[t] = "idle" /\ status[t] # "SUCCESS" /\ errorMutex = None
  /\ Goto(t, "reading")
  /\ UNCHANGED <<build, heap, arg, array, status, app, errors>>

ReadMessage(t) ==
  /\ at[t] = "reading"
  /\ Goto(t, "idle")
  /\ UNCHANGED <<build, heap, arg, array, status, app, errors>>

-----------------------------------------------------------------------------
(* Engines. *)

(* A backend that was not built. *)
Bug_NotChecked(type) == IF type = "auto" THEN "tensorrt" ELSE type

(* BackendFactory::create: the type asked for, or the first one built. *)
Selected(type) ==
  IF type # "auto" THEN (IF type \in build THEN type ELSE None)
  ELSE IF "tensorrt" \in build THEN "tensorrt"
  ELSE IF "onnxruntime" \in build THEN "onnxruntime"
  ELSE None

NewEngine(backend) ==
  [backend |-> backend, loaded |-> None, names |-> None, outputs |-> None]

CreateEngine(t, type) ==
  /\ Selected(type) # None
  /\ \E e \in Engines :
       /\ heap[e] = None
       /\ heap' = [heap EXCEPT ![e] = NewEngine(Selected(type))]
       /\ Enter(t, "initializing", Arguments(e, None, <<>>, FALSE))
  /\ UNCHANGED <<build, app, errorMutex>>

(* The factory returns null: the engine is deleted at once, unless an      *)
(* exception comes first.                                                  *)
NoBackend(t, type) ==
  /\ Selected(type) = None
  /\ Begin(t)
  /\ \E e \in Engines, left \in {None, Lost} :
       heap[e] = None /\ heap' = [heap EXCEPT ![e] = left]
  /\ Fail(t)
  /\ UNCHANGED <<build, app, errorMutex>>

InitializeSucceeds(t) ==
  /\ at[t] = "initializing"
  /\ Return(t, "SUCCESS")
  /\ held' = held \cup {arg[t].engine}
  /\ UNCHANGED <<build, heap, batch, errors>>

InitializeFails(t) ==
  /\ at[t] = "initializing"
  /\ heap' = [heap EXCEPT ![arg[t].engine] = None]
  /\ Fail(t)
  /\ UNCHANGED <<build, app, errors>>

(* The factory or initialize throws: the catch block has no pointer to the *)
(* engine, which is never deleted.                                         *)
InitializeThrows(t) ==
  /\ at[t] = "initializing"
  /\ heap' = [heap EXCEPT ![arg[t].engine] = Lost]
  /\ Fail(t)
  /\ UNCHANGED <<build, app, errors>>

DestroyEngine(t, e) ==
  /\ Begin(t)
  /\ heap' = [heap EXCEPT ![e] = None]
  /\ held' = held \ {e}
  /\ Return(t, "SUCCESS")
  /\ UNCHANGED <<build, batch, errorMutex>>

-----------------------------------------------------------------------------
(* Models. *)

LoadModel(t, e, n) ==
  /\ \E m \in Models :
       /\ heap[m] = None
       /\ heap' = [heap EXCEPT ![m] = [engine |-> e, network |-> n]]
       /\ Enter(t, "loading", Arguments(e, m, <<>>, FALSE))
  /\ UNCHANGED <<build, app, errorMutex>>

(* Every load on ONNX Runtime appends the names, every run uses the first. *)
First(name, n) == IF name = None THEN n ELSE name

(* A second load leaves the first network in place. *)
Bug_LoadedOnce(e, n) == First(heap[e].loaded, n)

(* session_, or engine_ and context_: replaced by every load. *)
Loaded(e, n) == n

Load(e, n) ==
  IF heap[e].backend = "tensorrt"
  THEN [heap[e] EXCEPT !.loaded = Loaded(e, n)]
  ELSE [heap[e] EXCEPT !.loaded = Loaded(e, n), !.names = First(@, n), !.outputs = First(@, n)]

(* What a load that fails may leave behind.  ONNX Runtime: the session is  *)
(* replaced once it exists, the names are appended one by one.  TensorRT:  *)
(* the pointers are overwritten one by one, with null or not.              *)
HalfLoad(e, n) ==
  IF heap[e].backend = "tensorrt"
  THEN {[heap[e] EXCEPT !.loaded = l] : l \in {heap[e].loaded, None, n}}
  ELSE {heap[e], [heap[e] EXCEPT !.loaded = n],
        [heap[e] EXCEPT !.loaded = n, !.names = First(@, n)]}

LoadSucceeds(t) ==
  LET e == arg[t].engine
      m == arg[t].model
  IN  /\ at[t] = "loading"
      /\ heap' = [heap EXCEPT ![e] = Load(e, heap[m].network)]
      /\ held' = held \cup {m}
      /\ Return(t, "SUCCESS")
      /\ UNCHANGED <<build, batch, errors>>

(* The handle is stored before the backend has loaded the model. *)
Bug_HandedOver(m) == held \cup {m}

(* A model that failed to load is never handed over. *)
HeldAfterFailure(m) == held

(* loadModel returns a failure: the model is deleted. *)
LoadFails(t) ==
  LET e == arg[t].engine
      m == arg[t].model
  IN  /\ at[t] = "loading"
      /\ \E half \in HalfLoad(e, heap[m].network) :
           heap' = [heap EXCEPT ![e] = half, ![m] = None]
      /\ held' = HeldAfterFailure(m)
      /\ \/ heap[e].backend = "tensorrt" /\ FailSilently(t)
         \/ Fail(t)
      /\ UNCHANGED <<build, batch, errors>>

(* An exception in loadModel, or after it in the construction of the       *)
(* processors: the model is never deleted, whatever the engine has loaded. *)
LoadThrows(t) ==
  LET e == arg[t].engine
      m == arg[t].model
      n == heap[m].network
  IN  /\ at[t] = "loading"
      /\ \E half \in HalfLoad(e, n) \cup {Load(e, n)} :
           heap' = [heap EXCEPT ![e] = half, ![m] = Lost]
      /\ Fail(t)
      /\ UNCHANGED <<build, app, errors>>

(* Unloading takes the engine along. *)
Bug_EngineToo(m) == {m, heap[m].engine}

(* ~CRKitModelImpl leaves the engine alone, and what it has loaded. *)
DeletedWith(m) == {m}

UnloadModel(t, m) ==
  /\ Begin(t)
  /\ heap' = FreeAll(DeletedWith(m))
  /\ held' = held \ {m}
  /\ Return(t, "SUCCESS")
  /\ UNCHANGED <<build, batch, errorMutex>>

-----------------------------------------------------------------------------
(* Inference. *)

Call(t, label, m, images, many) ==
  /\ Enter(t, label, Arguments(None, m, images, many))
  /\ UNCHANGED <<build, heap, app, errorMutex>>

Infer(t, m, image)         == Call(t, "preprocess", m, <<image>>, FALSE)
InferFromFile(t, m, image) == Call(t, "imread", m, <<image>>, FALSE)
InferBatch(t, m, images)   == Call(t, "preprocess", m, images, TRUE)
WarmUp(t, m)               == Call(t, "warmup", m, <<>>, FALSE)

ReadImage(t) == /\ at[t] = "imread"
                /\ \/ Goto(t, "preprocess") /\ UNCHANGED <<arg, array, status>>
                   \/ Fail(t)
                /\ UNCHANGED <<build, heap, app, errors>>

(* Refused input or format, no memory, an exception of cv::resize. *)
Preprocess(t) ==
  /\ at[t] = "preprocess"
  /\ \/ Goto(t, "inference") /\ UNCHANGED <<arg, array, status>>
     \/ Fail(t)
  /\ UNCHANGED <<build, heap, app, errors>>

Engine(t) == heap[heap[arg[t].model].engine]

(* The backend's infer. *)
Run(t) ==
  /\ at[t] = "inference"
  /\ \/ Engine(t).loaded # None /\ Goto(t, "postprocess") /\ UNCHANGED <<arg, array, status>>
     \/ Engine(t).loaded # None /\ Engine(t).backend = "tensorrt" /\ FailSilently(t)
     \/ Fail(t)
  /\ UNCHANGED <<build, heap, app, errors>>

(* The iterations' failures set the last error, the warm-up succeeds. *)
RunWarmUp(t) ==
  /\ at[t] = "warmup"
  /\ \/ Return(t, "SUCCESS")
     \/ SetError(t, "SUCCESS")
  /\ UNCHANGED <<build, heap, app, errors>>

Bug_SameImage(t) == arg[t].images[1]

CurrentImage(t) == arg[t].images[Len(array[t]) + 1]

(* Postprocessor::process and the CRKitResult: handed to the caller, or to *)
(* crkit_infer_batch, which goes on with the next image.                   *)
Postprocess(t) ==
  /\ at[t] = "postprocess"
  /\ \E r \in Results :
       LET got == Append(array[t], r)
       IN  /\ heap[r] = None
           /\ heap' = [heap EXCEPT ![r] = [image |-> CurrentImage(t)]]
           /\ IF ~arg[t].many
              THEN /\ held' = held \cup {r}
                   /\ Return(t, "SUCCESS")
                   /\ UNCHANGED batch
              ELSE IF Len(got) < Len(arg[t].images)
              THEN /\ array' = [array EXCEPT ![t] = got]
                   /\ Goto(t, "preprocess")
                   /\ UNCHANGED <<arg, status, app>>
              ELSE /\ batch' = [batch EXCEPT ![t] = [images |-> arg[t].images, results |-> got]]
                   /\ Return(t, "SUCCESS")
                   /\ UNCHANGED held
  /\ UNCHANGED <<build, errors>>

(* catch returns the status without SET_ERROR. *)
Bug_NoMessage(t) == Ends(t, "FAILED")

(* crkit_infer's catch block. *)
Catch(t) == Fail(t)

(* An exception before there is a CRKitResult. *)
PostprocessFails(t) == /\ at[t] = "postprocess"
                       /\ Catch(t)
                       /\ UNCHANGED <<build, heap, app, errors>>

(* Its array of detections cannot be allocated: the CRKitResult is never   *)
(* deleted.                                                                *)
ResultThrows(t) == /\ at[t] = "postprocess"
                   /\ \E r \in Results :
                        heap[r] = None /\ heap' = [heap EXCEPT ![r] = Lost]
                   /\ Catch(t)
                   /\ UNCHANGED <<build, app, errors>>

(* The clean-up of the batch stops one short. *)
Bug_OneKept(t) == {array[t][k] : k \in 1..(Len(array[t]) - 1)}

(* j < i: all the results before the image that failed. *)
Discarded(t) == Elements(array[t])

CleanUp(t) == /\ at[t] = "cleanup"
              /\ heap' = FreeAll(Discarded(t))
              /\ Return(t, status[t])
              /\ UNCHANGED <<build, app, errors>>

FreeResult(t, r) == /\ Begin(t)
                    /\ heap' = FreeAll({r})
                    /\ held' = held \ {r}
                    /\ Return(t, "SUCCESS")
                    /\ UNCHANGED <<build, batch, errorMutex>>

FreeBatch(t) == /\ Begin(t)
                /\ heap' = FreeAll(Elements(batch[t].results))
                /\ batch' = [batch EXCEPT ![t] = NoBatch]
                /\ Return(t, "SUCCESS")
                /\ UNCHANGED <<build, held, errorMutex>>

(* The steps the library takes on its own. *)
Proceed(t) == \/ InitializeSucceeds(t) \/ InitializeFails(t) \/ InitializeThrows(t)
              \/ LoadSucceeds(t) \/ LoadFails(t) \/ LoadThrows(t)
              \/ ReadImage(t) \/ Preprocess(t) \/ Run(t) \/ RunWarmUp(t)
              \/ Postprocess(t) \/ PostprocessFails(t) \/ ResultThrows(t) \/ CleanUp(t)
              \/ SetLastError(t) \/ LogError(t) \/ ReadMessage(t)

-----------------------------------------------------------------------------
(* What the application may do, by docs/API_USAGE.md: it uses a handle     *)
(* until it gives it back, and not after; models are unloaded before their *)
(* engine is destroyed; one network at a time on an engine, and on an ONNX *)
(* Runtime engine only one for ever (see the README for the last two).     *)

ModelsOn(e) == {m \in Models : Exists(m) /\ heap[m].engine = e}
Idle(e) == ModelsOn(e) = {} /\ \A t \in Threads : arg[t].engine # e

OnnxEngines == {e \in Engines : Exists(e) /\ heap[e].backend = "onnxruntime"}

MayLoad(e, n) ==
  /\ e \in held /\ Idle(e)
  /\ e \in OnnxEngines =>
       {heap[e].loaded, heap[e].names, heap[e].outputs} \subseteq {n, None}
MayUse(m)     == m \in held
MayUnload(m)  == m \in held /\ \A t \in Threads : arg[t].model # m
MayDestroy(e) == e \in held /\ Idle(e)

Use(t) ==
  /\ at[t] = "idle"
  /\ \/ \E type \in Backends \cup {"auto"} : CreateEngine(t, type) \/ NoBackend(t, type)
     \/ \E e \in Engines : MayDestroy(e) /\ DestroyEngine(t, e)
     \/ \E e \in Engines, n \in Networks : MayLoad(e, n) /\ LoadModel(t, e, n)
     \/ \E m \in Models : MayUnload(m) /\ UnloadModel(t, m)
     \/ \E m \in Models, image \in Images :
          MayUse(m) /\ (Infer(t, m, image) \/ InferFromFile(t, m, image))
     \/ \E m \in Models, images \in Batches :
          MayUse(m) /\ batch[t] = NoBatch /\ InferBatch(t, m, images)
     \/ \E m \in Models : MayUse(m) /\ WarmUp(t, m)
     \/ \E r \in Results \cap held : FreeResult(t, r)
     \/ batch[t] # NoBatch /\ FreeBatch(t)
     \/ Reject(t) \/ GetLastError(t)

Next == \E t \in Threads : Proceed(t) \/ Use(t)

Spec == Init /\ [][Next]_vars

-----------------------------------------------------------------------------
(* Type invariant. *)
Places == {"idle", "initializing", "loading", "imread", "preprocess", "inference", "postprocess",
           "warmup", "cleanup", "error", "logging", "reading"}

TypeOK ==
  /\ build \in Builds
  /\ \A e \in Engines : Exists(e) => heap[e] \in EngineObjects /\ heap[e].backend \in build
  /\ \A m \in Models : Exists(m) => heap[m] \in ModelObjects
  /\ \A r \in Results : Exists(r) => heap[r] \in ResultObjects
  /\ at \in [Threads -> Places]
  /\ \A t \in Threads :
       /\ arg[t].engine \in Engines \cup {None} /\ arg[t].model \in Models \cup {None}
       /\ Elements(arg[t].images) \subseteq Images /\ arg[t].many \in BOOLEAN
       /\ Elements(array[t]) \subseteq Results
       /\ Len(array[t]) <= Len(arg[t].images)
  /\ status \in [Threads -> {"SUCCESS", "FAILED", "SILENT"}]
  /\ held \subseteq Objects
  /\ errorMutex \in Threads \cup {None}
  /\ lastError \in [Threads -> {"older", "own", "other"}]

(* Every object but the lost ones is owned exactly once, by the            *)
(* application, by the call that constructs it, or by the array of a       *)
(* batch; no two owners free the same object, and what is free or lost has *)
(* none (crkit_create_engine, crkit_load_model, the clean-up of            *)
(* crkit_infer_batch, the functions that free).  A call that fails hands   *)
(* nothing over.  It does not follow that it leaves nothing behind: the    *)
(* catch blocks of crkit_create_engine, crkit_load_model and crkit_infer   *)
(* lose what they cannot reach; no other exit does.                        *)
Constructed(t) == CASE at[t] = "initializing" -> {arg[t].engine}
                    [] at[t] = "loading"      -> {arg[t].model}
                    [] OTHER                  -> {}

ByApplication(x) == {<<"application", None, 0>> : y \in held \cap {x}}
ByConstructors(x) == {<<"constructor", t, 0>> : t \in {u \in Threads : x \in Constructed(u)}}
InArrays(x) ==
  UNION {{<<"array", t, k>> : k \in {j \in DOMAIN array[t] : array[t][j] = x}} : t \in Threads}
InBatches(x) ==
  UNION {{<<"batch", t, k>> : k \in {j \in DOMAIN batch[t].results : batch[t].results[j] = x}}
         : t \in Threads}

Owners(x) == ByApplication(x) \cup ByConstructors(x) \cup InArrays(x) \cup InBatches(x)

Ownership == \A x \in Objects : Cardinality(Owners(x)) = (IF Exists(x) THEN 1 ELSE 0)

(* No call is inside an object another call has freed: a model handle in   *)
(* use and the engine behind it exist from the first step of the call to   *)
(* its last, as does the engine a load works on.                           *)
NoUseAfterFree ==
  \A t \in Threads :
    /\ at[t] \in {"imread", "preprocess", "inference", "postprocess", "warmup"} =>
         Exists(arg[t].model) /\ Exists(heap[arg[t].model].engine)
    /\ at[t] \in {"initializing", "loading"} => Exists(arg[t].engine)

(* An inference runs the network of its own model handle, with that        *)
(* network's input and output names (the backend holds one network and is  *)
(* not told when a model is unloaded).                                     *)
RunsOwnNetwork ==
  \A t \in Threads : at[t] = "inference" =>
    /\ Engine(t).loaded = heap[arg[t].model].network
    /\ Engine(t).backend = "onnxruntime" =>
         /\ Engine(t).names = Engine(t).loaded
         /\ Engine(t).outputs = Engine(t).loaded

(* A batch is all or nothing: what is handed over is one result for each   *)
(* image, in the order of the images.                                      *)
BatchInOrder ==
  \A t \in Threads :
    /\ Len(batch[t].results) = Len(batch[t].images)
    /\ \A k \in DOMAIN batch[t].results : heap[batch[t].results[k]] = [image |-> batch[t].images[k]]

(* A thread that asks for the message of a call that failed never gets one *)
(* from before that call.  Not so after CUDA_CHECK, whose status comes     *)
(* without a message: see the README.                                      *)
MessageNotStale ==
  \A t \in Threads : at[t] = "reading" /\ status[t] = "FAILED" => lastError[t] # "older"
=============================================================================
