# CRKit SDK: specifications and proofs

TLA+ models of the CRKit inference SDK (`src/`, C++): a C API over a
pre-processor, an inference backend (TensorRT or ONNX Runtime) and a
post-processor, with a logger and an error store that all of them share. Paths
below are relative to the repository root; `api:230` stands for
`src/api/crkit_api.cpp:230`, `trt:` for `src/backend/tensorrt_backend.cpp`,
`onnx:` for `src/backend/onnxruntime_backend.cpp`, `pre:` and `post:` for
`src/core/preprocessor.cpp` and `postprocessor.cpp`, `log:` for
`src/utils/logger.cpp`, `error:` for `src/utils/error.cpp`.

## 1. The system

| component | state it keeps | operations | what makes it correct |
|---|---|---|---|
| **C API, inference** (`api:215-412`) | local tensors of a call; the `CRKitResult` being built | `crkit_infer`, `crkit_infer_batch`, `crkit_infer_from_file`, `crkit_warmup_model`, `crkit_free_*` | a result describes the caller's own image in its own coordinates; every exit frees what the call allocated (not so after an exception, section 3); calls return |
| **C API, handles** (`api:83-212`) | `CRKitEngineImpl` (owns the backend), `CRKitModelImpl` (points to its engine; owns pre- and post-processor) | create / destroy engine, load / unload model | nothing leaks (not so after an exception, section 3), nothing is used after it is freed, a handle runs the model it was loaded for |
| **Preprocessor** | `scale_`, `pad_w_`, `pad_h_` of the last image; configuration | `process` (convert, letterbox, normalise, HWC to CHW), `processBatch` | the tensor is the image's; the geometry reported is the one used |
| **Postprocessor** | a copy of that geometry; thresholds, class names | `setPreprocessParams`, `process` (decode, NMS, map back) | boxes are decoded within the tensor, suppressed per class, mapped back |
| **TensorRT backend** | runtime, engine, context, CUDA stream, two device and two pinned host buffers, sizes; `<model>.trt` on disk | `initialize`, `loadModel` (cache, build, save, context, buffers), `infer`, `warmup`, destructor | buffers fit the engine, outputs belong to inputs, a bad cache is rebuilt, all is freed |
| **ONNX Runtime backend** | session, names, shapes | the same interface | the same |
| **Backend factory** | none (build flags) | `create`, `isAvailable` | a type that is available can be created |
| **Logger** | level, filter, configuration, file stream, size counter; one mutex | `log`, `setLevel`, filters, `setConfig`, `setLogFile`, `closeLogFile`, rotation | accepted lines reach the configured file in order; rotation loses only the older half; the mutex is never stuck |
| **ErrorHandler** | last status and message; one mutex | `setLastError`, `getLastError` | the caller sees the error of its own failure, not an older one |
| **Example programs** (`examples/*.c`) | the handles of `main` | `simple_inference`, `batch_inference` | every exit gives back what was handed over, in the documented order; they end |

**Interaction.** All calls are synchronous, on the application's threads; the
library starts none. A model handle points to its engine handle, which owns
*one* backend: every model loaded on an engine uses that backend, and every
thread that uses a model uses the same pre-processor, post-processor, stream
and buffers. The only mutexes are the Logger's and the ErrorHandler's
(`setLastError` logs with its mutex held; the Logger never calls back).
The GPU runs concurrently with the threads, executing a stream in order.
Processes meet on the disk, through the cached engine file.

**Hard behaviours.** Calls of several threads interleave on unprotected shared
state; failed calls leave work on the stream; early returns and exceptions skip
clean-up; repeated loads overwrite owning pointers; the cache may be half
written, written by two processes at once or stale; `closeLogFile` runs with
and without the lock; a rotation can fail at each of its steps.
`PROJECT.json` lists them under "hazards", each at its line.

## 2. Modules

| module | models | composed of |
|---|---|---|
| `InferService` | abstract: what a model handle promises to the threads that share it | |
| `InferPipeline` | `crkit_infer` and `crkit_warmup_model` through pre-processor, backend, GPU stream and post-processor | implements `InferService` (`Service`) |
| `InferPipelineProofs` | theorems about `InferPipeline` | |
| `TensorRTBackend` | engine and model handles, `initialize`, `loadModel`, the destructor, the cache on disk | |
| `TensorRTBackendProofs` | theorems about `TensorRTBackend` | |
| `Logger` | the logger | |
| `LoggerProofs` | theorems about `Logger` | |
| `Detections` | one image's way through letterbox, decoding, non-maximum suppression, names and mapping back | |
| `DetectionsProofs` | theorems about non-maximum suppression and the letterbox | |
| `DecodingProofs` | theorems about decoding, names and types | extends `DetectionsProofs` |
| `GeometryProofs` | theorems about its arithmetic: refusals, overlap, mapping back | extends `DecodingProofs` |
| `CRKitApi` | every function of the C API as owner of objects and source of error messages; factory; ErrorHandler | |
| `CRKitApiProofs` | theorems about `CRKitApi` | |
| `ExamplePrograms` | the two example programs as clients | extends `CRKitApi`, implements its `Spec` |
| `ExampleProgramsProofs` | theorems about `ExamplePrograms`, the refinement among them | extends `CRKitApiProofs` |
| `MC*` | instances for TLC | |

Definitions named `Bug_...` are not the code. Each is a mistake somebody could
make in the definition after it, kept to show that a property notices it.

### InferPipeline

`pc[t]` is where thread `t` is in its call; the table follows `api:215-295`.

| `pc` | the code about to run | action |
|---|---|---|
| `idle` | outside the library | `CallInfer`, `BeginWarmup` |
| `called` | checks, colour conversion, `scale_ = ...` | `ComputeScale`, `PreprocessFails` |
| `scaled` | `cv::resize`, `pad_w_`, `pad_h_ = ...` | `ComputePadding`, `PreprocessFails` |
| `resized` | `malloc`, fill the tensor | `FillTensor`, `PreprocessFails` |
| `preprocessed` | read the geometry back, `setPreprocessParams` | `PassParams` |
| `prepared` | `backend->infer` | `CopyIn` or `RunSession`, `InferFails` |
| `copied`, `enqueued` | `enqueueV2`; `cudaMemcpyAsync` back | `Execute`, `CopyOut`, `InferFails` |
| `copyingOut` | `cudaStreamSynchronize` | `Synchronize`, `InferFails` |
| `synced` | `malloc`, `memcpy` from the pinned buffer | `CollectOutput`, `InferThrows` |
| `inferred` | decode, NMS, map back, build the result | `Postprocess`, `PostprocessThrows`, `BuildResultThrows` |

A step ends where another thread can see the difference: `scale_` and the
padding are two steps because `cv::resize` lies between them; reading the
geometry and passing it on is one, since splitting it shows no new kind of
mix. `Postprocess` reads the post-processor's geometry once, though the code
does so per box: a call with several boxes can mix even within one result, so
the model shows the least that can go wrong. `GpuStep` executes the head of the
stream. Copies from and to pageable memory are staged by the driver before the
call returns, hence `CopyIn` captures the tensor when it enqueues.
A failed `infer` leaves its operations queued, and so does the model. A failed
post-processing (a null output) cannot follow a successful `infer`.

Data is the image it was computed from. `Dummy` is the zero tensor of a
warm-up. A geometry is a pair of the image its scale and its padding come
from, so a mix of two images is visible. Model configurations of zero width or
height are left out (`mapToOriginal` would then reset the scale).

### TensorRTBackend

`fields[p]` are the backend's raw pointers, `live[p]` counts what the process
has really allocated: the difference is a leak. A network is the version of a
model file it was built from, and a buffer is the network it was sized for.
Loading goes `checking`, then `reading` the cache or `building`, `saving`,
`writing` (or `racing`, when two processes have the file open), `preparing`
(context, sizes, four allocations, of which any may fail: `PrepareFails`).
`Crash` kills a process at any point; the disk stays. `ReplaceModel` deploys a
new ONNX file. In this module the application destroys an engine only after it has
unloaded its models, which docs/API_USAGE.md:416 asks for, and uses one thread
per engine.

### Logger

`holder` is the mutex; `pc[t]` separates the steps at which an unlocked
`closeLogFile` can interfere: between the test of `is_open` and the write, and
within the rotation. A message is its number, a file the sequence of its
messages, and its size their count. `shouldLog` runs before the lock; its
answer while the filter changes is free. `setModuleFilter` and
`clearModuleFilter` are several `SetFilter`s at once and add no state.
`written` and `shut` are history. `max_file_size` is a constant, though `setConfig`
could change it.

### Detections

One thread, one image after another; a loop iteration is a step. `Process` is
`Preprocessor::process` with the network's answer: `ScaleOf` is `pre:170-173`
as an exact fraction, `Truncated` the cast of `pre:174-175`, which may yield one
less than an exact whole product because the scale is a float, `PaddingOf`
`pre:180-181`. A side of zero pixels makes `cv::resize` throw (`thrown`). Then,
by `pc`: `decode` is the loop of `post:114-151` (`BestClass`, `BoxOf`,
`Confident`), `Sort` is `std::sort` (any order of equal confidences), `nms` the outer
loop of `post:166-179` (the inner one is `Suppress`'s quantifier), `keep` the
copying of `post:183-188`, `Map` the names and `mapToOriginal` of `post:51-77`
and `post:206-224`.

Coordinates in the frame are whole pixels and sizes even, so half a size is
whole; scores and thresholds are percentages; a detection's coordinates are
multiplied by the scale's numerator, so the division is exact. Rounding of
floats other than the cast is not modelled, nor NaN. `ConfigAssumption` puts
the null entries of `class_names` last: `crkit_load_model` skips a null entry, which shifts
every later name, and `NamesOfConfig` fails for a null in the middle.

### CRKitApi

`heap` has the objects behind the handles; an address is free when it holds
`None`, and is used again. `Lost` is memory nobody can free any more: a call that
fails by an exception leaks the engine (`api:126-128`), the model (`api:196-198`) or the
`CRKitResult` (`api:292-294`) it was building, since the catch block has no pointer to it.
`at[t]` is where a thread is in its call:

| `at` | the code about to run | action |
|---|---|---|
| `idle` | outside the library | `CreateEngine`, `NoBackend`, `LoadModel`, `Infer`, `InferFromFile`, `InferBatch`, `WarmUp`, `DestroyEngine`, `UnloadModel`, `FreeResult`, `FreeBatch`, `GetLastError`, `Reject` |
| `initializing` | `BackendFactory::create`, `backend->initialize` (`api:108-116`) | `InitializeSucceeds`, `InitializeFails` (the engine is deleted), `InitializeThrows` (it is lost) |
| `loading` | `backend->loadModel` (`api:179`) | `LoadSucceeds`, `LoadFails` (the model is deleted), `LoadThrows` (it is lost) |
| `imread` | `cv::imread` (`api:305`) | `ReadImage` |
| `preprocess` | `preprocessor->process` (`api:230`) | `Preprocess` |
| `inference`, `warmup` | the backend's `infer`, `warmup` | `Run`, `RunWarmUp` |
| `postprocess` | `postprocessor->process`, the `CRKitResult` | `Postprocess`, `PostprocessFails` (an exception before the `CRKitResult`), `ResultThrows` (after it: it is lost) |
| `cleanup` | freeing the earlier results of a batch (`api:386-393`) | `CleanUp` |
| `error`, `logging` | `setLastError`: lock, then log | `SetLastError`, `LogError` |
| `reading` | the caller reads through the returned pointer | `ReadMessage` |

Status codes are reduced to success, a failure that sets the last error, and
one that does not (`CUDA_CHECK`, `trt:19-27`). `lastError[t]` is not the text but whose it is,
as `t` would see it. An engine record has what its backend holds: the loaded
network and, on ONNX Runtime, the first input and output name ever appended.
`HalfLoad` is what a failed load leaves of these.

The application is any, within `MayLoad`, `MayUse`, `MayUnload`, `MayDestroy`:
it uses what it holds, unloads models before it destroys their engine
(docs/API_USAGE.md), does not give a handle back while a call is inside it,
has one model at a time on an engine, and one network for ever on an
ONNX Runtime engine. The last two are in no document; the code needs them (below).
What a load acquires from the driver, and what of that an exception leaves, is
`TensorRTBackend`'s; what calls do to shared buffers is `InferPipeline`'s.
`setLevel`, which `crkit_create_engine` calls first, is in `Logger`.

### ExamplePrograms

`line` is the next call of `main` and `calling` tells whether it has been made;
`AfterSuccess` and `AfterFailure` are the branches of the two programs, which
differ only in the number of images. They are not guarded by the discipline
above: `ApiSpec`, the refinement of `CRKitApi!Spec`, shows that they keep to it.
`simple_inference` announces 80 classes and passes 20 names, so `crkit_load_model`
reads past the array: `NamesOverrun`, a crash that may or may not come.

## 3. Runs

Two threads or processes are enough for every interference here, since all
shared state is written and read by one call against one other, and a third actor
would only repeat the second's steps; two images (models, paths) are the least
that can be confused. The bounds that cut behaviour:

- `MaxPending` (stream length): 2, of the 3 operations of a call, so that the
  leftovers of a failed call stand before those of the next one; when the queue is
  full the driver blocks, which is also the real behaviour at its own limit.
  The theorems hold for any length.
- `MaxIterations`: 2, which tells "one more" from "the last".
- `MaxVersion` 2, `MaxLoads` up to 3: a first load, a reload over a complete
  one, and a reload over one that failed half-way.
- `MaxMessages` 4 with `MaxSize` 2 in `log_rotation`: two rotations, the second
  over an existing `.old`; 3 in `log_faults`, where a failed rename already
  fills a file past its size and the next message rotates it again.
- One log level and one module: a level only decides whether a message is
  accepted, as the module filter does. `log_close_race` has two.
- `detections`: a frame of 8 by 6 pixels; all images up to 18 by 8 (enlarged,
  reduced, flat, thin) for the letterbox; two images with every answer of two
  rows, one with every answer of three, out of ten rows: boxes of which only
  neighbours overlap enough, both classes, scores tied, at, above and
  below the threshold, a box on the edge. Three boxes are the least for a chain of
  overlaps; `DetectionsProofs` has any number.
- `api_applications`: two threads, an engine, a model and three result
  addresses, all used again after they are freed; two networks; a batch of two,
  so that a failure of the second image has a first result to free. One address
  per engine and model suffices for one engine, as only one model may live on it.
  The examples run with one and with two images. The bounds on addresses also bound what an
  application keeps, and what is lost, for an address that is lost is not used again: the run
  reaches the states in which all of them are.
- A process that has leaked must exit before it creates another engine
  (`CreateEngine`), which keeps `live` finite.

| run | shows |
|---|---|
| `infer_serial_tensorrt` | serialised calls on TensorRT: results, buffers, memory; every call and warm-up returns; refinement of `InferService` |
| `infer_shared_onnx` | unserialised calls on ONNX Runtime, exceptions anywhere: outputs are one's own |
| `trt_shared_cache` | two processes, two models, one load per engine; crashes, short writes, concurrent writers; a load ends whatever the cache holds |
| `trt_reload` | one engine, reloads of different models and versions, partial failures, exceptions |
| `log_rotation` | two files: size and path stay in step, a rotation ends with a file open |
| `log_faults` | failing renames, a path that cannot be opened, the empty path: retention across rotations; the mutex is released |
| `detections` | the picture fits the frame, only flat pictures throw; the boxes handed over are the greedy selection of the confident rows, duplicate-free, nothing lost without a better box; they map back to where they were seen, under their class's name |
| `api_applications` | any disciplined application and the two examples, in builds with TensorRT, with ONNX Runtime and with neither: one owner per object that no catch block has lost, no use after free, batches all or nothing, no stale message, the examples give back all they were handed and end |

Runs that find a disagreement between the code and its documents (quotations
in `PROJECT.json`, "findings"):

| run | what happens |
|---|---|
| `infer_shared_geometry` | two threads, ONNX Runtime: boxes mapped back with the other image's letterbox |
| `infer_shared_stream` | two threads, TensorRT: one thread gets the other image's output |
| `trt_reload_leaks` | a second load on an engine, after an unload or a load that failed late: what the first one built is lost |
| `log_close_race` | a rotation reopens the file `closeLogFile` has just closed |

Each finding is isolated to its cause by a constant: `ClientLock` (the
application's choice; every finding about sharing has a run beside it that
shows what holds when the application serialises its calls), `Exceptions`,
`MaxLoads`, `CloseRaces`. The same constants reproduce weaknesses that have no
run of their own: `HandleUsable` fails with `OneModel = FALSE` (the second model
loaded on an engine replaces the first one's network), `SizeIsTracked` with
`RenameFails = TRUE` (a full file is appended to as if it were empty), and
`RotationReopens` with the empty path in `Paths` (file output enabled with no
path: the next rotation ends file logging), `TensorsReleased` with `Exceptions
= TRUE` (an exception in `crkit_infer` leaves its tensor allocated). Other
weaknesses show when a condition named in the module is dropped:

- `MapsBack` without `input.keep`: with `keep_aspect_ratio` off the image is
  stretched, but scale 1 and no padding are reported, and boxes stay in frame coordinates.
- `RunsOwnNetwork` without the last conjunct of `MayLoad`: an ONNX Runtime
  engine that loads a second network, after the first was unloaded, or a load
  that failed between the two names, runs it with the first one's names.
  Without `Idle` in `MayLoad`, and with a second address in `Models`: a model loaded
  beside a live one replaces its network.
- `Ownership`, if it said that nothing is ever `Lost`: a call that fails by an
  exception leaks what it was building (`api:126-128`, `196-198`, `292-294`), though
  docs/TEST_PLAN.md:203 expects "无内存泄漏" (no leak) and
  docs/VALIDATION_REPORT.md:156-159 claims it verified, with "异常安全保证"
  (exception safety). `Ownership` says that no other exit loses an object, and
  that what is lost has no second owner. An example that goes on after such a failure
  gives back what it was handed, which is all it can (`ExamplesGiveBack`).
- `MessageNotStale` for the status `SILENT`: after `CUDA_CHECK` the caller reads
  an older message.
- `NamesOfConfig` with a null entry before a name, as said above.

The runs that check these properties exclude just that.

**Deadlock** is checked in every run.

**Fairness.** `InferPipeline!FairSpec`: a thread inside the library keeps
running (`Advance`), and the GPU keeps executing (`GpuStep`), which the
operating system's scheduler and the driver provide. No fairness is put on a failure, so
none can be what ends a wait, nor on new calls. `TensorRTBackend!FairSpec`: a
load keeps running, whichever way its steps end. `Logger!FairSpec`: a thread
that holds the mutex keeps running; nothing is assumed of who gets
the mutex next, since `std::mutex` promises no order. `ExamplePrograms!MainSpec`:
the one thread of an example keeps running; whether its calls succeed is open.

## 4. Proofs

Every safety invariant and every action property of the passing runs, and both
refinements, is the statement of a theorem, for every value of the constants
that satisfies the assumptions of its module and the hypotheses named below. The assumptions
say that bounds are positive, sets of addresses disjoint, `None` none of the things it
stands beside, inputs well-formed; TLC evaluates each in a run. A hypothesis
of a theorem is something the application or the environment must grant: where it is missing,
section 3 says what goes wrong.

### InferPipeline

`InferPipelineProofs` proves, for any set of threads and images, either
backend, any queue length and any iteration bound:

| theorem | statement |
|---|---|
| `TypeCorrect` | `Spec => []TypeOK` |
| `PipelineInvariant` | `Spec => [](TypeOK /\ PipelineInv)` |
| `SerialisedResultsCorrect` | serialised calls: `[]ResultOfOwnCall` |
| `OnnxOutputsCorrect` | ONNX Runtime, serialised or not: `[]OutputOfOwnImage` |
| `NoLeakWithoutExceptions` | no exceptions: `[]TensorsReleased` |
| `SerialisedHostBufferStable` | serialised calls: `HostBufferStable` |
| `SerialisedRefinesService` | serialised calls: `Service!Spec` |

They rest only on the four assumptions `InferPipeline` states about its
constants, which TLC evaluates in its runs.

`ResultOfOwnCall` is not inductive: a result is right because the output and
the geometry were, those because the buffers and fields were, and the buffer
because of what the stream *was going to do*. `PipelineInv` says so:

- `CallShape`: what a call owns at each point (its image, its tensor, a positive
  warm-up count).
- `HeapShape`: with no exceptions, what it does not own any more.
- `AtMostOneBusy`: serialisation. Everything below depends on it through lemma
  `Solo`: while one thread steps, the others are idle before and after.
- `GeometryFollows`: the fields hold the geometry of the call in progress.
- `StreamFollows`: the operations of the call in progress are the *last* of
  the stream, behind whatever failed calls left there. `InputLoaded`,
  `OutputComputed` and `OutputFetched` say what the stream will have left in a buffer
  once executed, by how many of the call's operations are still queued; each `GpuStep`
  shifts the case (`ExecutesInOrder`), each enqueue extends it (`Enqueues`).
  When the stream is drained the promise becomes a fact about `hostOut`.
- `OwnOutput`, `SerialResults`: the facts carried to the result.

The proof of the step has one lemma per conjunct and, in each, one case per
action that disturbs it. TLC checked `PipelineInv` before it was proved.

### TensorRTBackend

For any processes, models and versions, any number of loads, with or without
crashes and racing writers:

| theorem | hypotheses | statement |
|---|---|---|
| `BackendInvariant` | | `Spec => []BackendInv` |
| `TypeCorrect` | | `[]TypeOK`: no count falls below zero |
| `CacheCorrect` | | `[]CacheOfOwnModel` |
| `HandleCorrect` | `OneModel` | `[]HandleUsable` |
| `LeakFree` | one load per engine, no exceptions | `[]NoLeak` |

That nothing is freed twice cannot be seen from the counts alone: a pointer is
deleted because it is not null, and that must imply that the object exists.
`Ledger` says so: each count is at least what pointers and handles reach,
and at most what the loads so far can have allocated. The two bounds differ, since code that loads
twice does leak. `LeakFree` replaces them by an equation (`Exact`), which holds for a single load.
`Place` says where a load is and that, from saving on, `engine_` holds a network of the
path being loaded; `CacheCorrect` follows from it for every process that may
write the file, and so needs no exclusion between them. `HandleCorrect` adds `Loaded`: the handle an
application holds is for the path of its last load.

### Logger

For any threads, paths, sizes and number of messages:

| theorem | hypotheses | statement |
|---|---|---|
| `LoggerInvariant` | | `Spec => []LoggerInv` |
| `MutualExclusion` | | `[]Exclusion` |
| `RetainedCorrect` | | `[]RetainedIsSuffix` |
| `ClosedCorrect` | `~CloseRaces` | `[]ClosedStaysClosed` |
| `FileCorrect` | `~CloseRaces`, no empty path | `[]FileMatchesConfig` |
| `RotationCorrect` | `~CloseRaces`, no empty path | `RotationReopens` |
| `SizeCorrect` | these, `~RenameFails` | `[]SizeIsTracked` |
| `TypeCorrect` | these, `~RenameFails` | `[]TypeOK` |

`TypeOK` bounds the size counter, and so depends on what `SizeIsTracked` depends on; `Types`
inside `LoggerInv` is the part that needs nothing.
`MutexHeld` (a thread is in the critical section just when it holds the mutex) holds even beside an
unlocked `closeLogFile`, and with it retention, because closing changes no file.
The other properties are about the stream, which an unlocked close does change: `FileInv` says what the
stream is at each place of a rotation or an opening, and that a thread that closes is alone;
`SizeInv` that no file but the one being rotated is full, without which opening another
path would start with a size past the limit.

### CRKitApi

For any threads, addresses, networks, images and batches, and every build, without hypotheses:

| theorem | statement |
|---|---|
| `ApiInvariant` | `Spec => []ApiInv` |
| `TypeCorrect` | `[]TypeOK` |
| `OwnershipCorrect` | `[]Ownership` |
| `HandlesCorrect` | `[]NoUseAfterFree` |
| `NetworkCorrect` | `[]RunsOwnNetwork` |
| `BatchCorrect` | `[]BatchInOrder` |
| `MessageCorrect` | `[]MessageNotStale` |

What they assume of the application is in `Use`, as section 2 describes. `ApiInv` has
seven parts. `Types` and `Place`: where each call is and with what. `EngineOwned`,
`ModelOwned`, `ResultOwned`: an object exists, neither free nor lost
(`Live`), just when the application, a constructor or an array has it, and no two of them do. That is `Ownership` by another name, but
said of each pair of owners, so that a step needs to be looked at only for the
object it touches. `ModelServed`: a live model's engine is held, has no other
model, and once the model is handed over has its network. This is the part
`NoUseAfterFree` and `RunsOwnNetwork` come from; it depends on `MayLoad`, `MayUnload`
and `MayDestroy`. `InOrder`: an array has the results of a prefix of its images.
`MessageInv`, separate, follows a failing call through `setLastError`.
TLC checked `ApiInv` in `api_applications` before it was proved.

### ExamplePrograms

For any list of paths:

| theorem | statement |
|---|---|
| `MainInvariant` | `MainSpec => [](ApiInv /\ MainInv)` |
| `ExamplesKeepTheApi` | `MainSpec => ApiSpec` |
| `ExamplesKeepNothing` | `[]ExamplesGiveBack` |

The refinement and its invariant need each other: a call of `main` is one `CRKitApi`
allows (`StepAllowed`) because `main` holds what `MainInv` says of its line, and
`ApiInv` holds of `main`'s states because `CRKitApi` allows its calls. They are proved
together, by one induction. `Holds` is the heart of `MainInv`: at each line no engine,
no model or no result is held, and never two of a kind; at `exit` this and
`ApiInv` leave nothing alive in the heap.

### Detections

`DetectionsProofs` proves, for any inputs, frame, classes and thresholds:

| theorem | statement |
|---|---|
| `NmsInvariant` | `Spec => []NmsInv` |
| `DetectionsApart` | `[]KeptApart` |
| `NothingLostForNothing` | `[]LostHasBetter` |
| `PictureInFrame` | `[]RoiInFrame` |

The first three use no assumption and never expand `Duplicate`: they hold for any
test of overlap, because of the order of the loops. `KeptApart` says nothing
before the boxes are copied, so `NmsInv` has what makes it true later.
`Suppression`: once a box has had its turn (`HadTurn`) its flag is final,
no later unsuppressed box is its duplicate unless it is itself suppressed, and every
suppressed box has an earlier, unsuppressed, hence at least as confident, duplicate.
`Selection`: the result is the unsuppressed boxes below the loop counter, in
their order. `PictureInFrame` needs that sizes are positive
(`InputsAssumption`); its core is that a ratio bounded by `q` rounds down at most `q` (`QuotientBounded`).

`DecodingProofs` proves, for the same:

| theorem | hypotheses | statement |
|---|---|---|
| `DecodeInvariant` | | `Spec => []DecodeInv` |
| `RowsDecoded` | `Classes # 0` | `[]BoxesAreConfidentRows` |
| `ResultInvariant` | | `Spec => []ResultInv` |
| `NamesCorrect` | | `[]NamesOfConfig` |
| `TypeCorrect` | | `[]TypeOK` |

`DecodeInv` has a witness for the existential of `BoxesAreConfidentRows` at every row of the loop; with no
class at all there is no best one, hence the hypothesis. `BestClass` and `class_names` are
recursive functions: that such a function exists and what it returns for every number of
classes is proved by induction (`SetInduction`, below). That a null name never precedes another
(`ConfigAssumption`) is what makes the skipping of nulls harmless.

`GeometryProofs` proves:

| theorem | hypotheses | statement |
|---|---|---|
| `RefusalsAreFlat` | a frame of more than one pixel a side | `[]OnlyFlatImagesThrow` |
| `OverlapCorrect` | | `[]OverlapIsIou` |
| `DetectionsMapBack` | | `[]MapsBack` |

Into a frame one pixel wide the side that sets the scale may itself be truncated to zero, and any image
be refused. `OverlapCorrect` counts the pixels of two rectangles by the products of their
sides (`FS_Interval`, `FS_Product`) and their union by `FS_Union`.
`DetectionsMapBack` needs `LetterboxInv`, that the pre-processor's members are still those of
the image being processed, and comes down to one inequality: a fraction of a side rounded down
differs from it by less than a pixel (`EdgeMapsBack`).

### Induction

The induction theorems of the library take an operator as a parameter, which the
installed provers cannot instantiate. `SetInduction` states induction for the *set* of numbers that have
a property instead, from the library's theorem on minimal elements of
well-founded relations. It suffices for the recursive functions here.

### Limits

**Only model-checked:** liveness (`CallsReturn`, `LoadReturns`, `MutexReleased`,
`ExamplesEnd`), beyond TLAPS; and
nothing else of what the passing runs check. The runs with a violation refute a property,
which one counterexample does.

## 5. Not modelled

Pixel and number crunching (colour conversion, normalisation, inference
itself), NaN and float rounding other than the truncation of the scaled size;
console output and the layout of log lines; clocks; the default configurations, which only fill in a
structure. `processBatch`, `inferBatch`, `isAvailable` and `getLastStatus` are
defined and called by nothing in the library. The OpenVINO backend and the
asynchronous, stream, hot-update and info functions are described by the header and
docs/ARCHITECTURE.md, and no source file defines them.

Not covered by a property, and why (see "hazards"): reads past a tensor or a
row when the configuration does not fit the network, and writes through an unchecked `malloc`, are
undefined behaviour of the process; a replaced model file behind a valid cache
contradicts no document.

## 6. Plan

Done: the pipeline, its service and their proofs; the TensorRT backend's
resources; the logger; detections; the API with its example programs.

Proved: every safety property and both refinements (section 4).

Left, in order of importance:

1. Abstract specifications: a log (`LogStore`) that `Logger` implements when
   closing excludes other calls; a resource ledger for `TensorRTBackend`.
2. Proofs with fewer hypotheses: `LeakFree` for several loads when each is
   complete, up to the known leak; `ClosedCorrect` for the closes that do not meet a rotation.
3. Several engines at once in `CRKitApi` runs: engines share nothing but the error
   store and the logger, so one is what the properties need today; the theorems
   hold for any number.
