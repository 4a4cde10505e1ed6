---------------------------- MODULE InferPipeline ----------------------------
(***************************************************************************)
(* crkit_infer and crkit_warmup_model on ONE model handle that several     *)
(* application threads share (docs/API_USAGE.md tells them they may).      *)
(*                                                                         *)
(* A CRKitModelImpl owns one Preprocessor, one Postprocessor and, through  *)
(* its engine, one backend.  None of them holds a lock, so the state they  *)
(* keep between two steps of a call is shared by all calls in progress:    *)
(*   - the letterbox geometry the pre-processor computes and the API then  *)
(*     copies into the post-processor (preParams, postParams);             *)
(*   - with TensorRT, one CUDA stream and one pair each of device and      *)
(*     pinned host buffers (stream, deviceIn, deviceOut, hostOut).         *)
(*                                                                         *)
(* Data is abstracted to the image it was computed from: a tensor, the     *)
(* content of a buffer or a geometry IS an element of Images (or Dummy).   *)
(* The letterbox is the default one (keep_aspect_ratio = true); with plain *)
(* stretching every image has the same geometry.                           *)
(***************************************************************************)
EXTENDS Naturals, Sequences

CONSTANTS Threads,        \* application threads sharing the handle
          Images,         \* the images they infer on
          Dummy,          \* the zero tensor of a warm-up
          None,           \* nothing: null pointer, unwritten buffer
          Backend,        \* "tensorrt" or "onnxruntime"
          ClientLock,     \* TRUE iff the application serialises its calls
          Exceptions,     \* TRUE iff OpenCV or the allocator may throw
          MaxPending,     \* operations the driver queues before it blocks
          MaxIterations   \* largest num_iterations of a warm-up

ASSUME ValuesAssumption  == Dummy \notin Images /\ None \notin Images /\ Dummy # None
ASSUME BackendAssumption == Backend \in {"tensorrt", "onnxruntime"}
ASSUME FlagsAssumption   == ClientLock \in BOOLEAN /\ Exceptions \in BOOLEAN
ASSUME BoundsAssumption  == MaxPending \in Nat \ {0} /\ MaxIterations \in Nat \ {0}

VARIABLES pc,          \* where each thread is in its call
          image,       \* what its current or last call infers on
          left,        \* warm-up iterations still to run
          tensor,      \* local Tensor of the call: the network's input
          output,      \* local Tensor of the call: the network's output
          partial,     \* TRUE: a CRKitResult allocated and not yet handed over
          result,      \* what the call stored in *result
          preParams,   \* Preprocessor's scale_ and pad_w_/pad_h_
          postParams,  \* Postprocessor's copy of them
          stream,      \* operations queued on the CUDA stream
          deviceIn, deviceOut,  \* device_buffers_[0], device_buffers_[1]
          hostOut      \* host_buffers_[1]

params == <<preParams, postParams>>
gpu    == <<stream, deviceIn, deviceOut, hostOut>>
heap   == <<tensor, output, partial>>
vars   == <<pc, image, left, heap, result, params, gpu>>

Data == Images \cup {Dummy, None}
Geometry == [scale : Data, pad : Data]
GeometryOf(i) == [scale |-> i, pad |-> i]
PCs == {"idle", "called", "scaled", "resized", "preprocessed", "prepared",
        "copied", "enqueued", "copyingOut", "synced", "inferred"}

CopyInOp(t, i) == [kind |-> "copyIn",  by |-> t, data |-> i]
ExecuteOp(t)   == [kind |-> "execute", by |-> t, data |-> None]
CopyOutOp(t)   == [kind |-> "copyOut", by |-> t, data |-> None]
Ops == [kind : {"copyIn", "execute", "copyOut"}, by : Threads, data : Data]

Init == /\ pc         = [t \in Threads |-> "idle"]
        /\ image      = [t \in Threads |-> None]
        /\ left       = [t \in Threads |-> 0]
        /\ tensor     = [t \in Threads |-> None]
        /\ output     = [t \in Threads |-> None]
        /\ partial    = [t \in Threads |-> FALSE]
        /\ result     = [t \in Threads |-> None]
        /\ preParams  = GeometryOf(None)
        /\ postParams = GeometryOf(None)
        /\ stream = <<>> /\ deviceIn = None /\ deviceOut = None /\ hostOut = None

Goto(t, label) == pc' = [pc EXCEPT ![t] = label]

(* Definitions whose name begins with Bug_ are not the code: each is a     *)
(* plausible mistake in the definition that follows it, and a property of  *)
(* this module must fail when it takes that definition's place.            *)

(* The application starts a call: if it serialises its calls, only when no *)
(* other is in progress.  The call's local tensors are fresh variables.    *)
Begin(t, i) == /\ pc[t] = "idle"
               /\ ClientLock => \A u \in Threads : pc[u] = "idle"
               /\ image'   = [image EXCEPT ![t] = i]
               /\ result'  = [result EXCEPT ![t] = None]
               /\ output'  = [output EXCEPT ![t] = None]
               /\ partial' = [partial EXCEPT ![t] = FALSE]

CallInfer(t, i) == /\ Begin(t, i)
                   /\ tensor' = [tensor EXCEPT ![t] = None]
                   /\ Goto(t, "called")
                   /\ UNCHANGED <<left, params, gpu>>

-----------------------------------------------------------------------------
(* Pre-processing. *)

(* resizeWithPadding stores the scale before cv::resize and the padding    *)
(* after it: another thread can run in between.                            *)
ComputeScale(t) == /\ pc[t] = "called"
                   /\ preParams' = [preParams EXCEPT !.scale = image[t]]
                   /\ Goto(t, "scaled")
                   /\ UNCHANGED <<image, left, heap, result, postParams, gpu>>

ComputePadding(t) == /\ pc[t] = "scaled"
                     /\ preParams' = [preParams EXCEPT !.pad = image[t]]
                     /\ Goto(t, "resized")
                     /\ UNCHANGED <<image, left, heap, result, postParams, gpu>>

(* A matrix kept in the pre-processor instead of a local one. *)
Bug_MatrixIsMember(t) == /\ pc[t] = "resized"
                         /\ tensor' = [tensor EXCEPT ![t] = preParams.pad]
                         /\ Goto(t, "preprocessed")
                         /\ UNCHANGED <<image, left, output, partial, result, params, gpu>>

(* malloc of the input tensor, filled from the thread's own matrix. *)
FillTensor(t) == /\ pc[t] = "resized"
                 /\ tensor' = [tensor EXCEPT ![t] = image[t]]
                 /\ Goto(t, "preprocessed")
                 /\ UNCHANGED <<image, left, output, partial, result, params, gpu>>

(* A rejected image ("called"), a failed malloc ("resized") or an OpenCV   *)
(* exception ends the call before it owns anything.                        *)
PreprocessFails(t) == /\ \/ pc[t] \in {"called", "resized"}
                         \/ Exceptions /\ pc[t] = "scaled"
                      /\ Goto(t, "idle")
                      /\ UNCHANGED <<image, left, heap, result, params, gpu>>

(* setPreprocessParams is forgotten. *)
Bug_ParamsNotPassed(t) == /\ pc[t] = "preprocessed"
                          /\ Goto(t, "prepared")
                          /\ UNCHANGED <<image, left, heap, result, params, gpu>>

(* crkit_infer reads the geometry back and gives it to the post-processor. *)
PassParams(t) == /\ pc[t] = "preprocessed"
                 /\ postParams' = preParams
                 /\ Goto(t, "prepared")
                 /\ UNCHANGED <<image, left, heap, result, preParams, gpu>>

-----------------------------------------------------------------------------
(* Warm-up: the backend runs infer on a zero tensor, whatever its status.  *)

BeginWarmup(t, n) == /\ Begin(t, Dummy)
                     /\ tensor' = [tensor EXCEPT ![t] = Dummy]
                     /\ left'   = [left EXCEPT ![t] = n]
                     /\ Goto(t, "prepared")
                     /\ UNCHANGED <<params, gpu>>

(* The loop does not look at its count, or does not advance it. *)
Bug_CountIgnored(t) == /\ left' = [left EXCEPT ![t] = @ - 1]
                       /\ Goto(t, "prepared")
                       /\ UNCHANGED tensor
Bug_CountStays(t) == /\ Goto(t, "prepared")
                     /\ UNCHANGED <<left, tensor>>

(* One iteration of the loop in warmup() ends. *)
EndIteration(t) == /\ left' = [left EXCEPT ![t] = @ - 1]
                   /\ IF left[t] > 1
                      THEN Goto(t, "prepared") /\ UNCHANGED tensor
                      ELSE Goto(t, "idle") /\ tensor' = [tensor EXCEPT ![t] = None]

-----------------------------------------------------------------------------
(* Inference.  infer() returned `data` or a failure: crkit_infer frees the *)
(* input tensor first in both cases; a warm-up frees the output at once.   *)

Inferred(t, data) == /\ IF image[t] = Dummy
                        THEN EndIteration(t) /\ UNCHANGED output
                        ELSE /\ output' = [output EXCEPT ![t] = data]
                             /\ tensor' = [tensor EXCEPT ![t] = None]
                             /\ Goto(t, "inferred")
                             /\ UNCHANGED left
                     /\ UNCHANGED <<image, partial, result, params, gpu>>

(* The early return comes before the free. *)
Bug_TensorKept(t) == /\ pc[t] \in {"prepared", "copied", "enqueued", "copyingOut"}
                     /\ IF image[t] = Dummy
                        THEN EndIteration(t)
                        ELSE Goto(t, "idle") /\ UNCHANGED <<tensor, left>>
                     /\ UNCHANGED <<image, output, partial, result, params, gpu>>

(* A failure status: no session or context, a CUDA error, an Ort exception. *)
InferFails(t) == /\ pc[t] \in {"prepared", "copied", "enqueued", "copyingOut"}
                 /\ IF image[t] = Dummy
                    THEN EndIteration(t)
                    ELSE /\ Goto(t, "idle")
                         /\ tensor' = [tensor EXCEPT ![t] = None]
                         /\ UNCHANGED left
                 /\ UNCHANGED <<image, output, partial, result, params, gpu>>

(* An exception leaves infer(): the handler of crkit_infer frees nothing.  *)
(* (In a warm-up, which has no handler, it ends the process.)              *)
InferThrows(t) == /\ Exceptions /\ image[t] # Dummy
                  /\ pc[t] = IF Backend = "tensorrt" THEN "synced" ELSE "prepared"
                  /\ Goto(t, "idle")
                  /\ UNCHANGED <<image, left, heap, result, params, gpu>>

(* ONNX Runtime: Session::Run is thread-safe and works on the caller's     *)
(* own tensors.                                                            *)
RunSession(t) == /\ Backend = "onnxruntime"
                 /\ pc[t] = "prepared"
                 /\ Inferred(t, tensor[t])

(* TensorRT: three asynchronous operations, a wait, a copy.  The copy from *)
(* pageable memory is staged by the driver before the call returns.        *)
Enqueue(t, op) == /\ Backend = "tensorrt"
                  /\ Len(stream) < MaxPending
                  /\ stream' = Append(stream, op)
                  /\ UNCHANGED <<image, left, heap, result, params, deviceIn, deviceOut, hostOut>>

CopyIn(t) == pc[t] = "prepared" /\ Enqueue(t, CopyInOp(t, tensor[t])) /\ Goto(t, "copied")

Execute(t) == pc[t] = "copied" /\ Enqueue(t, ExecuteOp(t)) /\ Goto(t, "enqueued")

CopyOut(t) == pc[t] = "enqueued" /\ Enqueue(t, CopyOutOp(t)) /\ Goto(t, "copyingOut")

(* No cudaStreamSynchronize. *)
Bug_NoWait(t) == TRUE

(* cudaStreamSynchronize: everything this thread queued has been executed. *)
StreamDrained(t) == \A n \in 1..Len(stream) : stream[n].by # t

Synchronize(t) == /\ pc[t] = "copyingOut"
                  /\ StreamDrained(t)
                  /\ Goto(t, "synced")
                  /\ UNCHANGED <<image, left, heap, result, params, gpu>>

(* memcpy from the pinned buffer that every call of this backend shares. *)
CollectOutput(t) == pc[t] = "synced" /\ Inferred(t, hostOut)

(* The GPU executes the stream in order, concurrently with the threads. *)
Perform(op) == /\ deviceIn'  = IF op.kind = "copyIn"  THEN op.data   ELSE deviceIn
               /\ deviceOut' = IF op.kind = "execute" THEN deviceIn  ELSE deviceOut
               /\ hostOut'   = IF op.kind = "copyOut" THEN deviceOut ELSE hostOut

GpuStep == /\ stream # <<>>
           /\ Perform(Head(stream))
           /\ stream' = Tail(stream)
           /\ UNCHANGED <<pc, image, left, heap, result, params>>

-----------------------------------------------------------------------------
(* Post-processing: boxes are decoded from the output and mapped back with *)
(* the geometry the post-processor holds NOW, the output is freed, and the *)
(* result is built and handed over.                                        *)

FreeOutput(t) == output' = [output EXCEPT ![t] = None]

Postprocess(t) == /\ pc[t] = "inferred"
                  /\ result' = [result EXCEPT ![t] = [output |-> output[t], geometry |-> postParams]]
                  /\ FreeOutput(t)
                  /\ Goto(t, "idle")
                  /\ UNCHANGED <<image, left, tensor, partial, params, gpu>>

(* Decoding, NMS or the vector of detections throws: the output stays. *)
PostprocessThrows(t) == /\ Exceptions
                        /\ pc[t] = "inferred"
                        /\ Goto(t, "idle")
                        /\ UNCHANGED <<image, left, heap, result, params, gpu>>

(* new CRKitDetection[] throws: the CRKitResult allocated before it stays. *)
BuildResultThrows(t) == /\ Exceptions
                        /\ pc[t] = "inferred"
                        /\ FreeOutput(t)
                        /\ partial' = [partial EXCEPT ![t] = TRUE]
                        /\ Goto(t, "idle")
                        /\ UNCHANGED <<image, left, tensor, result, params, gpu>>

-----------------------------------------------------------------------------
Advance(t) == \/ ComputeScale(t) \/ ComputePadding(t) \/ FillTensor(t) \/ PassParams(t)
              \/ RunSession(t) \/ CopyIn(t) \/ Execute(t) \/ CopyOut(t)
              \/ Synchronize(t) \/ CollectOutput(t) \/ Postprocess(t)

Failure(t) == \/ PreprocessFails(t) \/ InferFails(t)
              \/ InferThrows(t) \/ PostprocessThrows(t) \/ BuildResultThrows(t)

NewCall(t) == \/ \E i \in Images : CallInfer(t, i)
              \/ \E n \in 1..MaxIterations : BeginWarmup(t, n)

Next == GpuStep \/ \E t \in Threads : Advance(t) \/ Failure(t) \/ NewCall(t)

Spec == Init /\ [][Next]_vars

(* A thread inside the library keeps running and the GPU keeps executing.  *)
(* No failure has to happen (so none may be what ends a wait), and no      *)
(* thread has to start another call.                                       *)
FairSpec == Spec /\ WF_vars(GpuStep) /\ \A t \in Threads : WF_vars(Advance(t))

-----------------------------------------------------------------------------
(* Every variable holds a value the code can store in it; in particular a  *)
(* warm-up never counts below zero iterations (the loops of both warmup()  *)
(* functions).                                                             *)
TypeOK == /\ pc \in [Threads -> PCs]
          /\ image \in [Threads -> Data]
          /\ left \in [Threads -> 0..MaxIterations]
          /\ tensor \in [Threads -> Data]
          /\ output \in [Threads -> Data]
          /\ partial \in [Threads -> BOOLEAN]
          /\ result \in [Threads -> {None} \cup [output : Data, geometry : Geometry]]
          /\ preParams \in Geometry
          /\ postParams \in Geometry
          /\ stream \in Seq(Ops) /\ Len(stream) <= MaxPending
          /\ deviceIn \in Data /\ deviceOut \in Data /\ hostOut \in Data

(* The detections a call returns were computed from the caller's own image *)
(* (the shared pinned buffer of TensorRTBackend::infer).                   *)
OutputOfOwnImage == \A t \in Threads : result[t] # None => result[t].output = image[t]

(* ... and mapped back with that image's scale and padding (the geometry   *)
(* crkit_infer hands from the pre-processor to the post-processor).        *)
ResultOfOwnCall ==
  \A t \in Threads :
     result[t] # None => result[t] = [output |-> image[t], geometry |-> GeometryOf(image[t])]

(* A thread outside the library has left no tensor and no half-built       *)
(* result behind, whichever way its last call ended.                       *)
TensorsReleased ==
  \A t \in Threads :
     pc[t] = "idle" => tensor[t] = None /\ output[t] = None /\ ~partial[t]

(* Between the stream's synchronisation and the memcpy out of the pinned   *)
(* buffer, no operation still queued overwrites that buffer.               *)
HostBufferStable == [][\A t \in Threads : pc[t] = "synced" => hostOut' = hostOut]_vars

(* Every call returns (the wait for the stream included). *)
CallsReturn == \A t \in Threads : pc[t] # "idle" ~> pc[t] = "idle"

(* The handle behaves as InferService promises: a thread inside the        *)
(* library is waiting for its image.                                       *)
Awaited == [t \in Threads |-> IF pc[t] = "idle" THEN None ELSE image[t]]
Service == INSTANCE InferService WITH call <- Awaited, reply <- result

ServiceSpec == Service!Spec

-----------------------------------------------------------------------------
(* Why the properties hold: the conjuncts of the inductive invariant.      *)

InBackend  == {"prepared", "copied", "enqueued", "copyingOut", "synced"}
OnStream   == InBackend \ {"prepared"}
BeforeInput == {"called", "scaled", "resized"}

(* What a call in progress owns, by itself. *)
CallShape ==
  \A t \in Threads :
     /\ pc[t] \in BeforeInput \cup {"preprocessed", "inferred"} => image[t] \in Images
     /\ pc[t] \in InBackend => \/ image[t] \in Images
                               \/ image[t] = Dummy /\ left[t] > 0
     /\ pc[t] \in InBackend \cup {"preprocessed"} => tensor[t] = image[t]
     /\ pc[t] \in OnStream => Backend = "tensorrt"

(* Without exceptions, a tensor lives exactly as long as it is needed. *)
HeapShape ==
  ~Exceptions => \A t \in Threads :
     /\ ~partial[t]
     /\ pc[t] # "inferred" => output[t] = None
     /\ pc[t] \in BeforeInput \cup {"idle", "inferred"} => tensor[t] = None

(* If the application serialises its calls, one thread is inside at most. *)
AtMostOneBusy ==
  ClientLock => \A t, u \in Threads : pc[t] # "idle" /\ pc[u] # "idle" => t = u

(* ... so the geometry fields follow the call in progress, *)
GeometryFollows ==
  ClientLock => \A t \in Threads :
     /\ pc[t] = "scaled" => preParams.scale = image[t]
     /\ pc[t] \in {"resized", "preprocessed"} => preParams = GeometryOf(image[t])
     /\ pc[t] \in InBackend \cup {"inferred"} /\ image[t] # Dummy
          => postParams = GeometryOf(image[t])

(* ... and the stream ends with the operations of the call in progress:    *)
(* what it holds, once executed, leaves datum i in a buffer.               *)
LastOp == stream[Len(stream)]
OpBefore(n) == stream[Len(stream) - n]

InputLoaded(i) ==
  /\ Len(stream) = 0 => deviceIn = i
  /\ Len(stream) > 0 => LastOp.kind = "copyIn" /\ LastOp.data = i

OutputComputed(i) ==
  /\ Len(stream) = 0 => deviceOut = i
  /\ Len(stream) > 0 => LastOp.kind = "execute"
  /\ Len(stream) = 1 => deviceIn = i
  /\ Len(stream) > 1 => OpBefore(1).kind = "copyIn" /\ OpBefore(1).data = i

OutputFetched(t, i) ==
  /\ Len(stream) = 0 => hostOut = i
  /\ Len(stream) > 0 => LastOp.kind = "copyOut" /\ LastOp.by = t
  /\ Len(stream) = 1 => deviceOut = i
  /\ Len(stream) > 1 => OpBefore(1).kind = "execute"
  /\ Len(stream) = 2 => deviceIn = i
  /\ Len(stream) > 2 => OpBefore(2).kind = "copyIn" /\ OpBefore(2).data = i

StreamFollows ==
  ClientLock => \A t \in Threads :
     /\ pc[t] = "copied"     => InputLoaded(image[t])
     /\ pc[t] = "enqueued"   => OutputComputed(image[t])
     /\ pc[t] = "copyingOut" => OutputFetched(t, image[t])
     /\ pc[t] = "synced"     => Len(stream) = 0 /\ hostOut = image[t]

(* The network's output a call holds is its own. *)
OwnOutput ==
  \A t \in Threads : pc[t] = "inferred" /\ (ClientLock \/ Backend = "onnxruntime")
                       => output[t] = image[t]

SerialResults == ClientLock => ResultOfOwnCall

PipelineInv == /\ CallShape /\ HeapShape /\ AtMostOneBusy
               /\ GeometryFollows /\ StreamFollows /\ OwnOutput /\ SerialResults
=============================================================================
