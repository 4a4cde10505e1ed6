------------------------ MODULE InferPipelineProofs ------------------------
(***************************************************************************)
(* Proofs about InferPipeline, for any number of threads and images, both  *)
(* backends, any queue length and any number of warm-up iterations.        *)
(***************************************************************************)
EXTENDS InferPipeline, SequenceTheorems, TLAPS

(* What appending an operation to the stream, and executing its head, does *)
(* to it (Enqueue and GpuStep).                                            *)
LEMMA StreamGrows ==
  ASSUME TypeOK, NEW op \in Ops, stream' = Append(stream, op)
  PROVE  /\ stream' \in Seq(Ops)
         /\ Len(stream') = Len(stream) + 1
         /\ \A n \in 1..Len(stream) : stream'[n] = stream[n]
         /\ stream'[Len(stream')] = op
BY AppendProperties DEF TypeOK

(* When the GPU takes an operation off the stream, the others move up by one. *)
LEMMA StreamShrinks ==
  ASSUME TypeOK, GpuStep
  PROVE  /\ stream' \in Seq(Ops)
         /\ Len(stream) \in Nat \ {0}
         /\ Len(stream') = Len(stream) - 1
         /\ \A n \in 1..Len(stream') : stream'[n] = stream[n + 1]
         /\ Head(stream) = stream[1] /\ Head(stream) \in Ops
BY HeadTailProperties, EmptySeq DEF TypeOK, GpuStep

(* Moving a thread to another point of its call keeps pc well typed.       *)
LEMMA GotoType ==
  ASSUME TypeOK, NEW t \in Threads, NEW label \in PCs, Goto(t, label)
  PROVE  pc' \in [Threads -> PCs]
BY DEF TypeOK, Goto

-----------------------------------------------------------------------------
(* Type correctness. *)

(* The loops of both warmup() functions: the count stays in its range. *)
LEMMA IterationType ==
  ASSUME TypeOK, NEW t \in Threads, left[t] > 0, EndIteration(t)
  PROVE  /\ pc' \in [Threads -> PCs]
         /\ left' \in [Threads -> 0..MaxIterations]
         /\ tensor' \in [Threads -> Data]
<1>1. {"prepared", "idle"} \subseteq PCs
  BY DEF PCs
<1>2. pc' \in [Threads -> PCs]
  BY <1>1, GotoType DEF EndIteration
<1>3. left' \in [Threads -> 0..MaxIterations]
  BY BoundsAssumption DEF TypeOK, EndIteration
<1>4. tensor' \in [Threads -> Data]
  BY DEF TypeOK, EndIteration, Data
<1> QED
  BY <1>2, <1>3, <1>4

(* No step of crkit_infer, crkit_warmup_model or the GPU leaves the types. *)
LEMMA TypeStep ==
  ASSUME TypeOK, CallShape, Next
  PROVE  TypeOK'
<1> USE ValuesAssumption, BoundsAssumption DEF heap, params, gpu
<1>0. {"idle", "called", "scaled", "resized", "preprocessed", "prepared",
        "copied", "enqueued", "copyingOut", "synced", "inferred"} = PCs
  BY DEF PCs
<1>1. CASE GpuStep
  BY <1>1, StreamShrinks DEF GpuStep, Perform, Ops, TypeOK, Data
<1>2. ASSUME NEW t \in Threads, Advance(t)
      PROVE  TypeOK'
  <2>1. CASE ComputeScale(t) \/ ComputePadding(t) \/ FillTensor(t) \/ PassParams(t)
    <3>1. pc' \in [Threads -> PCs]
      BY <1>0, <2>1, GotoType DEF ComputeScale, ComputePadding, FillTensor, PassParams
    <3> QED
      BY <2>1, <3>1 DEF ComputeScale, ComputePadding, FillTensor, PassParams, TypeOK, Data, Geometry
  <2>2. CASE RunSession(t) \/ CollectOutput(t)
    <3>1. PICK data \in Data : Inferred(t, data)
      BY <2>2 DEF RunSession, CollectOutput, TypeOK
    <3>2. CASE image[t] = Dummy
      <4>1. left[t] > 0
        BY <2>2, <3>2 DEF RunSession, CollectOutput, CallShape, InBackend
      <4> QED
        BY <3>1, <3>2, <4>1, IterationType DEF Inferred, TypeOK
    <3>3. CASE image[t] # Dummy
      <4>1. pc' \in [Threads -> PCs]
        BY <1>0, <3>1, <3>3, GotoType DEF Inferred
      <4> QED
        BY <3>1, <3>3, <4>1 DEF Inferred, TypeOK, Data
    <3> QED
      BY <3>2, <3>3
  <2>3. CASE CopyIn(t) \/ Execute(t) \/ CopyOut(t)
    <3>1. PICK op \in Ops : Enqueue(t, op)
      BY <2>3 DEF CopyIn, Execute, CopyOut, CopyInOp, ExecuteOp, CopyOutOp, Ops, TypeOK, Data
    <3>2. stream' \in Seq(Ops) /\ Len(stream') <= MaxPending
      BY <3>1, StreamGrows, LenProperties DEF Enqueue, TypeOK
    <3>3. pc' \in [Threads -> PCs]
      BY <1>0, <2>3, GotoType DEF CopyIn, Execute, CopyOut
    <3> QED
      BY <3>1, <3>2, <3>3 DEF Enqueue, TypeOK
  <2>4. CASE Synchronize(t) \/ Postprocess(t)
    <3>1. pc' \in [Threads -> PCs]
      BY <1>0, <2>4, GotoType DEF Synchronize, Postprocess
    <3>2. CASE Synchronize(t)
      BY <3>1, <3>2 DEF Synchronize, TypeOK
    <3>3. CASE Postprocess(t)
      <4>1. [output |-> output[t], geometry |-> postParams] \in [output : Data, geometry : Geometry]
        BY DEF TypeOK
      <4>2. result' \in [Threads -> {None} \cup [output : Data, geometry : Geometry]]
        BY <3>3, <4>1 DEF Postprocess, TypeOK
      <4>3. output' \in [Threads -> Data]
        BY <3>3 DEF Postprocess, FreeOutput, TypeOK, Data
      <4> QED
        BY <3>1, <3>3, <4>2, <4>3 DEF Postprocess, TypeOK
    <3> QED
      BY <2>4, <3>2, <3>3
  <2> QED
    BY <1>2, <2>1, <2>2, <2>3, <2>4 DEF Advance
<1>3. ASSUME NEW t \in Threads, Failure(t)
      PROVE  TypeOK'
  <2>1. CASE InferFails(t)
    <3>1. CASE image[t] = Dummy
      <4>1. left[t] > 0
        BY <2>1, <3>1 DEF InferFails, CallShape, InBackend
      <4> QED
        BY <2>1, <3>1, <4>1, IterationType DEF InferFails, TypeOK
    <3>2. CASE image[t] # Dummy
      <4>1. pc' \in [Threads -> PCs]
        BY <1>0, <2>1, <3>2, GotoType DEF InferFails
      <4> QED
        BY <2>1, <3>2, <4>1 DEF InferFails, TypeOK, Data
    <3> QED
      BY <3>1, <3>2
  <2>2. CASE ~InferFails(t)
    <3>1. pc' \in [Threads -> PCs]
      BY <1>0, <1>3, <2>2, GotoType
         DEF Failure, PreprocessFails, InferThrows, PostprocessThrows, BuildResultThrows
    <3> QED
      BY <1>3, <2>2, <3>1 DEF Failure, PreprocessFails, InferThrows, PostprocessThrows,
                              BuildResultThrows, FreeOutput, TypeOK, Data
  <2> QED
    BY <2>1, <2>2
<1>4. ASSUME NEW t \in Threads, NewCall(t)
      PROVE  TypeOK'
  <2>1. pc' \in [Threads -> PCs]
    BY <1>0, <1>4, GotoType DEF NewCall, CallInfer, BeginWarmup
  <2>2. ASSUME NEW i \in Images, CallInfer(t, i)
        PROVE  TypeOK'
    BY <2>1, <2>2 DEF CallInfer, Begin, TypeOK, Data
  <2>3. ASSUME NEW n \in 1..MaxIterations, BeginWarmup(t, n)
        PROVE  TypeOK'
    BY <2>1, <2>3 DEF BeginWarmup, Begin, TypeOK, Data
  <2> QED
    BY <1>4, <2>2, <2>3 DEF NewCall
<1> QED
  BY <1>1, <1>2, <1>3, <1>4 DEF Next

(* A call goes on owning its image, its tensor and its warm-up count.      *)
LEMMA ShapeStep ==
  ASSUME TypeOK, CallShape, Next
  PROVE  CallShape'
<1> USE ValuesAssumption, BoundsAssumption
    DEF TypeOK, CallShape, InBackend, OnStream, BeforeInput, heap, params, gpu, Goto
<1>1. CASE GpuStep
  BY <1>1 DEF GpuStep
<1>2. ASSUME NEW t \in Threads, Advance(t)
      PROVE  CallShape'
  <2>1. CASE ComputeScale(t) \/ ComputePadding(t) \/ FillTensor(t) \/ PassParams(t)
    BY <2>1 DEF ComputeScale, ComputePadding, FillTensor, PassParams
  <2>2. CASE RunSession(t) \/ CollectOutput(t)
    BY <2>2 DEF RunSession, CollectOutput, Inferred, EndIteration
  <2>3. CASE CopyIn(t) \/ Execute(t) \/ CopyOut(t)
    BY <2>3 DEF Enqueue, CopyIn, Execute, CopyOut
  <2>4. CASE Synchronize(t) \/ Postprocess(t)
    BY <2>4 DEF Synchronize, Postprocess
  <2> QED
    BY <1>2, <2>1, <2>2, <2>3, <2>4 DEF Advance
<1>3. ASSUME NEW t \in Threads, Failure(t)
      PROVE  CallShape'
  <2>1. CASE InferFails(t)
    BY <2>1 DEF InferFails, EndIteration
  <2>2. CASE ~InferFails(t)
    BY <1>3, <2>2 DEF Failure, PreprocessFails, InferThrows, PostprocessThrows, BuildResultThrows
  <2> QED
    BY <2>1, <2>2
<1>4. ASSUME NEW t \in Threads, NewCall(t)
      PROVE  CallShape'
  BY <1>4 DEF NewCall, CallInfer, BeginWarmup, Begin
<1> QED
  BY <1>1, <1>2, <1>3, <1>4 DEF Next

(* A serialised application lets no second thread into the library.        *)
LEMMA BusyStep ==
  ASSUME TypeOK, AtMostOneBusy, Next
  PROVE  AtMostOneBusy'
<1> SUFFICES ASSUME ClientLock
             PROVE  \A u, v \in Threads : pc'[u] # "idle" /\ pc'[v] # "idle" => u = v
  BY DEF AtMostOneBusy
<1>1. CASE GpuStep
  BY <1>1 DEF GpuStep, AtMostOneBusy
<1>2. ASSUME NEW t \in Threads, Advance(t) \/ Failure(t)
      PROVE  \A u, v \in Threads : pc'[u] # "idle" /\ pc'[v] # "idle" => u = v
  <2>1. pc[t] # "idle"
    BY <1>2 DEF Advance, Failure, ComputeScale, ComputePadding, FillTensor, PassParams, RunSession,
                CopyIn, Execute, CopyOut, Synchronize, CollectOutput, Postprocess, PreprocessFails,
                InferFails, InferThrows, PostprocessThrows, BuildResultThrows
  <2>2. \E label : Goto(t, label)
    BY <1>2 DEF Advance, Failure, ComputeScale, ComputePadding, FillTensor, PassParams, RunSession,
                CopyIn, Execute, CopyOut, Synchronize, CollectOutput, Postprocess, PreprocessFails,
                InferFails, InferThrows, PostprocessThrows, BuildResultThrows, Inferred, EndIteration
  <2> QED
    BY <2>1, <2>2 DEF Goto, AtMostOneBusy, TypeOK
<1>3. ASSUME NEW t \in Threads, NewCall(t)
      PROVE  \A u, v \in Threads : pc'[u] # "idle" /\ pc'[v] # "idle" => u = v
  BY <1>3 DEF NewCall, CallInfer, BeginWarmup, Begin, Goto, TypeOK
<1> QED
  BY <1>1, <1>2, <1>3 DEF Next

(* Without exceptions, every exit of a call frees what the call allocated. *)
LEMMA HeapStep ==
  ASSUME TypeOK, CallShape, HeapShape, Next
  PROVE  HeapShape'
<1> SUFFICES ASSUME ~Exceptions
             PROVE  HeapShape'
  BY DEF HeapShape
<1> USE DEF TypeOK, HeapShape, BeforeInput, heap, Goto
<1>1. CASE GpuStep
  BY <1>1 DEF GpuStep
<1>2. ASSUME NEW t \in Threads, Advance(t)
      PROVE  HeapShape'
  <2>1. CASE ComputeScale(t) \/ ComputePadding(t) \/ FillTensor(t) \/ PassParams(t)
    BY <2>1 DEF ComputeScale, ComputePadding, FillTensor, PassParams
  <2>2. CASE RunSession(t) \/ CollectOutput(t)
    BY <2>2 DEF RunSession, CollectOutput, Inferred, EndIteration
  <2>3. CASE CopyIn(t) \/ Execute(t) \/ CopyOut(t)
    BY <2>3 DEF Enqueue, CopyIn, Execute, CopyOut
  <2>4. CASE Synchronize(t) \/ Postprocess(t)
    BY <2>4 DEF Synchronize, Postprocess, FreeOutput
  <2> QED
    BY <1>2, <2>1, <2>2, <2>3, <2>4 DEF Advance
<1>3. ASSUME NEW t \in Threads, Failure(t)
      PROVE  HeapShape'
  <2>1. CASE InferFails(t)
    BY <2>1 DEF InferFails, EndIteration
  <2>2. CASE PreprocessFails(t)
    BY <2>2 DEF PreprocessFails
  <2> QED
    BY <1>3, <2>1, <2>2 DEF Failure, InferThrows, PostprocessThrows, BuildResultThrows
<1>4. ASSUME NEW t \in Threads, NewCall(t)
      PROVE  HeapShape'
  BY <1>4 DEF NewCall, CallInfer, BeginWarmup, Begin
<1> QED
  BY <1>1, <1>2, <1>3, <1>4 DEF Next

(* Type correctness of the pipeline, whatever the threads do. *)
THEOREM TypeCorrect == Spec => []TypeOK
<1>1. Init => TypeOK /\ CallShape
  BY ValuesAssumption, BoundsAssumption, EmptySeq
     DEF Init, TypeOK, CallShape, Data, Geometry, GeometryOf, PCs, InBackend, OnStream, BeforeInput
<1>2. TypeOK /\ CallShape /\ [Next]_vars => TypeOK' /\ CallShape'
  <2> SUFFICES ASSUME TypeOK, CallShape, [Next]_vars
               PROVE  TypeOK' /\ CallShape'
    OBVIOUS
  <2>1. CASE Next
    BY <2>1, TypeStep, ShapeStep
  <2>2. CASE UNCHANGED vars
    BY <2>2 DEF vars, heap, params, gpu, TypeOK, CallShape
  <2> QED
    BY <2>1, <2>2
<1> QED
  BY <1>1, <1>2, PTL DEF Spec

-----------------------------------------------------------------------------
(* Serialised calls. *)

(* While a thread is inside, the others are idle before and after its step. *)
LEMMA Solo ==
  ASSUME TypeOK, AtMostOneBusy, ClientLock, NEW t \in Threads,
         Advance(t) \/ Failure(t) \/ NewCall(t)
  PROVE  \A u \in Threads \ {t} : pc[u] = "idle" /\ pc'[u] = "idle"
<1>1. CASE NewCall(t)
  BY <1>1 DEF NewCall, CallInfer, BeginWarmup, Begin, Goto, TypeOK
<1>2. CASE Advance(t) \/ Failure(t)
  <2>1. pc[t] # "idle"
    BY <1>2 DEF Advance, Failure, ComputeScale, ComputePadding, FillTensor, PassParams, RunSession,
                CopyIn, Execute, CopyOut, Synchronize, CollectOutput, Postprocess, PreprocessFails,
                InferFails, InferThrows, PostprocessThrows, BuildResultThrows
  <2>2. \E label : Goto(t, label)
    BY <1>2 DEF Advance, Failure, ComputeScale, ComputePadding, FillTensor, PassParams, RunSession,
                CopyIn, Execute, CopyOut, Synchronize, CollectOutput, Postprocess, PreprocessFails,
                InferFails, InferThrows, PostprocessThrows, BuildResultThrows, Inferred, EndIteration
  <2> QED
    BY <2>1, <2>2 DEF Goto, AtMostOneBusy, TypeOK
<1> QED
  BY <1>1, <1>2

(* The geometry a serialised call set is the one its post-processing reads. *)
LEMMA GeometryStep ==
  ASSUME TypeOK, CallShape, AtMostOneBusy, GeometryFollows, Next
  PROVE  GeometryFollows'
<1> SUFFICES ASSUME ClientLock
             PROVE  GeometryFollows'
  BY DEF GeometryFollows
<1> USE DEF GeometryFollows, InBackend, params, Goto
<1>1. CASE GpuStep
  BY <1>1 DEF GpuStep
<1>2. ASSUME NEW t \in Threads, Advance(t)
      PROVE  GeometryFollows'
  <2>0. \A u \in Threads \ {t} : pc'[u] = "idle"
    BY <1>2, Solo
  <2> USE DEF TypeOK
  <2>1. CASE ComputeScale(t)
    BY <2>0, <2>1 DEF ComputeScale, Geometry
  <2>2. CASE ComputePadding(t)
    <3>1. preParams' = GeometryOf(image[t])
      BY <2>2 DEF ComputePadding, Geometry, GeometryOf
    <3> QED
      BY <2>0, <2>2, <3>1 DEF ComputePadding
  <2>3. CASE FillTensor(t) \/ PassParams(t)
    BY <2>0, <2>3 DEF FillTensor, PassParams
  <2>4. CASE RunSession(t) \/ CollectOutput(t)
    BY <2>0, <2>4 DEF RunSession, CollectOutput, Inferred, EndIteration
  <2>5. CASE CopyIn(t) \/ Execute(t) \/ CopyOut(t)
    BY <2>0, <2>5 DEF Enqueue, CopyIn, Execute, CopyOut
  <2>6. CASE Synchronize(t) \/ Postprocess(t)
    BY <2>0, <2>6 DEF Synchronize, Postprocess
  <2> QED
    BY <1>2, <2>1, <2>2, <2>3, <2>4, <2>5, <2>6 DEF Advance
<1>3. ASSUME NEW t \in Threads, Failure(t)
      PROVE  GeometryFollows'
  <2>0. \A u \in Threads \ {t} : pc'[u] = "idle"
    BY <1>3, Solo
  <2>1. CASE InferFails(t)
    BY <2>0, <2>1 DEF InferFails, EndIteration, TypeOK
  <2>2. CASE ~InferFails(t)
    BY <1>3, <2>0, <2>2 DEF Failure, PreprocessFails, InferThrows, PostprocessThrows,
                            BuildResultThrows, TypeOK
  <2> QED
    BY <2>1, <2>2
<1>4. ASSUME NEW t \in Threads, NewCall(t)
      PROVE  GeometryFollows'
  <2>0. \A u \in Threads \ {t} : pc'[u] = "idle"
    BY <1>4, Solo
  <2> QED
    BY <1>4, <2>0 DEF NewCall, CallInfer, BeginWarmup, Begin, TypeOK
<1> QED
  BY <1>1, <1>2, <1>3, <1>4 DEF Next

(* What enqueueing each of the three operations promises of the stream. *)
LEMMA Enqueues ==
  ASSUME TypeOK, NEW t \in Threads, NEW i,
         Backend = "tensorrt"
  PROVE  /\ CopyIn(t) /\ tensor[t] = i => InputLoaded(i)'
         /\ Execute(t) /\ InputLoaded(i) => OutputComputed(i)'
         /\ CopyOut(t) /\ OutputComputed(i) => OutputFetched(t, i)'
<1>0. Len(stream) \in Nat
  BY LenProperties DEF TypeOK
<1>1. ASSUME CopyIn(t), tensor[t] = i
      PROVE  InputLoaded(i)'
  <2>1. CopyInOp(t, i) \in Ops
    BY <1>1 DEF CopyInOp, Ops, TypeOK
  <2>2. stream' = Append(stream, CopyInOp(t, i))
    BY <1>1 DEF CopyIn, Enqueue
  <2> QED
    BY <1>0, <2>1, <2>2, StreamGrows DEF InputLoaded, LastOp, CopyInOp
<1>2. ASSUME Execute(t), InputLoaded(i)
      PROVE  OutputComputed(i)'
  <2>1. ExecuteOp(t) \in Ops
    BY DEF ExecuteOp, Ops, Data
  <2>2. stream' = Append(stream, ExecuteOp(t)) /\ UNCHANGED deviceIn
    BY <1>2 DEF Execute, Enqueue
  <2> QED
    BY <1>0, <1>2, <2>1, <2>2, StreamGrows
       DEF InputLoaded, OutputComputed, LastOp, OpBefore, ExecuteOp
<1>3. ASSUME CopyOut(t), OutputComputed(i)
      PROVE  OutputFetched(t, i)'
  <2>1. CopyOutOp(t) \in Ops
    BY DEF CopyOutOp, Ops, Data
  <2>2. stream' = Append(stream, CopyOutOp(t)) /\ UNCHANGED <<deviceIn, deviceOut>>
    BY <1>3 DEF CopyOut, Enqueue
  <2>3. /\ Len(stream') = Len(stream) + 1
        /\ \A n \in 1..Len(stream) : stream'[n] = stream[n]
        /\ stream'[Len(stream')] = CopyOutOp(t)
    BY <2>1, <2>2, StreamGrows
  <2>4. /\ LastOp' = CopyOutOp(t)
        /\ Len(stream) > 0 => OpBefore(1)' = LastOp
        /\ Len(stream) > 1 => OpBefore(2)' = OpBefore(1)
    BY <1>0, <2>3 DEF LastOp, OpBefore
  <2>5. CopyOutOp(t).kind = "copyOut" /\ CopyOutOp(t).by = t
    BY DEF CopyOutOp
  <2>6. Len(stream') > 1 => Len(stream) > 0
    BY <1>0, <2>3
  <2>7. Len(stream') > 2 => Len(stream) > 1
    BY <1>0, <2>3
  <2>8. /\ Len(stream') # 0
        /\ Len(stream') = 1 => Len(stream) = 0
        /\ Len(stream') = 2 => Len(stream) = 1
    <3>1. \A m \in Nat : m + 1 # 0 /\ (m + 1 = 1 => m = 0) /\ (m + 1 = 2 => m = 1)
      OBVIOUS
    <3> QED
      BY <1>0, <2>3, <3>1
  <2>9. deviceIn' = deviceIn /\ deviceOut' = deviceOut
    BY <2>2
  <2>10. LastOp'.kind = "copyOut" /\ LastOp'.by = t
    BY <2>4, <2>5
  <2>11. Len(stream') = 1 => deviceOut' = i
    BY <1>3, <2>8, <2>9 DEF OutputComputed
  <2>12. Len(stream') > 1 => OpBefore(1)'.kind = "execute"
    BY <1>3, <2>4, <2>6 DEF OutputComputed
  <2>13. Len(stream') = 2 => deviceIn' = i
    BY <1>3, <2>8, <2>9 DEF OutputComputed
  <2>14. Len(stream') > 2 => OpBefore(2)'.kind = "copyIn" /\ OpBefore(2)'.data = i
    BY <1>3, <2>4, <2>7 DEF OutputComputed
  <2> QED
    BY <2>8, <2>10, <2>11, <2>12, <2>13, <2>14 DEF OutputFetched
<1> QED
  BY <1>1, <1>2, <1>3

(* Executing the head of the stream keeps each of those promises. *)
LEMMA ExecutesInOrder ==
  ASSUME TypeOK, GpuStep, NEW t \in Threads, NEW i
  PROVE  /\ InputLoaded(i) => InputLoaded(i)'
         /\ OutputComputed(i) => OutputComputed(i)'
         /\ OutputFetched(t, i) => OutputFetched(t, i)'
<1>1. /\ Len(stream) \in Nat \ {0} /\ Len(stream') = Len(stream) - 1
      /\ \A n \in 1..Len(stream') : stream'[n] = stream[n + 1]
      /\ Perform(stream[1])
  BY StreamShrinks DEF GpuStep
<1>2. InputLoaded(i) => InputLoaded(i)'
  BY <1>1 DEF InputLoaded, LastOp, Perform
<1>3. OutputComputed(i) => OutputComputed(i)'
  BY <1>1 DEF OutputComputed, LastOp, OpBefore, Perform
<1>4. OutputFetched(t, i) => OutputFetched(t, i)'
  <2>1. /\ Len(stream') > 0 => LastOp' = LastOp
        /\ Len(stream') > 1 => OpBefore(1)' = OpBefore(1)
        /\ Len(stream') > 2 => OpBefore(2)' = OpBefore(2)
        /\ Len(stream) = 1 => stream[1] = LastOp
        /\ Len(stream) = 2 => stream[1] = OpBefore(1)
        /\ Len(stream) = 3 => stream[1] = OpBefore(2)
    BY <1>1 DEF LastOp, OpBefore
  <2> QED
    BY <1>1, <2>1 DEF OutputFetched, Perform
<1> QED
  BY <1>2, <1>3, <1>4

(* The stream keeps its promise to the call in progress, at every step of  *)
(* TensorRTBackend::infer and of the GPU.                                  *)
LEMMA StreamStep ==
  ASSUME TypeOK, CallShape, AtMostOneBusy, StreamFollows, Next
  PROVE  StreamFollows'
<1> SUFFICES ASSUME ClientLock
             PROVE  StreamFollows'
  BY DEF StreamFollows
<1>0. Len(stream) \in Nat
  BY LenProperties DEF TypeOK
<1>1. CASE GpuStep
  <2> SUFFICES ASSUME NEW t \in Threads
               PROVE  /\ pc[t] = "copied"     => InputLoaded(image[t])'
                      /\ pc[t] = "enqueued"   => OutputComputed(image[t])'
                      /\ pc[t] = "copyingOut" => OutputFetched(t, image[t])'
                      /\ pc[t] = "synced"     => Len(stream') = 0 /\ hostOut' = image[t]
    BY <1>1 DEF GpuStep, StreamFollows, InputLoaded, OutputComputed, OutputFetched
  <2>1. pc[t] # "synced"
    BY <1>1, StreamShrinks DEF StreamFollows
  <2>2. /\ InputLoaded(image[t]) => InputLoaded(image[t])'
        /\ OutputComputed(image[t]) => OutputComputed(image[t])'
        /\ OutputFetched(t, image[t]) => OutputFetched(t, image[t])'
    BY <1>1, ExecutesInOrder DEF GpuStep, InputLoaded, OutputComputed, OutputFetched
  <2> QED
    BY <2>1, <2>2 DEF StreamFollows
<1> SUFFICES ASSUME NEW t \in Threads, Advance(t) \/ Failure(t) \/ NewCall(t)
             PROVE  StreamFollows'
  BY <1>1 DEF Next
<1>2. \A u \in Threads \ {t} : pc[u] = "idle" /\ pc'[u] = "idle"
  BY Solo
<1>3. CASE CopyIn(t)
  <2>1. InputLoaded(image[t])'
    BY <1>3, Enqueues DEF CopyIn, Enqueue, CallShape, InBackend
  <2> QED
    BY <1>2, <1>3, <2>1 DEF CopyIn, Enqueue, Goto, StreamFollows, TypeOK
<1>4. CASE Execute(t)
  <2>1. OutputComputed(image[t])'
    BY <1>4, Enqueues DEF Execute, Enqueue, StreamFollows
  <2> QED
    BY <1>2, <1>4, <2>1 DEF Execute, Enqueue, Goto, StreamFollows, TypeOK
<1>5. CASE CopyOut(t)
  <2>1. OutputFetched(t, image[t])'
    BY <1>5, Enqueues DEF CopyOut, Enqueue, StreamFollows
  <2> QED
    BY <1>2, <1>5, <2>1 DEF CopyOut, Enqueue, Goto, StreamFollows, TypeOK
<1>6. CASE Synchronize(t)
  <2>1. OutputFetched(t, image[t])
    BY <1>6 DEF Synchronize, StreamFollows
  <2>2. Len(stream) = 0
    BY <1>0, <1>6, <2>1 DEF Synchronize, StreamDrained, OutputFetched, LastOp
  <2> QED
    BY <1>2, <1>6, <2>1, <2>2 DEF Synchronize, OutputFetched, Goto, StreamFollows, gpu, TypeOK
<1>7. ASSUME ~CopyIn(t), ~Execute(t), ~CopyOut(t), ~Synchronize(t)
      PROVE  StreamFollows'
  <2>1. pc'[t] \notin OnStream
    BY <1>7 DEF Advance, Failure, NewCall, ComputeScale, ComputePadding, FillTensor, PassParams,
                RunSession, CollectOutput, Postprocess, PreprocessFails, InferFails, InferThrows,
                PostprocessThrows, BuildResultThrows, CallInfer, BeginWarmup, Begin, Inferred,
                EndIteration, Goto, OnStream, InBackend, TypeOK
  <2> QED
    BY <1>2, <2>1 DEF StreamFollows, OnStream, InBackend
<1> QED
  BY <1>3, <1>4, <1>5, <1>6, <1>7

(* The output a call carries to post-processing is its own. *)
LEMMA OutputStep ==
  ASSUME TypeOK, CallShape, AtMostOneBusy, StreamFollows, OwnOutput, Next
  PROVE  OwnOutput'
<1> SUFFICES ASSUME ClientLock \/ Backend = "onnxruntime"
             PROVE  \A t \in Threads : pc'[t] = "inferred" => output'[t] = image'[t]
  BY DEF OwnOutput
<1>1. CASE GpuStep
  BY <1>1 DEF GpuStep, OwnOutput, heap
<1> SUFFICES ASSUME NEW t \in Threads, Advance(t) \/ Failure(t) \/ NewCall(t)
             PROVE  \A u \in Threads : pc'[u] = "inferred" => output'[u] = image'[u]
  BY <1>1 DEF Next
<1>2. CASE RunSession(t) \/ CollectOutput(t)
  <2>1. PICK data : Inferred(t, data) /\ data = image[t]
    BY <1>2 DEF RunSession, CollectOutput, CallShape, StreamFollows, InBackend, OnStream
  <2> QED
    BY <2>1 DEF Inferred, EndIteration, Goto, OwnOutput, TypeOK
<1>3. ASSUME ~RunSession(t), ~CollectOutput(t)
      PROVE  \A u \in Threads : pc'[u] = "inferred" => output'[u] = image'[u]
  <2>1. \A u \in Threads : pc'[u] = "inferred" =>
           pc[u] = "inferred" /\ output'[u] = output[u] /\ image'[u] = image[u]
    BY <1>3 DEF Advance, Failure, NewCall, ComputeScale, ComputePadding, FillTensor, PassParams,
                CopyIn, Execute, CopyOut, Enqueue, Synchronize,
                Postprocess, PreprocessFails, InferFails, InferThrows, PostprocessThrows,
                BuildResultThrows, CallInfer, BeginWarmup, Begin, EndIteration, FreeOutput,
                heap, Goto, TypeOK
  <2> QED
    BY <2>1 DEF OwnOutput
<1> QED
  BY <1>2, <1>3

(* A serialised crkit_infer stores only its own image's detections.        *)
LEMMA ResultStep ==
  ASSUME TypeOK, GeometryFollows, OwnOutput, CallShape, SerialResults, Next
  PROVE  SerialResults'
<1> SUFFICES ASSUME ClientLock, NEW u \in Threads, result'[u] # None
             PROVE  result'[u] = [output |-> image'[u], geometry |-> GeometryOf(image'[u])]
  BY DEF SerialResults, ResultOfOwnCall, GeometryOf
<1> USE DEF SerialResults, ResultOfOwnCall
<1>1. CASE GpuStep
  BY <1>1 DEF GpuStep
<1> SUFFICES ASSUME NEW t \in Threads, Advance(t) \/ Failure(t) \/ NewCall(t)
             PROVE  result'[u] = [output |-> image'[u], geometry |-> GeometryOf(image'[u])]
  BY <1>1 DEF Next
<1>2. CASE Postprocess(t)
  <2>1. output[t] = image[t] /\ postParams = GeometryOf(image[t])
    BY <1>2, ValuesAssumption DEF Postprocess, OwnOutput, GeometryFollows, CallShape
  <2> QED
    BY <1>2, <2>1 DEF Postprocess, TypeOK
<1>3. CASE NewCall(t)
  BY <1>3 DEF NewCall, CallInfer, BeginWarmup, Begin, TypeOK
<1>4. ASSUME ~Postprocess(t), ~NewCall(t)
      PROVE  image' = image /\ result' = result
  BY <1>4 DEF Advance, Failure, ComputeScale, ComputePadding, FillTensor, PassParams,
              RunSession, CollectOutput, Inferred, CopyIn, Execute, CopyOut, Enqueue, Synchronize,
              PreprocessFails, InferFails, InferThrows, PostprocessThrows, BuildResultThrows
<1> QED
  BY <1>2, <1>3, <1>4

(* Without a lock, ONNX Runtime's outputs are still the caller's own. *)
LEMMA OnnxOutputStep ==
  ASSUME TypeOK, Backend = "onnxruntime", OwnOutput, OutputOfOwnImage, Next
  PROVE  OutputOfOwnImage'
<1> SUFFICES ASSUME NEW u \in Threads, result'[u] # None
             PROVE  result'[u].output = image'[u]
  BY DEF OutputOfOwnImage
<1> USE DEF OutputOfOwnImage
<1>1. CASE GpuStep
  BY <1>1 DEF GpuStep
<1> SUFFICES ASSUME NEW t \in Threads, Advance(t) \/ Failure(t) \/ NewCall(t)
             PROVE  result'[u].output = image'[u]
  BY <1>1 DEF Next
<1>2. CASE Postprocess(t)
  BY <1>2 DEF Postprocess, OwnOutput, TypeOK
<1>3. CASE NewCall(t)
  BY <1>3 DEF NewCall, CallInfer, BeginWarmup, Begin, TypeOK
<1>4. ASSUME ~Postprocess(t), ~NewCall(t)
      PROVE  image' = image /\ result' = result
  BY <1>4 DEF Advance, Failure, ComputeScale, ComputePadding, FillTensor, PassParams,
              RunSession, CollectOutput, Inferred, CopyIn, Execute, CopyOut, Enqueue, Synchronize,
              PreprocessFails, InferFails, InferThrows, PostprocessThrows, BuildResultThrows
<1> QED
  BY <1>2, <1>3, <1>4

-----------------------------------------------------------------------------
(* The inductive invariant holds: serialised or not, with either backend. *)
LEMMA InvInit == Init => TypeOK /\ PipelineInv
<1> SUFFICES ASSUME Init
             PROVE  TypeOK /\ PipelineInv
  OBVIOUS
<1>1. TypeOK
  BY ValuesAssumption, BoundsAssumption, EmptySeq DEF Init, TypeOK, Data, Geometry, GeometryOf, PCs
<1>2. CallShape /\ HeapShape
  BY DEF Init, CallShape, HeapShape, InBackend, OnStream, BeforeInput
<1>3. AtMostOneBusy /\ GeometryFollows /\ StreamFollows /\ OwnOutput /\ SerialResults
  BY DEF Init, AtMostOneBusy, GeometryFollows, StreamFollows, OwnOutput, SerialResults,
         ResultOfOwnCall, InBackend
<1> QED
  BY <1>1, <1>2, <1>3 DEF PipelineInv

(* No step breaks the inductive invariant.                                 *)
LEMMA InvStep == TypeOK /\ PipelineInv /\ [Next]_vars => TypeOK' /\ PipelineInv'
<1> SUFFICES ASSUME TypeOK, PipelineInv, [Next]_vars
             PROVE  TypeOK' /\ PipelineInv'
  OBVIOUS
<1>1. CASE Next
  BY <1>1, TypeStep, ShapeStep, HeapStep, BusyStep, GeometryStep, StreamStep, OutputStep, ResultStep
     DEF PipelineInv
<1>2. CASE UNCHANGED vars
  <2> USE <1>2 DEF vars, heap, params, gpu, PipelineInv
  <2>1. TypeOK'
    BY DEF TypeOK
  <2>2. CallShape' /\ HeapShape' /\ AtMostOneBusy' /\ GeometryFollows' /\ OwnOutput' /\ SerialResults'
    BY DEF CallShape, HeapShape, AtMostOneBusy, GeometryFollows, OwnOutput, SerialResults,
           ResultOfOwnCall
  <2>3. StreamFollows'
    BY DEF StreamFollows, InputLoaded, OutputComputed, OutputFetched, LastOp, OpBefore
  <2> QED
    BY <2>1, <2>2, <2>3
<1> QED
  BY <1>1, <1>2

(* The inductive invariant of crkit_infer and crkit_warmup_model: what a call *)
(* owns, whose geometry the shared fields hold, what the stream will compute. *)
THEOREM PipelineInvariant == Spec => [](TypeOK /\ PipelineInv)
BY InvInit, InvStep, PTL DEF Spec

(* If the application serialises its calls on a model handle, every result *)
(* crkit_infer stores belongs to the image of that call, output and        *)
(* geometry both, with either backend and after any failures.              *)
THEOREM SerialisedResultsCorrect ==
  ASSUME ClientLock
  PROVE  Spec => []ResultOfOwnCall
<1>1. PipelineInv => ResultOfOwnCall
  BY DEF PipelineInv, SerialResults
<1> QED
  BY <1>1, PipelineInvariant, PTL

(* With ONNX Runtime, threads that share a handle without any lock still   *)
(* get the network's output for their own image (ONNXRuntimeBackend::infer *)
(* keeps nothing between calls); their coordinates are another matter.     *)
THEOREM OnnxOutputsCorrect ==
  ASSUME Backend = "onnxruntime"
  PROVE  Spec => []OutputOfOwnImage
<1>1. Init => OutputOfOwnImage
  BY DEF Init, OutputOfOwnImage
<1>2. TypeOK /\ PipelineInv /\ OutputOfOwnImage /\ [Next]_vars => OutputOfOwnImage'
  <2>1. CASE UNCHANGED vars
    BY <2>1 DEF vars, OutputOfOwnImage
  <2> QED
    BY <2>1, OnnxOutputStep DEF PipelineInv
<1> QED
  BY <1>1, <1>2, PipelineInvariant, PTL DEF Spec

(* As long as nothing throws, every way out of a call, success or failure, *)
(* frees the tensors it allocated: with or without a lock.                 *)
THEOREM NoLeakWithoutExceptions ==
  ASSUME ~Exceptions
  PROVE  Spec => []TensorsReleased
<1>1. PipelineInv => TensorsReleased
  BY DEF PipelineInv, HeapShape, TensorsReleased, BeforeInput
<1> QED
  BY <1>1, PipelineInvariant, PTL

(* If calls are serialised, the pinned buffer a call is about to copy from *)
(* is not written between its synchronisation and its memcpy.              *)
THEOREM SerialisedHostBufferStable ==
  ASSUME ClientLock
  PROVE  Spec => HostBufferStable
<1>1. TypeOK /\ PipelineInv /\ [Next]_vars
        => [\A t \in Threads : pc[t] = "synced" => hostOut' = hostOut]_vars
  <2> SUFFICES ASSUME TypeOK, PipelineInv, Next, NEW t \in Threads, pc[t] = "synced"
               PROVE  hostOut' = hostOut
    OBVIOUS
  <2>1. ~GpuStep
    BY StreamShrinks DEF PipelineInv, StreamFollows
  <2> QED
    BY <2>1 DEF Next, Advance, Failure, NewCall, CallInfer, BeginWarmup, ComputeScale, ComputePadding,
                FillTensor, PassParams, RunSession, CollectOutput, Inferred, CopyIn, Execute, CopyOut,
                Enqueue, Synchronize, Postprocess, PreprocessFails, InferFails, InferThrows,
                PostprocessThrows, BuildResultThrows, gpu
<1> QED
  BY <1>1, PipelineInvariant, PTL DEF Spec, HostBufferStable

-----------------------------------------------------------------------------
(* Refinement of InferService. *)

(* A step that keeps t inside, or ends its call, as the service sees it. *)
LEMMA StepOfService ==
  ASSUME TypeOK, CallShape, NEW t \in Threads, pc[t] # "idle", image' = image,
         NEW label \in PCs, Goto(t, label)
  PROVE  /\ image[t] # None
         /\ Awaited[t] = image[t]
         /\ label # "idle" => Awaited' = Awaited
         /\ label = "idle" => Awaited' = [Awaited EXCEPT ![t] = None]
<1>1. image[t] # None
  BY ValuesAssumption DEF CallShape, TypeOK, PCs, BeforeInput, InBackend
<1>2. Awaited[t] = image[t]
  BY DEF Awaited
<1>3. label # "idle" => Awaited' = Awaited
  BY DEF Awaited, Goto, TypeOK
<1>4. label = "idle" => Awaited' = [Awaited EXCEPT ![t] = None]
  BY DEF Awaited, Goto, TypeOK
<1> QED
  BY <1>1, <1>2, <1>3, <1>4

(* Each step of the pipeline is a step of the service, or invisible to it. *)
LEMMA ServiceStep ==
  ASSUME ClientLock, TypeOK, PipelineInv, [Next]_vars
  PROVE  [Service!Next]_(Service!vars)
<1> USE DEF Service!vars, PipelineInv
<1>0. {"idle", "called", "scaled", "resized", "preprocessed", "prepared",
        "copied", "enqueued", "copyingOut", "synced", "inferred"} = PCs
  BY DEF PCs
<1>1. CASE UNCHANGED vars
  BY <1>1 DEF vars, Awaited
<1>2. CASE GpuStep
  BY <1>2 DEF GpuStep, Awaited
<1> SUFFICES ASSUME NEW t \in Threads, Advance(t) \/ Failure(t) \/ NewCall(t)
             PROVE  [Service!Next]_(Service!vars)
  BY <1>1, <1>2 DEF Next
<1>3. CASE Postprocess(t)
  <2>1. output[t] = image[t] /\ postParams = GeometryOf(image[t]) /\ image[t] \in Images
    BY <1>3, ValuesAssumption DEF Postprocess, OwnOutput, GeometryFollows, CallShape
  <2>2. Awaited[t] = image[t] /\ Awaited' = [Awaited EXCEPT ![t] = None]
    BY <1>0, <1>3, StepOfService DEF Postprocess
  <2>3. Service!Succeed(t)
    BY <1>3, <2>1, <2>2 DEF Postprocess, Service!Succeed, Service!Answer, GeometryOf
  <2> QED
    BY <2>3 DEF Service!Next, Service!Return
<1>4. ASSUME NEW i \in Images \cup {Dummy}, pc[t] = "idle", NEW label \in PCs, label # "idle",
             Goto(t, label), image' = [image EXCEPT ![t] = i], result' = [result EXCEPT ![t] = None]
      PROVE  Service!Next
  <2>1. Awaited[t] = None /\ Awaited' = [Awaited EXCEPT ![t] = i]
    BY <1>4 DEF Awaited, Goto, TypeOK
  <2>2. Service!Call(t, i)
    BY <1>4, <2>1 DEF Service!Call
  <2> QED
    BY <2>2 DEF Service!Next
<1>5. CASE NewCall(t)
  <2>1. ASSUME NEW i \in Images, CallInfer(t, i)
        PROVE  Service!Next
    BY <1>0, <1>4, <2>1 DEF CallInfer, Begin
  <2>2. ASSUME NEW n \in 1..MaxIterations, BeginWarmup(t, n)
        PROVE  Service!Next
    BY <1>0, <1>4, <2>2 DEF BeginWarmup, Begin
  <2> QED
    BY <1>5, <2>1, <2>2 DEF NewCall
<1>6. ASSUME ~Postprocess(t), ~NewCall(t)
      PROVE  [Service!Next]_(Service!vars)
  <2>1. /\ pc[t] # "idle" /\ image' = image /\ result' = result
    BY <1>6 DEF Advance, Failure, ComputeScale, ComputePadding, FillTensor, PassParams,
                RunSession, CollectOutput, Inferred, CopyIn, Execute, CopyOut, Enqueue, Synchronize,
                PreprocessFails, InferFails, InferThrows, PostprocessThrows, BuildResultThrows
  <2>2. PICK label \in PCs : Goto(t, label)
    BY <1>0, <1>6 DEF Advance, Failure, ComputeScale, ComputePadding, FillTensor, PassParams,
                RunSession, CollectOutput, Inferred, EndIteration, CopyIn, Execute, CopyOut,
                Synchronize, PreprocessFails, InferFails, InferThrows, PostprocessThrows,
                BuildResultThrows
  <2>3. CASE label # "idle"
    BY <2>1, <2>2, <2>3, StepOfService
  <2>4. CASE label = "idle"
    <3>1. Service!Fail(t)
      BY <2>1, <2>2, <2>4, StepOfService DEF Service!Fail
    <3> QED
      BY <3>1 DEF Service!Next, Service!Return
  <2> QED
    BY <2>3, <2>4
<1> QED
  BY <1>3, <1>5, <1>6

(* A model handle whose calls the application serialises is the service    *)
(* InferService describes: every call is answered for its own image, in    *)
(* its own geometry, or fails (the safety part; TLC checks that it ends).  *)
THEOREM SerialisedRefinesService ==
  ASSUME ClientLock
  PROVE  Spec => ServiceSpec
<1>1. Init => Service!Init
  BY DEF Init, Service!Init, Awaited
<1> QED
  BY <1>1, ServiceStep, PipelineInvariant, PTL DEF Spec, ServiceSpec, Service!Spec
=============================================================================
