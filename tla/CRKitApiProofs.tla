--------------------------- MODULE CRKitApiProofs ---------------------------
(***************************************************************************)
(* Proofs about CRKitApi, for any threads, networks, images, addresses,    *)
(* builds and batches.                                                     *)
(***************************************************************************)
EXTENDS CRKitApi, FiniteSetTheorems, TLAPS

Args == [engine : Engines \cup {None}, model : Models \cup {None},
         images : Seq(Images), many : BOOLEAN]
BatchesOf == [images : Seq(Images), results : Seq(Results)]

(* There is an object where the heap is neither free nor lost. *)
Live(v) == v # None /\ v # Lost
USE DEF Live, Exists

(* TypeOK, and what it leaves out. *)
HeapTypes ==
  /\ build \in Builds
  /\ heap \in [Objects -> EngineObjects \cup ModelObjects \cup ResultObjects \cup {None, Lost}]
  /\ \A e \in Engines : Live(heap[e]) => heap[e] \in EngineObjects /\ heap[e].backend \in build
  /\ \A m \in Models : Live(heap[m]) => heap[m] \in ModelObjects
  /\ \A r \in Results : Live(heap[r]) => heap[r] \in ResultObjects

CallTypes ==
  /\ at \in [Threads -> Places]
  /\ arg \in [Threads -> Args]
  /\ array \in [Threads -> Seq(Results)]
  /\ status \in [Threads -> {"SUCCESS", "FAILED", "SILENT"}]

OtherTypes ==
  /\ batch \in [Threads -> BatchesOf]
  /\ held \subseteq Objects
  /\ errorMutex \in Threads \cup {None}
  /\ lastError \in [Threads -> {"older", "own", "other"}]

Types == HeapTypes /\ CallTypes /\ OtherTypes

(* What a call works on at each place.  The results of a batch are in its  *)
(* array until it is handed over, and then there is room for it.           *)
Inferring == {"imread", "preprocess", "inference", "postprocess"}
Place(t) ==
  /\ at[t] \in {"idle", "reading"} => arg[t] = NoArg
  /\ at[t] = "initializing" => arg[t].engine \in Engines
  /\ at[t] = "loading" => /\ arg[t].engine \in Engines /\ arg[t].model \in Models
                          /\ Live(heap[arg[t].model])
                          /\ heap[arg[t].model].engine = arg[t].engine
  /\ at[t] \in Inferring => Len(array[t]) < Len(arg[t].images)
  /\ at[t] \in Inferring \cup {"warmup"} => arg[t].model \in Models \cap held
  /\ at[t] \in {"initializing", "loading", "warmup"} => ~arg[t].many
  /\ at[t] = "cleanup" => arg[t].many
  /\ arg[t].many => batch[t] = NoBatch
  /\ ~arg[t].many => array[t] = <<>>
  /\ Len(array[t]) <= Len(arg[t].images)

(* Who owns an engine, a model, a result. *)
Initializes(t, e) == at[t] = "initializing" /\ arg[t].engine = e
EngineOwned(e) ==
  /\ Live(heap[e]) <=> e \in held \/ \E t \in Threads : Initializes(t, e)
  /\ \A t \in Threads : Initializes(t, e) => /\ e \notin held
                                             /\ \A u \in Threads : Initializes(u, e) => u = t

Loads(t, m) == at[t] = "loading" /\ arg[t].model = m
ModelOwned(m) ==
  /\ Live(heap[m]) <=> m \in held \/ \E t \in Threads : Loads(t, m)
  /\ \A t \in Threads : Loads(t, m) => /\ m \notin held
                                       /\ \A u \in Threads : Loads(u, m) => u = t

InArray(t, k, r) == k \in 1..Len(array[t]) /\ array[t][k] = r
InBatch(t, k, r) == k \in 1..Len(batch[t].results) /\ batch[t].results[k] = r
ResultOwned(r) ==
  /\ Live(heap[r]) <=> \/ r \in held
                        \/ \E t \in Threads, k \in Nat : InArray(t, k, r) \/ InBatch(t, k, r)
  /\ \A t, u \in Threads, j, k \in Nat :
       /\ InArray(t, j, r) => r \notin held /\ ~InBatch(u, k, r) /\ (InArray(u, k, r) => t = u /\ j = k)
       /\ InBatch(t, j, r) => r \notin held /\ (InBatch(u, k, r) => t = u /\ j = k)

(* The engine of a model outlives it, and has no other model; once the     *)
(* model has been handed over the engine holds its network.                *)
OfNetwork(e, n) == /\ heap[e].loaded = n
                   /\ heap[e].backend = "onnxruntime" => heap[e].names = n /\ heap[e].outputs = n
ModelServed(m) ==
  Live(heap[m]) =>
    /\ heap[m].engine \in held
    /\ \A k \in Models : Live(heap[k]) /\ heap[k].engine = heap[m].engine => k = m
    /\ m \in held => OfNetwork(heap[m].engine, heap[m].network)
    /\ heap[heap[m].engine].backend = "onnxruntime" =>
         {heap[heap[m].engine].loaded, heap[heap[m].engine].names, heap[heap[m].engine].outputs}
           \subseteq {heap[m].network, None}

(* The results of a batch are those of its images, in their order. *)
InOrder(t) ==
  /\ \A k \in 1..Len(array[t]) : heap[array[t][k]] = [image |-> arg[t].images[k]]
  /\ Len(batch[t].results) = Len(batch[t].images)
  /\ \A k \in 1..Len(batch[t].results) : heap[batch[t].results[k]] = [image |-> batch[t].images[k]]

(* A call that failed with a message has set it. *)
HasMessage(t) == status[t] = "FAILED" /\ at[t] \in {"idle", "reading", "logging", "cleanup"}
                   => lastError[t] # "older"

ApiInv == /\ Types
          /\ \A t \in Threads : Place(t)
          /\ \A e \in Engines : EngineOwned(e)
          /\ \A m \in Models : ModelOwned(m)
          /\ \A r \in Results : ResultOwned(r)
          /\ \A m \in Models : ModelServed(m)
          /\ \A t \in Threads : InOrder(t)

-----------------------------------------------------------------------------
(* Types. *)

(* Storing an object of the address's kind, or freeing it, keeps the heap's types. *)
LEMMA HeapPut ==
  ASSUME HeapTypes, NEW x \in Objects, NEW v, build' = build, heap' = [heap EXCEPT ![x] = v],
         \/ v \in {None, Lost}
         \/ x \in Engines /\ v \in EngineObjects /\ v.backend \in build
         \/ x \in Models /\ v \in ModelObjects
         \/ x \in Results /\ v \in ResultObjects
  PROVE  HeapTypes'
<1>1. heap' \in [Objects -> EngineObjects \cup ModelObjects \cup ResultObjects \cup {None, Lost}]
  BY DEF HeapTypes
<1>2. \A y \in Objects : heap'[y] = IF y = x THEN v ELSE heap[y]
  BY DEF HeapTypes
<1>3. \A e \in Engines : Live(heap'[e]) => heap'[e] \in EngineObjects /\ heap'[e].backend \in build
  BY <1>2, HeapAssumption DEF HeapTypes, Objects
<1>4. \A m \in Models : Live(heap'[m]) => heap'[m] \in ModelObjects
  BY <1>2, HeapAssumption DEF HeapTypes, Objects
<1>5. \A r \in Results : Live(heap'[r]) => heap'[r] \in ResultObjects
  BY <1>2, HeapAssumption DEF HeapTypes, Objects
<1>6. QED BY <1>1, <1>3, <1>4, <1>5 DEF HeapTypes

(* Freeing keeps the heap's types. *)
LEMMA HeapFree ==
  ASSUME HeapTypes, NEW freed, build' = build, heap' = FreeAll(freed)
  PROVE  HeapTypes'
<1>1. heap' \in [Objects -> EngineObjects \cup ModelObjects \cup ResultObjects \cup {None, Lost}]
  BY DEF HeapTypes, FreeAll
<1>2. \A y \in Objects : heap'[y] = None \/ heap'[y] = heap[y]
  BY DEF FreeAll
<1>3. QED BY <1>1, <1>2 DEF HeapTypes, Objects

(* Nothing on the heap has changed. *)
LEMMA HeapSame == ASSUME HeapTypes, build' = build, heap' = heap PROVE HeapTypes'
BY DEF HeapTypes

(* How a call begins, goes on and ends keeps the types of the calls: *)
(* a step from one place to the next, *)
LEMMA GotoTypes ==
  ASSUME CallTypes, NEW t \in Threads, NEW label \in Places, Goto(t, label),
         UNCHANGED <<arg, array, status>>
  PROVE  CallTypes'
BY DEF CallTypes, Goto

(* a failure, *)
LEMMA SetErrorTypes ==
  ASSUME CallTypes, NEW t \in Threads, NEW s \in {"SUCCESS", "FAILED", "SILENT"}, SetError(t, s)
  PROVE  CallTypes'
BY DEF CallTypes, SetError, Goto, Places

(* a return, *)
LEMMA ReturnTypes ==
  ASSUME CallTypes, NEW t \in Threads, NEW s \in {"SUCCESS", "FAILED", "SILENT"}, Return(t, s)
  PROVE  CallTypes'
<1>1. NoArg \in Args BY DEF NoArg, Arguments, Args
<1>2. QED BY <1>1 DEF CallTypes, Return, Goto, Places

(* the end of a crkit_infer, which may be that of a batch, *)
LEMMA EndsTypes ==
  ASSUME CallTypes, NEW t \in Threads, NEW s \in {"SUCCESS", "FAILED", "SILENT"}, Ends(t, s)
  PROVE  CallTypes'
<1>1. CASE arg[t].many BY <1>1 DEF CallTypes, Ends, Goto, Places
<1>2. CASE ~arg[t].many BY <1>2, ReturnTypes DEF Ends
<1>3. QED BY <1>1, <1>2

(* the entry with its arguments. *)
LEMMA EnterTypes ==
  ASSUME CallTypes, NEW t \in Threads, NEW label \in Places, NEW a \in Args, Enter(t, label, a)
  PROVE  CallTypes'
BY DEF CallTypes, Enter, Goto

(* What the arguments of a call are. *)
LEMMA ArgumentsType ==
  ASSUME NEW e \in Engines \cup {None}, NEW m \in Models \cup {None},
         NEW images \in Seq(Images), NEW many \in BOOLEAN
  PROVE  /\ Arguments(e, m, images, many) \in Args
         /\ Arguments(e, m, images, many).engine = e
         /\ Arguments(e, m, images, many).model = m
         /\ Arguments(e, m, images, many).images = images
         /\ Arguments(e, m, images, many).many = many
BY DEF Arguments, Args

(* No arguments. *)
LEMMA NoArgType ==
  /\ NoArg \in Args
  /\ NoArg.engine = None /\ NoArg.model = None /\ NoArg.images = <<>> /\ NoArg.many = FALSE
BY DEF NoArg, Arguments, Args

(* The actions keep the types. *)
LEMMA TypesOfEngines ==
  ASSUME Types, NEW t \in Threads,
         \/ \E type \in Backends \cup {"auto"} : CreateEngine(t, type) \/ NoBackend(t, type)
         \/ \E e \in Engines : DestroyEngine(t, e)
         \/ /\ InitializeSucceeds(t) \/ InitializeFails(t) \/ InitializeThrows(t)
            /\ arg[t].engine \in Engines
  PROVE  Types'
<1>0. HeapTypes /\ CallTypes /\ OtherTypes BY DEF Types
<1>1. ASSUME NEW type \in Backends \cup {"auto"}, CreateEngine(t, type) PROVE Types'
  <2>1. PICK e \in Engines : /\ heap' = [heap EXCEPT ![e] = NewEngine(Selected(type))]
                             /\ Enter(t, "initializing", Arguments(e, None, <<>>, FALSE))
    BY <1>1 DEF CreateEngine
  <2>2. Selected(type) \in Backends \cap build
    BY <1>1 DEF CreateEngine, Selected, Backends
  <2>3. NewEngine(Selected(type)) \in EngineObjects /\ NewEngine(Selected(type)).backend \in build
    BY <2>2 DEF NewEngine, EngineObjects, NetworkOrNone
  <2>4. HeapTypes'
    <3> DEFINE v == NewEngine(Selected(type))
    <3>1. e \in Objects BY DEF Objects
    <3>2. build' = build BY <1>1 DEF CreateEngine
    <3>3. heap' = [heap EXCEPT ![e] = v] /\ v \in EngineObjects /\ v.backend \in build BY <2>1, <2>3
    <3> HIDE DEF v
    <3>4. QED BY <1>0, <3>1, <3>2, <3>3, HeapPut
  <2>5. Arguments(e, None, <<>>, FALSE) \in Args BY DEF Arguments, Args
  <2>6. CallTypes' BY <1>0, <2>1, <2>5, EnterTypes DEF Places
  <2>7. OtherTypes' BY <1>0, <1>1, <2>1 DEF CreateEngine, OtherTypes, Enter, Begin, app
  <2>8. QED BY <2>4, <2>6, <2>7 DEF Types
<1>2. ASSUME NEW type \in Backends \cup {"auto"}, NoBackend(t, type) PROVE Types'
  <2>1. HeapTypes'
    <3>1. PICK e \in Engines, left \in {None, Lost} : heap' = [heap EXCEPT ![e] = left]
      BY <1>2 DEF NoBackend
    <3>2. build' = build /\ e \in Objects BY <1>2 DEF NoBackend, Objects
    <3>3. QED BY <1>0, <3>1, <3>2, HeapPut
  <2>2. CallTypes' BY <1>0, <1>2, SetErrorTypes DEF NoBackend, Fail
  <2>3. OtherTypes' BY <1>0, <1>2 DEF NoBackend, Begin, OtherTypes, app
  <2>4. QED BY <2>1, <2>2, <2>3 DEF Types
<1>3. ASSUME NEW e \in Engines, DestroyEngine(t, e) PROVE Types'
  <2>1. HeapTypes' BY <1>0, <1>3, HeapPut DEF DestroyEngine, Objects
  <2>2. CallTypes' BY <1>0, <1>3, ReturnTypes DEF DestroyEngine
  <2>3. OtherTypes' BY <1>0, <1>3 DEF DestroyEngine, Begin, OtherTypes
  <2>4. QED BY <2>1, <2>2, <2>3 DEF Types
<1>4. CASE InitializeSucceeds(t) /\ arg[t].engine \in Engines
  <2>1. HeapTypes' BY <1>0, <1>4, HeapSame DEF InitializeSucceeds
  <2>2. CallTypes' BY <1>0, <1>4, ReturnTypes DEF InitializeSucceeds
  <2>3. OtherTypes' BY <1>0, <1>4 DEF InitializeSucceeds, OtherTypes, errors, Objects
  <2>4. QED BY <2>1, <2>2, <2>3 DEF Types
<1>5. CASE (InitializeFails(t) \/ InitializeThrows(t)) /\ arg[t].engine \in Engines
  <2>1. HeapTypes' BY <1>0, <1>5, HeapPut DEF InitializeFails, InitializeThrows, Objects
  <2>2. CallTypes' BY <1>0, <1>5, SetErrorTypes DEF InitializeFails, InitializeThrows, Fail
  <2>3. OtherTypes' BY <1>0, <1>5 DEF InitializeFails, InitializeThrows, OtherTypes, app, errors
  <2>4. QED BY <2>1, <2>2, <2>3 DEF Types
<1>6. QED BY <1>1, <1>2, <1>3, <1>4, <1>5

(* Loading leaves an engine on the heap, half done or done. *)
LEMMA LoadsEngine ==
  ASSUME Types, NEW e \in Engines, Live(heap[e]), NEW n \in Networks
  PROVE  /\ Load(e, n) \in EngineObjects /\ Load(e, n).backend = heap[e].backend
         /\ \A h \in HalfLoad(e, n) : h \in EngineObjects /\ h.backend = heap[e].backend
<1>1. heap[e] \in EngineObjects BY DEF Types, HeapTypes
<1>2. n \in NetworkOrNone /\ None \in NetworkOrNone BY DEF NetworkOrNone
<1>3. \A name \in NetworkOrNone : First(name, n) \in NetworkOrNone BY <1>2 DEF First
<1>4. \A l \in NetworkOrNone : /\ [heap[e] EXCEPT !.loaded = l] \in EngineObjects
                               /\ [heap[e] EXCEPT !.loaded = l].backend = heap[e].backend
  BY <1>1 DEF EngineObjects
<1>5. \A l \in NetworkOrNone :
        /\ [heap[e] EXCEPT !.loaded = l, !.names = First(@, n)] \in EngineObjects
        /\ [heap[e] EXCEPT !.loaded = l, !.names = First(@, n)].backend = heap[e].backend
  BY <1>1, <1>3 DEF EngineObjects
<1>6. \A l \in NetworkOrNone :
        /\ [heap[e] EXCEPT !.loaded = l, !.names = First(@, n), !.outputs = First(@, n)] \in EngineObjects
        /\ [heap[e] EXCEPT !.loaded = l, !.names = First(@, n), !.outputs = First(@, n)].backend
             = heap[e].backend
  BY <1>1, <1>3 DEF EngineObjects
<1>7. Load(e, n) \in EngineObjects /\ Load(e, n).backend = heap[e].backend
  BY <1>2, <1>4, <1>6 DEF Load, Loaded
<1>8. heap[e].loaded \in NetworkOrNone BY <1>1 DEF EngineObjects
<1>9. ASSUME NEW h \in HalfLoad(e, n) PROVE h \in EngineObjects /\ h.backend = heap[e].backend
  <2>1. CASE heap[e].backend = "tensorrt" BY <1>2, <1>4, <1>8, <1>9, <2>1 DEF HalfLoad
  <2>2. CASE heap[e].backend # "tensorrt" BY <1>1, <1>2, <1>4, <1>5, <1>9, <2>2 DEF HalfLoad
  <2>3. QED BY <2>1, <2>2
<1>10. QED BY <1>7, <1>9

(* The actions on models keep the types. *)
LEMMA TypesOfModels ==
  ASSUME Types, NEW t \in Threads,
         \/ \E e \in Engines, n \in Networks : LoadModel(t, e, n)
         \/ \E m \in Models : UnloadModel(t, m)
         \/ /\ LoadSucceeds(t) \/ LoadFails(t) \/ LoadThrows(t)
            /\ arg[t].engine \in Engines /\ Live(heap[arg[t].engine])
            /\ arg[t].model \in Models /\ Live(heap[arg[t].model])
  PROVE  Types'
<1>0. HeapTypes /\ CallTypes /\ OtherTypes BY DEF Types
<1>1. ASSUME NEW e \in Engines, NEW n \in Networks, LoadModel(t, e, n) PROVE Types'
  <2>1. PICK m \in Models : /\ heap' = [heap EXCEPT ![m] = [engine |-> e, network |-> n]]
                            /\ Enter(t, "loading", Arguments(e, m, <<>>, FALSE))
    BY <1>1 DEF LoadModel
  <2>2. [engine |-> e, network |-> n] \in ModelObjects BY DEF ModelObjects
  <2>3. HeapTypes'
    <3> DEFINE v == [engine |-> e, network |-> n]
    <3>1. m \in Objects BY DEF Objects
    <3>2. build' = build BY <1>1 DEF LoadModel
    <3>3. heap' = [heap EXCEPT ![m] = v] /\ v \in ModelObjects BY <2>1, <2>2
    <3> HIDE DEF v
    <3>4. QED BY <1>0, <3>1, <3>2, <3>3, HeapPut
  <2>4. Arguments(e, m, <<>>, FALSE) \in Args BY DEF Arguments, Args
  <2>5. CallTypes' BY <1>0, <2>1, <2>4, EnterTypes DEF Places
  <2>6. OtherTypes' BY <1>0, <1>1, <2>1 DEF LoadModel, OtherTypes, Enter, Begin, app
  <2>7. QED BY <2>3, <2>5, <2>6 DEF Types
<1>2. ASSUME NEW m \in Models, UnloadModel(t, m) PROVE Types'
  <2>1. HeapTypes' BY <1>0, <1>2, HeapFree DEF UnloadModel
  <2>2. CallTypes' BY <1>0, <1>2, ReturnTypes DEF UnloadModel
  <2>3. OtherTypes' BY <1>0, <1>2 DEF UnloadModel, Begin, OtherTypes
  <2>4. QED BY <2>1, <2>2, <2>3 DEF Types
<1>3. ASSUME LoadSucceeds(t) \/ LoadFails(t) \/ LoadThrows(t),
             arg[t].engine \in Engines, Live(heap[arg[t].engine]),
             arg[t].model \in Models, Live(heap[arg[t].model])
      PROVE  Types'
  <2> DEFINE e == arg[t].engine
             m == arg[t].model
             n == heap[m].network
  <2>1. e \in Engines /\ m \in Models /\ e \in Objects /\ m \in Objects BY <1>3 DEF Objects
  <2>2. n \in Networks BY <1>0, <1>3 DEF HeapTypes, ModelObjects
  <2>3. heap[e] \in EngineObjects /\ heap[e].backend \in build BY <1>0, <1>3 DEF HeapTypes
  <2>4. CASE LoadSucceeds(t)
    <3> DEFINE v == Load(e, n)
    <3>1. v \in EngineObjects /\ v.backend \in build BY <1>3, <2>2, <2>3, LoadsEngine
    <3>2. heap' = [heap EXCEPT ![e] = v] /\ build' = build BY <2>4 DEF LoadSucceeds
    <3>3. HeapTypes'
      <4> HIDE DEF v, e
      <4>1. QED BY <1>0, <2>1, <3>1, <3>2, HeapPut
    <3>4. CallTypes' BY <1>0, <2>4, ReturnTypes DEF LoadSucceeds
    <3>5. OtherTypes' BY <1>0, <2>1, <2>4 DEF LoadSucceeds, OtherTypes, errors
    <3>6. QED BY <3>3, <3>4, <3>5 DEF Types
  <2>5. CASE LoadFails(t) \/ LoadThrows(t)
    <3>1. PICK half \in HalfLoad(e, n) \cup {Load(e, n)}, left \in {None, Lost} :
            heap' = [heap EXCEPT ![e] = half, ![m] = left]
      BY <2>5 DEF LoadFails, LoadThrows
    <3>2. half \in EngineObjects /\ half.backend \in build BY <1>3, <2>2, <2>3, LoadsEngine
    <3>3. build' = build /\ held' = held BY <2>5 DEF LoadFails, LoadThrows, HeldAfterFailure, app
    <3>4. HeapTypes'
      <4> HIDE DEF e, m, n
      <4>1. heap' \in [Objects -> EngineObjects \cup ModelObjects \cup ResultObjects \cup {None, Lost}]
        BY <1>0, <2>1, <3>1, <3>2 DEF HeapTypes
      <4>2. \A y \in Objects : heap'[y] = IF y = m THEN left ELSE IF y = e THEN half ELSE heap[y]
        BY <1>0, <2>1, <3>1 DEF HeapTypes
      <4>3. \A x \in Engines : Live(heap'[x]) => heap'[x] \in EngineObjects /\ heap'[x].backend \in build
        BY <1>0, <3>2, <4>2 DEF HeapTypes, Objects
      <4>4. \A x \in Models : Live(heap'[x]) => heap'[x] \in ModelObjects
        BY <1>0, <2>1, <4>2, HeapAssumption DEF HeapTypes, Objects
      <4>5. \A x \in Results : Live(heap'[x]) => heap'[x] \in ResultObjects
        BY <1>0, <2>1, <4>2, HeapAssumption DEF HeapTypes, Objects
      <4>6. QED BY <1>0, <3>3, <4>1, <4>3, <4>4, <4>5 DEF HeapTypes
    <3>5. CallTypes'
      <4>1. CASE FailSilently(t) BY <1>0, <4>1, EndsTypes DEF FailSilently
      <4>2. CASE Fail(t) BY <1>0, <4>2, SetErrorTypes DEF Fail
      <4>3. QED BY <2>5, <4>1, <4>2 DEF LoadFails, LoadThrows
    <3>6. OtherTypes' BY <1>0, <2>5, <3>3 DEF LoadFails, LoadThrows, OtherTypes, app, errors
    <3>7. QED BY <3>4, <3>5, <3>6 DEF Types
  <2>6. QED BY <1>3, <2>4, <2>5
<1>4. QED BY <1>1, <1>2, <1>3

(* The calls that begin to infer, as the application may make them. *)
Calls(t) ==
  \/ \E m \in Models \cap held, image \in Images : Infer(t, m, image) \/ InferFromFile(t, m, image)
  \/ \E m \in Models \cap held, images \in Batches : batch[t] = NoBatch /\ InferBatch(t, m, images)
  \/ \E m \in Models \cap held : WarmUp(t, m)

(* They keep the types. *)
LEMMA TypesOfCalls ==
  ASSUME Types, NEW t \in Threads, Calls(t)
  PROVE  Types'
<1>0. HeapTypes /\ CallTypes /\ OtherTypes BY DEF Types
<1>1. ASSUME NEW label \in Places, NEW m \in Models, NEW images \in Seq(Images), NEW many \in BOOLEAN,
             Call(t, label, m, images, many)
      PROVE  Types'
  <2>1. Arguments(None, m, images, many) \in Args BY DEF Arguments, Args
  <2>2. HeapTypes' BY <1>0, <1>1, HeapSame DEF Call
  <2>3. CallTypes' BY <1>0, <1>1, <2>1, EnterTypes DEF Call
  <2>4. OtherTypes' BY <1>0, <1>1 DEF Call, Enter, Begin, OtherTypes, app
  <2>5. QED BY <2>2, <2>3, <2>4 DEF Types
<1>2. \A image \in Images : <<image>> \in Seq(Images) OBVIOUS
<1>3. \A images \in Batches : images \in Seq(Images) BY BatchesAssumption
<1>4. {"preprocess", "imread", "warmup"} \subseteq Places /\ <<>> \in Seq(Images) BY DEF Places
<1>5. CASE \E m \in Models \cap held, image \in Images : Infer(t, m, image) \/ InferFromFile(t, m, image)
  BY <1>1, <1>2, <1>4, <1>5 DEF Infer, InferFromFile
<1>6. CASE \E m \in Models \cap held, images \in Batches : batch[t] = NoBatch /\ InferBatch(t, m, images)
  BY <1>1, <1>3, <1>4, <1>6 DEF InferBatch
<1>7. CASE \E m \in Models \cap held : WarmUp(t, m)
  BY <1>1, <1>4, <1>7 DEF WarmUp
<1>8. QED BY <1>5, <1>6, <1>7 DEF Calls

(* The steps that leave every object as it is. *)
Steps(t) == \/ Reject(t) \/ GetLastError(t) \/ ReadMessage(t) \/ SetLastError(t) \/ LogError(t)
            \/ ReadImage(t) \/ Preprocess(t) \/ Run(t) \/ RunWarmUp(t) \/ PostprocessFails(t)

(* They keep the types, too. *)
LEMMA TypesOfSteps ==
  ASSUME Types, NEW t \in Threads, Steps(t)
  PROVE  Types'
<1>0. HeapTypes /\ CallTypes /\ OtherTypes BY DEF Types
<1>1. HeapTypes'
  BY <1>0, HeapSame DEF Steps, Reject, GetLastError, ReadMessage, SetLastError, LogError, ReadImage,
     Preprocess, Run, RunWarmUp, PostprocessFails
<1>2. OtherTypes'
  <2>1. CASE Reject(t) BY <1>0, <2>1 DEF Reject, Begin, OtherTypes, app
  <2>2. CASE SetLastError(t) BY <1>0, <2>2 DEF SetLastError, OtherTypes, app
  <2>3. CASE LogError(t) BY <1>0, <2>3 DEF LogError, OtherTypes, app
  <2>4. CASE UNCHANGED <<app, errors>> BY <1>0, <2>4 DEF OtherTypes, app, errors
  <2>5. QED
    BY <2>1, <2>2, <2>3, <2>4 DEF Steps, GetLastError, ReadMessage, ReadImage,
       Preprocess, Run, RunWarmUp, PostprocessFails
<1>3. CallTypes'
  <2> USE <1>0
  <2>1. ASSUME NEW label \in {"reading", "idle", "logging", "preprocess", "inference", "postprocess"},
               Goto(t, label), UNCHANGED <<arg, array, status>>
        PROVE  CallTypes'
    BY <2>1, GotoTypes DEF Places
  <2>2. status[t] \in {"SUCCESS", "FAILED", "SILENT"} BY DEF CallTypes
  <2>3. CASE Fail(t) BY <2>3, SetErrorTypes DEF Fail
  <2>4. CASE GetLastError(t) \/ ReadMessage(t) \/ SetLastError(t)
    BY <2>1, <2>4 DEF GetLastError, ReadMessage, SetLastError
  <2>5. CASE LogError(t) BY <2>2, <2>5, EndsTypes DEF LogError
  <2>6. CASE FailSilently(t) BY <2>6, EndsTypes DEF FailSilently
  <2>7. CASE RunWarmUp(t) BY <2>7, ReturnTypes, SetErrorTypes DEF RunWarmUp
  <2>8. CASE ReadImage(t) \/ Preprocess(t) \/ Run(t)
    BY <2>1, <2>3, <2>6, <2>8 DEF ReadImage, Preprocess, Run
  <2>9. QED BY <2>3, <2>4, <2>5, <2>7, <2>8 DEF Steps, Reject, PostprocessFails, Catch
<1>4. QED BY <1>1, <1>2, <1>3 DEF Types

(* The actions on results keep the types. *)
LEMMA TypesOfResults ==
  ASSUME Types, NEW t \in Threads,
         \/ Postprocess(t) /\ Len(array[t]) < Len(arg[t].images)
         \/ ResultThrows(t) \/ CleanUp(t) \/ FreeBatch(t)
         \/ \E r \in Results \cap held : FreeResult(t, r)
  PROVE  Types'
<1>0. HeapTypes /\ CallTypes /\ OtherTypes BY DEF Types
<1>1. ASSUME Postprocess(t), Len(array[t]) < Len(arg[t].images) PROVE Types'
  <2> DEFINE n == Len(array[t])
             Image == [image |-> CurrentImage(t)]
  <2>1. PICK r \in Results :
          /\ heap' = [heap EXCEPT ![r] = Image]
          /\ \/ /\ held' = held \cup {r}
                /\ Return(t, "SUCCESS")
                /\ UNCHANGED batch
             \/ /\ array' = [array EXCEPT ![t] = Append(array[t], r)]
                /\ Goto(t, "preprocess")
                /\ UNCHANGED <<arg, status, app>>
             \/ /\ batch' = [batch EXCEPT ![t] = [images |-> arg[t].images, results |-> Append(array[t], r)]]
                /\ Return(t, "SUCCESS")
                /\ UNCHANGED held
    BY <1>1 DEF Postprocess
  <2>2. arg[t].images \in Seq(Images) /\ array[t] \in Seq(Results) /\ n \in Nat
    BY <1>0 DEF CallTypes, Args
  <2>3. CurrentImage(t) \in Images BY <1>1, <2>2 DEF CurrentImage
  <2>4. Image \in ResultObjects BY <2>3 DEF ResultObjects
  <2>5. HeapTypes'
    <3>1. r \in Objects BY DEF Objects
    <3>2. build' = build BY <1>1 DEF Postprocess
    <3> HIDE DEF Image
    <3>3. QED BY <1>0, <2>1, <2>4, <3>1, <3>2, HeapPut
  <2>6. Append(array[t], r) \in Seq(Results) BY <2>2
  <2>7. CallTypes'
    <3>1. CASE Return(t, "SUCCESS") BY <1>0, <3>1, ReturnTypes
    <3>2. CASE /\ array' = [array EXCEPT ![t] = Append(array[t], r)]
               /\ Goto(t, "preprocess")
               /\ UNCHANGED <<arg, status, app>>
      <4> DEFINE got == Append(array[t], r)
      <4>1. got \in Seq(Results) BY <2>6
      <4>2. array' = [array EXCEPT ![t] = got] BY <3>2
      <4> HIDE DEF got
      <4>3. array' \in [Threads -> Seq(Results)] BY <1>0, <4>1, <4>2 DEF CallTypes
      <4>4. QED BY <1>0, <3>2, <4>3 DEF CallTypes, Goto, Places
    <3>3. QED BY <2>1, <3>1, <3>2
  <2>8. errors' = errors BY <1>1 DEF Postprocess
  <2>9. batch' \in [Threads -> BatchesOf]
    <3> DEFINE b == [images |-> arg[t].images, results |-> Append(array[t], r)]
    <3>1. b \in BatchesOf BY <2>2, <2>6 DEF BatchesOf
    <3>2. batch' = batch \/ batch' = [batch EXCEPT ![t] = b] BY <2>1 DEF app
    <3> HIDE DEF b
    <3>3. QED BY <1>0, <3>1, <3>2 DEF OtherTypes
  <2>10. held' = held \/ held' = held \cup {r} BY <2>1 DEF app
  <2>11. OtherTypes' BY <1>0, <2>8, <2>9, <2>10 DEF OtherTypes, errors, Objects
  <2>12. QED BY <2>5, <2>7, <2>11 DEF Types
<1>2. CASE CleanUp(t)
  <2>1. HeapTypes' BY <1>0, <1>2, HeapFree DEF CleanUp
  <2>2. status[t] \in {"SUCCESS", "FAILED", "SILENT"} BY <1>0 DEF CallTypes
  <2>3. CallTypes' BY <1>0, <1>2, <2>2, ReturnTypes DEF CleanUp
  <2>4. OtherTypes' BY <1>0, <1>2 DEF CleanUp, OtherTypes, app, errors
  <2>5. QED BY <2>1, <2>3, <2>4 DEF Types
<1>3. CASE FreeBatch(t)
  <2>1. HeapTypes' BY <1>0, <1>3, HeapFree DEF FreeBatch
  <2>2. CallTypes' BY <1>0, <1>3, ReturnTypes DEF FreeBatch
  <2>3. NoBatch \in BatchesOf BY DEF NoBatch, BatchesOf
  <2>4. OtherTypes' BY <1>0, <1>3, <2>3 DEF FreeBatch, Begin, OtherTypes
  <2>5. QED BY <2>1, <2>2, <2>4 DEF Types
<1>4. ASSUME NEW r \in Results \cap held, FreeResult(t, r) PROVE Types'
  <2>1. HeapTypes' BY <1>0, <1>4, HeapFree DEF FreeResult
  <2>2. CallTypes' BY <1>0, <1>4, ReturnTypes DEF FreeResult
  <2>3. OtherTypes' BY <1>0, <1>4 DEF FreeResult, Begin, OtherTypes
  <2>4. QED BY <2>1, <2>2, <2>3 DEF Types
<1>5. CASE ResultThrows(t)
  <2>1. HeapTypes' BY <1>0, <1>5, HeapPut DEF ResultThrows, Objects
  <2>2. CallTypes' BY <1>0, <1>5, SetErrorTypes DEF ResultThrows, Catch, Fail
  <2>3. OtherTypes' BY <1>0, <1>5 DEF ResultThrows, OtherTypes, app, errors
  <2>4. QED BY <2>1, <2>2, <2>3 DEF Types
<1>6. QED BY <1>1, <1>2, <1>3, <1>4, <1>5

-----------------------------------------------------------------------------
(* The steps that hand over and free nothing, and create nothing that is   *)
(* not lost at once.                                                       *)
Moves(t) == \/ Calls(t) \/ Steps(t) \/ ResultThrows(t)
            \/ \E type \in Backends \cup {"auto"} : NoBackend(t, type)

(* They leave the objects and who owns them alone. *)
Leaves(t) == /\ UNCHANGED <<build, held, batch, array>>
             /\ \A x \in Objects : Live(heap[x]) \/ Live(heap'[x]) => heap'[x] = heap[x]
             /\ \A u \in Threads \ {t} : at'[u] = at[u] /\ arg'[u] = arg[u]
             /\ at[t] \notin {"initializing", "loading"} /\ at'[t] \notin {"initializing", "loading"}
             /\ arg'[t].images = arg[t].images \/ array[t] = <<>>

(* A call that begins to infer leaves the objects alone and is where it should be. *)
LEMMA CallMoves ==
  ASSUME Types, NEW t \in Threads, Place(t),
         NEW label \in {"preprocess", "imread", "warmup"}, NEW m \in Models \cap held,
         NEW images \in Seq(Images), NEW many \in BOOLEAN,
         Call(t, label, m, images, many),
         many = FALSE \/ batch[t] = NoBatch,
         IF label = "warmup" THEN many = FALSE ELSE images # <<>>
  PROVE  Leaves(t) /\ Place(t)'
<1>1. at[t] = "idle" /\ arg[t] = NoArg BY DEF Call, Enter, Begin, Place
<1>2. array[t] = <<>> BY <1>1, NoArgType DEF Place
<1>3. /\ UNCHANGED <<build, heap, held, batch, array>>
      /\ at' = [at EXCEPT ![t] = label]
      /\ arg' = [arg EXCEPT ![t] = Arguments(None, m, images, many)]
  BY DEF Call, Enter, Goto, app
<1>4. /\ at'[t] = label /\ arg'[t] = Arguments(None, m, images, many)
      /\ \A u \in Threads \ {t} : at'[u] = at[u] /\ arg'[u] = arg[u]
  BY <1>3 DEF Types, CallTypes
<1>5. arg'[t].model = m /\ arg'[t].images = images /\ arg'[t].many = many
  BY <1>4 DEF Arguments
<1>6. Leaves(t) BY <1>1, <1>2, <1>3, <1>4 DEF Leaves
<1>7. array'[t] = <<>> /\ batch'[t] = batch[t] /\ held' = held BY <1>2, <1>3
<1>8. Len(array'[t]) = 0 /\ Len(images) \in Nat /\ (images # <<>> => 0 < Len(images)) BY <1>7
<1>9. label \notin {"idle", "reading", "initializing", "loading", "cleanup"} OBVIOUS
<1>10. label \in Inferring => label # "warmup" BY DEF Inferring
<1>11. Place(t)' BY <1>4, <1>5, <1>7, <1>8, <1>9, <1>10 DEF Place
<1>12. QED BY <1>6, <1>11

(* So does a step within a call, and its end. *)
LEMMA StepMoves ==
  ASSUME Types, NEW t \in Threads, Place(t), Steps(t)
  PROVE  Leaves(t) /\ Place(t)'
<1>1. /\ at \in [Threads -> Places] /\ arg \in [Threads -> Args] /\ array \in [Threads -> Seq(Results)]
  BY DEF Types, CallTypes
<1>2. UNCHANGED <<build, heap, held, batch>>
  BY DEF Steps, Reject, GetLastError, ReadMessage, SetLastError, LogError, ReadImage,
     Preprocess, Run, RunWarmUp, PostprocessFails, app
<1>3. Len(array[t]) \in Nat /\ Len(arg[t].images) \in Nat BY <1>1 DEF Args
<1>4. ASSUME NEW label \in Places, at[t] \notin {"initializing", "loading"},
             Goto(t, label), UNCHANGED <<arg, array>>,
             label \notin {"initializing", "loading", "warmup"},
             label \in {"idle", "reading"} => arg[t] = NoArg,
             label \in Inferring => at[t] \in Inferring,
             label = "cleanup" => arg[t].many
      PROVE  Leaves(t) /\ Place(t)'
  <2>1. at'[t] = label /\ (\A u \in Threads \ {t} : at'[u] = at[u]) /\ arg' = arg /\ array' = array
    BY <1>1, <1>4 DEF Goto
  <2>2. Leaves(t) BY <1>2, <1>4, <2>1 DEF Leaves
  <2>3. Place(t)' BY <1>2, <1>4, <2>1 DEF Place
  <2>4. QED BY <2>2, <2>3
<1>5. ASSUME NEW s, at[t] \notin {"initializing", "loading"}, Return(t, s), ~arg[t].many
      PROVE  Leaves(t) /\ Place(t)'
  <2>1. array[t] = <<>> BY <1>5 DEF Place
  <2>2. /\ at'[t] = "idle" /\ arg'[t] = NoArg /\ array' = array
        /\ \A u \in Threads \ {t} : at'[u] = at[u] /\ arg'[u] = arg[u]
    BY <1>1, <1>5, <2>1 DEF Return, Goto
  <2>3. Leaves(t) BY <1>2, <1>5, <2>1, <2>2 DEF Leaves
  <2>4. Len(array'[t]) = 0 /\ Len(arg'[t].images) = 0 BY <2>1, <2>2, NoArgType
  <2>5. Place(t)' BY <2>1, <2>2, <2>4, NoArgType DEF Place, Inferring
  <2>6. QED BY <2>3, <2>5
<1>6. ASSUME NEW s, at[t] \notin {"initializing", "loading"}, Ends(t, s)
      PROVE  Leaves(t) /\ Place(t)'
  <2>1. CASE arg[t].many
    BY <1>4, <1>6, <2>1 DEF Ends, Places, Inferring
  <2>2. CASE ~arg[t].many BY <1>5, <1>6, <2>2 DEF Ends
  <2>3. QED BY <2>1, <2>2
<1>7. ASSUME NEW s, at[t] \notin {"initializing", "loading"}, SetError(t, s)
      PROVE  Leaves(t) /\ Place(t)'
  BY <1>4, <1>7 DEF SetError, Places, Inferring
<1>8. CASE Reject(t) BY <1>7, <1>8 DEF Reject, Begin, Fail
<1>9. CASE GetLastError(t) \/ ReadMessage(t)
  BY <1>4, <1>9 DEF GetLastError, ReadMessage, Places, Inferring, Place
<1>10. CASE SetLastError(t) BY <1>4, <1>10 DEF SetLastError, Places, Inferring
<1>11. CASE LogError(t) BY <1>6, <1>11 DEF LogError
<1>12. CASE RunWarmUp(t)
  <2>1. at[t] = "warmup" /\ ~arg[t].many BY <1>12 DEF RunWarmUp, Place
  <2>2. QED BY <1>5, <1>7, <1>12, <2>1 DEF RunWarmUp
<1>13. CASE ReadImage(t) BY <1>4, <1>7, <1>13 DEF ReadImage, Fail, Places, Inferring
<1>14. CASE Preprocess(t) BY <1>4, <1>7, <1>14 DEF Preprocess, Fail, Places, Inferring
<1>15. CASE Run(t) BY <1>4, <1>6, <1>7, <1>15 DEF Run, Fail, FailSilently, Places, Inferring
<1>16. CASE PostprocessFails(t) BY <1>7, <1>16 DEF PostprocessFails, Catch, Fail
<1>17. QED BY <1>8, <1>9, <1>10, <1>11, <1>12, <1>13, <1>14, <1>15, <1>16 DEF Steps

(* Every step of that kind. *)
LEMMA MovesMove ==
  ASSUME Types, NEW t \in Threads, Place(t), Moves(t)
  PROVE  Types' /\ Leaves(t) /\ Place(t)'
<1>1. CASE Steps(t) BY <1>1, StepMoves, TypesOfSteps
<1>2. CASE \E type \in Backends \cup {"auto"} : NoBackend(t, type)
  <2>1. PICK type \in Backends \cup {"auto"} : NoBackend(t, type) BY <1>2
  <2>2. /\ at[t] = "idle" /\ at' = [at EXCEPT ![t] = "error"] /\ arg' = arg /\ array' = array
        /\ UNCHANGED <<build, held, batch>>
    BY <2>1 DEF NoBackend, Begin, Fail, SetError, Goto, app
  <2>3. \A x \in Objects : Live(heap[x]) \/ Live(heap'[x]) => heap'[x] = heap[x]
    BY <2>1 DEF NoBackend, Types, HeapTypes, Objects
  <2>4. at'[t] = "error" /\ \A u \in Threads \ {t} : at'[u] = at[u] BY <2>2 DEF Types, CallTypes
  <2>5. Leaves(t) BY <2>2, <2>4, <2>3 DEF Leaves
  <2>6. Place(t)' BY <2>2, <2>4 DEF Place, Inferring
  <2>7. Types' BY <1>2, TypesOfEngines
  <2>8. QED BY <2>5, <2>6, <2>7
<1>3. CASE Calls(t)
  <2>5. Types' BY <1>3, TypesOfCalls
  <2>0. \A image \in Images : <<image>> \in Seq(Images) /\ <<image>> # <<>> OBVIOUS
  <2>1. \A images \in Batches : images \in Seq(Images) /\ images # <<>> BY BatchesAssumption
  <2>2. ASSUME NEW label \in {"preprocess", "imread", "warmup"}, NEW m \in Models \cap held,
               NEW images \in Seq(Images), NEW many \in BOOLEAN, Call(t, label, m, images, many),
               many = FALSE \/ batch[t] = NoBatch,
               IF label = "warmup" THEN many = FALSE ELSE images # <<>>
        PROVE  Types' /\ Leaves(t) /\ Place(t)'
    BY <2>2, <2>5, CallMoves
  <2>3. CASE \E m \in Models \cap held, image \in Images : Infer(t, m, image) \/ InferFromFile(t, m, image)
    <3>1. PICK m \in Models \cap held, image \in Images :
            Call(t, "preprocess", m, <<image>>, FALSE) \/ Call(t, "imread", m, <<image>>, FALSE)
      BY <2>3 DEF Infer, InferFromFile
    <3>2. <<image>> \in Seq(Images) /\ <<image>> # <<>> BY <2>0
    <3> DEFINE images == <<image>>
    <3>3. images \in Seq(Images) /\ images # <<>> BY <3>2
    <3>4. Call(t, "preprocess", m, images, FALSE) \/ Call(t, "imread", m, images, FALSE) BY <3>1
    <3> HIDE DEF images
    <3>5. FALSE \in BOOLEAN OBVIOUS
    <3>6. CASE Call(t, "preprocess", m, images, FALSE) BY <2>2, <3>3, <3>6
    <3>7. CASE Call(t, "imread", m, images, FALSE) BY <2>2, <3>3, <3>7
    <3>8. QED BY <3>4, <3>6, <3>7
  <2>4. CASE \E m \in Models \cap held, images \in Batches : batch[t] = NoBatch /\ InferBatch(t, m, images)
    <3>1. PICK m \in Models \cap held, images \in Batches :
            batch[t] = NoBatch /\ Call(t, "preprocess", m, images, TRUE)
      BY <2>4 DEF InferBatch
    <3>2. images \in Seq(Images) /\ images # <<>> BY <2>1
    <3>3. QED BY <2>2, <3>1, <3>2
  <2>7. CASE \E m \in Models \cap held : WarmUp(t, m)
    <3>1. PICK m \in Models \cap held : Call(t, "warmup", m, <<>>, FALSE) BY <2>7 DEF WarmUp
    <3>2. <<>> \in Seq(Images) OBVIOUS
    <3> DEFINE images == <<>>
    <3>3. images \in Seq(Images) /\ Call(t, "warmup", m, images, FALSE) BY <3>1, <3>2
    <3> HIDE DEF images
    <3>4. QED BY <2>2, <3>3
  <2>6. QED BY <1>3, <2>3, <2>4, <2>5, <2>7 DEF Calls
<1>4. CASE ResultThrows(t)
  <2>1. /\ at[t] = "postprocess" /\ at' = [at EXCEPT ![t] = "error"] /\ arg' = arg /\ array' = array
        /\ UNCHANGED <<build, held, batch>>
    BY <1>4 DEF ResultThrows, Catch, Fail, SetError, Goto, app
  <2>2. \A x \in Objects : Live(heap[x]) \/ Live(heap'[x]) => heap'[x] = heap[x]
    BY <1>4 DEF ResultThrows, Types, HeapTypes, Objects
  <2>3. at'[t] = "error" /\ \A u \in Threads \ {t} : at'[u] = at[u] BY <2>1 DEF Types, CallTypes
  <2>4. Leaves(t) BY <2>1, <2>2, <2>3 DEF Leaves
  <2>5. Place(t)' BY <2>1, <2>3 DEF Place, Inferring
  <2>6. Types' BY <1>4, TypesOfResults
  <2>7. QED BY <2>4, <2>5, <2>6
<1>5. QED BY <1>1, <1>2, <1>3, <1>4 DEF Moves

-----------------------------------------------------------------------------
(* What a step leaves alone stays true of it. *)
Others(t) == \A u \in Threads \ {t} :
               at'[u] = at[u] /\ arg'[u] = arg[u] /\ array'[u] = array[u] /\ batch'[u] = batch[u]

(* A call that does not step is where it was, if its model is still there. *)
LEMMA PlaceKept ==
  ASSUME NEW u \in Threads, Place(u), at'[u] = at[u], arg'[u] = arg[u],
         array'[u] = array[u], batch'[u] = batch[u],
         at[u] = "loading" => heap'[arg[u].model] = heap[arg[u].model],
         at[u] \in Inferring \cup {"warmup"} /\ arg[u].model \in held => arg[u].model \in held'
  PROVE  Place(u)'
BY DEF Place

(* Engines and their owners. *)
LEMMA EngineKept ==
  ASSUME NEW e \in Engines, EngineOwned(e), Live(heap'[e]) <=> Live(heap[e]),
         e \in held' <=> e \in held,
         \A u \in Threads : Initializes(u, e)' <=> Initializes(u, e)
  PROVE  EngineOwned(e)'
BY DEF EngineOwned

(* No engine changes hands in a step of a call that is not creating one. *)
LEMMA EnginesKept ==
  ASSUME NEW t \in Threads, Others(t), at[t] # "initializing", at'[t] # "initializing",
         \A e \in Engines : EngineOwned(e) /\ (Live(heap'[e]) <=> Live(heap[e]))
                            /\ (e \in held' <=> e \in held)
  PROVE  \A e \in Engines : EngineOwned(e)'
<1>1. \A e \in Engines, u \in Threads : Initializes(u, e)' <=> Initializes(u, e)
  BY DEF Others, Initializes
<1>2. QED BY <1>1, EngineKept

(* Models and their owners. *)
LEMMA ModelKept ==
  ASSUME NEW m \in Models, ModelOwned(m), Live(heap'[m]) <=> Live(heap[m]),
         m \in held' <=> m \in held,
         \A u \in Threads : Loads(u, m)' <=> Loads(u, m)
  PROVE  ModelOwned(m)'
BY DEF ModelOwned

(* No model changes hands in a step of a call that is not loading one. *)
LEMMA ModelsKept ==
  ASSUME NEW t \in Threads, Others(t), at[t] # "loading", at'[t] # "loading",
         \A m \in Models : ModelOwned(m) /\ (Live(heap'[m]) <=> Live(heap[m]))
                           /\ (m \in held' <=> m \in held)
  PROVE  \A m \in Models : ModelOwned(m)'
<1>1. \A m \in Models, u \in Threads : Loads(u, m)' <=> Loads(u, m)
  BY DEF Others, Loads
<1>2. QED BY <1>1, ModelKept

(* Results and their owners. *)
LEMMA ResultKept ==
  ASSUME NEW r \in Results, ResultOwned(r), Live(heap'[r]) <=> Live(heap[r]),
         r \in held' <=> r \in held,
         \A u \in Threads, k \in Nat :
           (InArray(u, k, r)' <=> InArray(u, k, r)) /\ (InBatch(u, k, r)' <=> InBatch(u, k, r))
  PROVE  ResultOwned(r)'
<1>1. Live(heap'[r]) <=> \/ r \in held'
                          \/ \E u \in Threads, k \in Nat : InArray(u, k, r)' \/ InBatch(u, k, r)'
  BY DEF ResultOwned
<1>2. ASSUME NEW u \in Threads, NEW v \in Threads, NEW j \in Nat, NEW k \in Nat
      PROVE  /\ InArray(u, j, r)' =>
                  r \notin held' /\ ~InBatch(v, k, r)' /\ (InArray(v, k, r)' => u = v /\ j = k)
             /\ InBatch(u, j, r)' => r \notin held' /\ (InBatch(v, k, r)' => u = v /\ j = k)
  BY DEF ResultOwned
<1>3. QED BY <1>1, <1>2 DEF ResultOwned

(* No result changes hands in a step that leaves arrays and batches alone. *)
LEMMA ResultsKept ==
  ASSUME array' = array, batch' = batch,
         \A r \in Results : ResultOwned(r) /\ (Live(heap'[r]) <=> Live(heap[r]))
                            /\ (r \in held' <=> r \in held)
  PROVE  \A r \in Results : ResultOwned(r)'
<1>1. \A r \in Results, u \in Threads, k \in Nat :
           (InArray(u, k, r)' <=> InArray(u, k, r)) /\ (InBatch(u, k, r)' <=> InBatch(u, k, r))
  BY DEF InArray, InBatch
<1>2. QED BY <1>1, ResultKept

(* The engine of a model still serves it. *)
LEMMA ServedKept ==
  ASSUME NEW m \in Models, ModelServed(m), heap'[m] = heap[m],
         Live(heap[m]) =>
           /\ heap'[heap[m].engine] = heap[heap[m].engine]
           /\ heap[m].engine \in held'
           /\ \A k \in Models : \/ heap'[k] = heap[k] \/ ~Live(heap'[k])
                                \/ heap'[k].engine # heap[m].engine,
         m \in held' <=> m \in held
  PROVE  ModelServed(m)'
<1>1. Live(heap[m]) => heap'[heap[m].engine] = heap[heap[m].engine] OBVIOUS
<1>2. SUFFICES ASSUME Live(heap[m]) PROVE ModelServed(m)' BY DEF ModelServed
<1>3. heap'[heap'[m].engine] = heap[heap[m].engine] /\ heap'[m].engine = heap[m].engine BY <1>1, <1>2
<1>4. OfNetwork(heap[m].engine, heap[m].network) => OfNetwork(heap[m].engine, heap[m].network)'
  BY <1>3 DEF OfNetwork
<1>5. QED BY <1>2, <1>3, <1>4 DEF ModelServed

(* The results of a batch are still in their order. *)
LEMMA OrderKept ==
  ASSUME NEW u \in Threads, InOrder(u), array'[u] = array[u], batch'[u] = batch[u],
         arg'[u].images = arg[u].images \/ array[u] = <<>>,
         \A k \in Nat, r \in Results : InArray(u, k, r) \/ InBatch(u, k, r) => heap'[r] = heap[r],
         array[u] \in Seq(Results), batch[u].results \in Seq(Results)
  PROVE  InOrder(u)'
<1>1. \A k \in 1..Len(array[u]) : heap'[array[u][k]] = heap[array[u][k]]
  BY DEF InArray
<1>2. \A k \in 1..Len(batch[u].results) : heap'[batch[u].results[k]] = heap[batch[u].results[k]]
  BY DEF InBatch
<1>3. \A k \in 1..Len(array'[u]) : heap'[array'[u][k]] = [image |-> arg'[u].images[k]]
  BY <1>1 DEF InOrder
<1>4. QED BY <1>2, <1>3 DEF InOrder

-----------------------------------------------------------------------------
(* The invariant, step by step.  First the steps that leave the objects alone. *)
LEMMA MovesKeep ==
  ASSUME ApiInv, NEW t \in Threads, Moves(t)
  PROVE  ApiInv'
<1>1. Types' /\ Leaves(t) /\ Place(t)' BY MovesMove DEF ApiInv
<1>2. /\ \A x \in Objects : Live(heap[x]) \/ Live(heap'[x]) => heap'[x] = heap[x]
      /\ held' = held /\ batch' = batch /\ array' = array
      /\ Others(t)
  BY <1>1 DEF Leaves, Others
<1>3. \A x \in Engines \cup Models \cup Results :
        /\ Live(heap[x]) \/ Live(heap'[x]) => heap'[x] = heap[x]
        /\ Live(heap'[x]) <=> Live(heap[x])
  BY <1>2 DEF Objects
<1>4. \A u \in Threads : Place(u)'
  <2>1. ASSUME NEW u \in Threads \ {t} PROVE Place(u)'
    <3>1. at[u] = "loading" => heap'[arg[u].model] = heap[arg[u].model]
      BY <1>3 DEF ApiInv, Place
    <3>2. QED BY <1>2, <2>1, <3>1, PlaceKept DEF Others, ApiInv
  <2>2. QED BY <1>1, <2>1
<1>5. \A e \in Engines : EngineOwned(e)' BY <1>1, <1>2, <1>3, EnginesKept DEF ApiInv, Leaves
<1>6. \A m \in Models : ModelOwned(m)' BY <1>1, <1>2, <1>3, ModelsKept DEF ApiInv, Leaves
<1>7. \A r \in Results : ResultOwned(r)' BY <1>2, <1>3, ResultsKept DEF ApiInv
<1>8. ASSUME NEW m \in Models PROVE ModelServed(m)'
  <2>1. CASE Live(heap[m])
    <3>1. ModelServed(m) /\ heap'[m] = heap[m] BY <1>3, <2>1 DEF ApiInv
    <3>2. heap[m].engine \in held /\ heap[m].engine \in Engines
      BY <2>1, <3>1 DEF ModelServed, ApiInv, Types, HeapTypes, ModelObjects
    <3>3. Live(heap[heap[m].engine]) BY <3>2 DEF ApiInv, EngineOwned
    <3>4. heap'[heap[m].engine] = heap[heap[m].engine] BY <1>3, <3>2, <3>3
    <3>5. \A k \in Models : heap'[k] = heap[k] \/ ~Live(heap'[k]) BY <1>3
    <3>6. QED BY <1>2, <3>1, <3>2, <3>4, <3>5, ServedKept
  <2>2. CASE ~Live(heap[m]) BY <1>3, <2>2 DEF ModelServed
  <2>3. QED BY <2>1, <2>2
<1>9. ASSUME NEW u \in Threads PROVE InOrder(u)'
  <2>1. InOrder(u) /\ array[u] \in Seq(Results) /\ batch[u].results \in Seq(Results)
    BY DEF ApiInv, Types, CallTypes, OtherTypes, BatchesOf
  <2>2. arg'[u].images = arg[u].images \/ array[u] = <<>>
    BY <1>1, <1>2 DEF Leaves, Others
  <2>3. \A k \in Nat, r \in Results : InArray(u, k, r) \/ InBatch(u, k, r) => heap'[r] = heap[r]
    BY <1>3 DEF ApiInv, ResultOwned
  <2>4. QED BY <1>2, <2>1, <2>2, <2>3, OrderKept
<1>10. QED BY <1>1, <1>4, <1>5, <1>6, <1>7, <1>8, <1>9 DEF ApiInv

(* A step that touches engines only, and no model's. *)
LEMMA EngineSteps ==
  ASSUME ApiInv, NEW t \in Threads, NEW e \in Engines, Types', Place(t)',
         array' = array, batch' = batch, Others(t),
         \A x \in Objects \ {e} : heap'[x] = heap[x] /\ (x \in held' <=> x \in held),
         \A m \in Models : Live(heap[m]) => heap[m].engine # e,
         at[t] # "loading", at'[t] # "loading",
         \A x \in Engines \ {e}, u \in Threads : Initializes(u, x)' <=> Initializes(u, x),
         EngineOwned(e)',
         arg'[t].images = arg[t].images \/ array[t] = <<>>
  PROVE  ApiInv'
<1>1. /\ \A m \in Models : m \in Objects \ {e}
      /\ \A r \in Results : r \in Objects \ {e}
  BY HeapAssumption DEF Objects
<1>2. /\ \A m \in Models : heap'[m] = heap[m] /\ (m \in held' <=> m \in held)
      /\ \A r \in Results : heap'[r] = heap[r] /\ (r \in held' <=> r \in held)
  BY <1>1
<1>3. \A u \in Threads : Place(u)'
  <2>1. ASSUME NEW u \in Threads \ {t} PROVE Place(u)'
    <3>1. Place(u) BY DEF ApiInv
    <3>2. at[u] = "loading" => arg[u].model \in Models BY <3>1 DEF Place
    <3>3. at[u] \in Inferring \cup {"warmup"} => arg[u].model \in Models BY <3>1 DEF Place
    <3>4. QED BY <1>2, <3>1, <3>2, <3>3, PlaceKept DEF Others
  <2>2. QED BY <2>1
<1>4. ASSUME NEW x \in Engines PROVE EngineOwned(x)'
  <2>1. CASE x # e
    <3>1. x \in Objects \ {e} BY <2>1 DEF Objects
    <3>2. EngineOwned(x) BY DEF ApiInv
    <3>3. QED BY <2>1, <3>1, <3>2, EngineKept
  <2>2. QED BY <2>1
<1>5. \A m \in Models : ModelOwned(m)' BY <1>2, ModelsKept DEF ApiInv
<1>6. \A r \in Results : ResultOwned(r)' BY <1>2, ResultsKept DEF ApiInv
<1>7. ASSUME NEW m \in Models PROVE ModelServed(m)'
  <2>1. ModelServed(m) BY DEF ApiInv
  <2>2. Live(heap[m]) => heap[m].engine \in Objects \ {e}
    BY DEF ApiInv, Types, HeapTypes, ModelObjects, Objects
  <2>3. Live(heap[m]) => /\ heap'[heap[m].engine] = heap[heap[m].engine]
                          /\ heap[m].engine \in held'
    BY <2>1, <2>2 DEF ModelServed
  <2>4. QED BY <1>2, <2>1, <2>3, ServedKept
<1>8. ASSUME NEW u \in Threads PROVE InOrder(u)'
  <2>1. InOrder(u) /\ array[u] \in Seq(Results) /\ batch[u].results \in Seq(Results)
    BY DEF ApiInv, Types, CallTypes, OtherTypes, BatchesOf
  <2>2. arg'[u].images = arg[u].images \/ array[u] = <<>>
    BY DEF Others
  <2>3. QED BY <1>2, <2>1, <2>2, OrderKept
<1>9. QED BY <1>3, <1>4, <1>5, <1>6, <1>7, <1>8 DEF ApiInv

(* A return leaves a call with no arguments and no array. *)
LEMMA Returns ==
  ASSUME Types, NEW t \in Threads, NEW s, Return(t, s)
  PROVE  /\ at'[t] = "idle" /\ arg'[t] = NoArg /\ array'[t] = <<>>
         /\ \A u \in Threads \ {t} : at'[u] = at[u] /\ arg'[u] = arg[u] /\ array'[u] = array[u]
         /\ array[t] = <<>> => array' = array
BY DEF Types, CallTypes, Return, Goto

(* There it is where it should be. *)
LEMMA ReturnPlace ==
  ASSUME NEW t \in Threads, at'[t] = "idle", arg'[t] = NoArg, array'[t] = <<>>
  PROVE  Place(t)'
<1>1. Len(array'[t]) = 0 /\ Len(arg'[t].images) = 0 BY NoArgType
<1>2. QED BY <1>1, NoArgType DEF Place, Inferring

(* An idle call has no array. *)
LEMMA IdlePlace ==
  ASSUME NEW t \in Threads, Place(t), at[t] = "idle"
  PROVE  arg[t] = NoArg /\ array[t] = <<>>
BY NoArgType DEF Place

(* CreateEngine *)
LEMMA CreateKeeps ==
  ASSUME ApiInv, NEW t \in Threads, NEW type \in Backends \cup {"auto"}, CreateEngine(t, type)
  PROVE  ApiInv'
<1>1. PICK e \in Engines : /\ heap[e] = None
                           /\ heap' = [heap EXCEPT ![e] = NewEngine(Selected(type))]
                           /\ Enter(t, "initializing", Arguments(e, None, <<>>, FALSE))
  BY DEF CreateEngine
<1>2. Types /\ Types' BY TypesOfEngines DEF ApiInv
<1>3. at[t] = "idle" /\ arg[t] = NoArg /\ array[t] = <<>>
  BY <1>1, IdlePlace DEF Enter, Begin, ApiInv
<1>4. /\ at'[t] = "initializing" /\ arg'[t] = Arguments(e, None, <<>>, FALSE)
      /\ array' = array /\ batch' = batch /\ held' = held /\ Others(t)
  BY <1>1, <1>2 DEF CreateEngine, app, Enter, Goto, Types, CallTypes, Others
<1>5. arg'[t].engine = e /\ arg'[t].model = None /\ arg'[t].images = <<>> /\ ~arg'[t].many
  BY <1>4 DEF Arguments
<1>6. Place(t)'
  <2>1. Len(array'[t]) = 0 /\ Len(arg'[t].images) = 0 BY <1>3, <1>4, <1>5
  <2>2. at'[t] = "initializing" /\ arg'[t].engine \in Engines /\ ~arg'[t].many /\ array'[t] = <<>>
    BY <1>3, <1>4, <1>5
  <2>3. QED BY <2>1, <2>2 DEF Place, Inferring
<1>7. EngineOwned(e) BY DEF ApiInv
<1>8. e \notin held /\ \A u \in Threads : ~Initializes(u, e) BY <1>1, <1>7 DEF EngineOwned
<1>9. \A x \in Objects \ {e} : heap'[x] = heap[x] BY <1>1, <1>2 DEF Types, HeapTypes
<1>10. Live(heap'[e])
  <2>1. heap'[e] = NewEngine(Selected(type)) BY <1>1, <1>2 DEF Types, HeapTypes, Objects
  <2>2. Selected(type) \in Backends BY DEF CreateEngine, Selected, Backends
  <2>3. NewEngine(Selected(type)) \in EngineObjects BY <2>2 DEF NewEngine, EngineObjects, NetworkOrNone
  <2>4. QED BY <2>1, <2>3, HeapAssumption
<1>11. EngineOwned(e)'
  <2>1. Initializes(t, e)' BY <1>4, <1>5 DEF Initializes
  <2>2. \A u \in Threads : Initializes(u, e)' => u = t BY <1>4, <1>8 DEF Initializes, Others
  <2>3. QED BY <1>4, <1>8, <1>10, <2>1, <2>2 DEF EngineOwned
<1>12. \A x \in Engines \ {e}, u \in Threads : Initializes(u, x)' <=> Initializes(u, x)
  BY <1>3, <1>4, <1>5 DEF Initializes, Others
<1>13. \A m \in Models : Live(heap[m]) => heap[m].engine # e
  BY <1>8 DEF ApiInv, ModelServed
<1>14. QED BY <1>2, <1>3, <1>4, <1>6, <1>9, <1>11, <1>12, <1>13, EngineSteps

(* DestroyEngine *)
LEMMA DestroyKeeps ==
  ASSUME ApiInv, NEW t \in Threads, NEW e \in Engines, MayDestroy(e), DestroyEngine(t, e)
  PROVE  ApiInv'
<1>1. Types /\ Types' BY TypesOfEngines DEF ApiInv
<1>2. at[t] = "idle" /\ arg[t] = NoArg /\ array[t] = <<>>
  BY IdlePlace DEF DestroyEngine, Begin, ApiInv
<1>3. /\ at'[t] = "idle" /\ arg'[t] = NoArg /\ array'[t] = <<>> /\ array' = array /\ batch' = batch
      /\ Others(t)
  BY <1>1, <1>2, Returns DEF DestroyEngine, Others
<1>4. Place(t)' BY <1>3, ReturnPlace
<1>5. /\ \A x \in Objects \ {e} : heap'[x] = heap[x] /\ (x \in held' <=> x \in held)
      /\ heap'[e] = None /\ e \notin held'
  BY <1>1 DEF DestroyEngine, Types, HeapTypes, Objects
<1>6. \A x \in Engines, u \in Threads : Initializes(u, x)' <=> Initializes(u, x)
  BY <1>2, <1>3 DEF Initializes, Others
<1>7. \A u \in Threads : ~Initializes(u, e) BY DEF MayDestroy, Idle, Initializes
<1>8. EngineOwned(e)' BY <1>5, <1>6, <1>7 DEF EngineOwned
<1>9. \A m \in Models : Live(heap[m]) => heap[m].engine # e
  BY DEF MayDestroy, Idle, ModelsOn
<1>10. QED BY <1>1, <1>2, <1>3, <1>4, <1>5, <1>6, <1>8, <1>9, EngineSteps

(* InitializeSucceeds, InitializeFails and InitializeThrows *)
LEMMA InitializeKeeps ==
  ASSUME ApiInv, NEW t \in Threads,
         InitializeSucceeds(t) \/ InitializeFails(t) \/ InitializeThrows(t)
  PROVE  ApiInv'
<1>1. at[t] = "initializing" /\ Place(t)
  BY DEF InitializeSucceeds, InitializeFails, InitializeThrows, ApiInv
<1>0. PICK e \in Engines : e = arg[t].engine BY <1>1 DEF Place
<1>2. array[t] = <<>> /\ ~arg[t].many BY <1>1 DEF Place
<1>3. Types /\ Types' BY <1>0, TypesOfEngines DEF ApiInv
<1>4. Initializes(t, e) BY <1>0, <1>1 DEF Initializes
<1>5. EngineOwned(e) BY <1>2 DEF ApiInv
<1>6. Live(heap[e]) /\ e \notin held /\ \A u \in Threads : Initializes(u, e) => u = t
  BY <1>4, <1>5 DEF EngineOwned
<1>7. \A m \in Models : Live(heap[m]) => heap[m].engine # e
  BY <1>6 DEF ApiInv, ModelServed
<1>8. ASSUME at'[t] # "initializing", Others(t)
      PROVE  /\ \A x \in Engines \ {e}, u \in Threads : Initializes(u, x)' <=> Initializes(u, x)
             /\ \A u \in Threads : ~Initializes(u, e)'
  BY <1>0, <1>1, <1>6, <1>8 DEF Initializes, Others
<1>9. CASE InitializeSucceeds(t)
  <2>1. /\ at'[t] = "idle" /\ arg'[t] = NoArg /\ array'[t] = <<>> /\ array' = array /\ batch' = batch
        /\ Others(t)
    BY <1>2, <1>3, <1>9, Returns DEF InitializeSucceeds, Others
  <2>2. Place(t)' BY <2>1, ReturnPlace
  <2>3. heap' = heap /\ held' = held \cup {e} BY <1>0, <1>9 DEF InitializeSucceeds
  <2>4. EngineOwned(e)' BY <1>6, <1>8, <2>1, <2>3 DEF EngineOwned
  <2>5. QED BY <1>1, <1>2, <1>3, <1>7, <1>8, <2>1, <2>2, <2>3, <2>4, EngineSteps
<1>10. CASE InitializeFails(t) \/ InitializeThrows(t)
  <2>1. /\ at'[t] = "error" /\ arg' = arg /\ array' = array /\ batch' = batch /\ held' = held
        /\ Others(t)
    BY <1>3, <1>10 DEF InitializeFails, InitializeThrows, Fail, SetError, Goto, app,
       Others, Types, CallTypes
  <2>2. Place(t)' BY <1>1, <2>1 DEF Place, Inferring
  <2>3. ~Live(heap'[e]) /\ \A x \in Objects \ {e} : heap'[x] = heap[x]
    BY <1>0, <1>3, <1>10 DEF InitializeFails, InitializeThrows, Types, HeapTypes, Objects
  <2>4. EngineOwned(e)' BY <1>6, <1>8, <2>1, <2>3 DEF EngineOwned
  <2>5. QED BY <1>1, <1>2, <1>3, <1>7, <1>8, <2>1, <2>2, <2>3, <2>4, EngineSteps
<1>11. QED BY <1>9, <1>10

(* A step that touches one model and the engine it is on. *)
LEMMA ModelSteps ==
  ASSUME ApiInv, NEW t \in Threads, NEW m \in Models, NEW e \in Engines, Types', Place(t)',
         array' = array, batch' = batch, Others(t),
         \A x \in Objects \ {m, e} : heap'[x] = heap[x],
         \A x \in Objects \ {m} : x \in held' <=> x \in held,
         Live(heap[e]), Live(heap'[e]),
         \A k \in Models \ {m} : Live(heap[k]) => heap[k].engine # e,
         Live(heap'[m]) => heap'[m].engine = e,
         at[t] # "initializing", at'[t] # "initializing",
         \A k \in Models \ {m}, u \in Threads : Loads(u, k)' <=> Loads(u, k),
         \A u \in Threads \ {t} : arg[u].model = m =>
           at[u] # "loading" /\ (at[u] \in Inferring \cup {"warmup"} => m \in held'),
         ModelOwned(m)', ModelServed(m)',
         arg'[t].images = arg[t].images \/ array[t] = <<>>
  PROVE  ApiInv'
<1>1. /\ \A x \in Engines : x \in Objects \ {m}
      /\ \A r \in Results : r \in Objects \ {m, e}
      /\ \A k \in Models \ {m} : k \in Objects \ {m, e}
  BY HeapAssumption DEF Objects
<1>2. \A u \in Threads : Place(u)'
  <2>1. ASSUME NEW u \in Threads \ {t} PROVE Place(u)'
    <3>1. Place(u) BY DEF ApiInv
    <3>2. at[u] = "loading" => arg[u].model \in Models \ {m} BY <3>1 DEF Place
    <3>3. at[u] = "loading" => heap'[arg[u].model] = heap[arg[u].model] BY <1>1, <3>2
    <3>4. at[u] \in Inferring \cup {"warmup"} /\ arg[u].model \in held => arg[u].model \in held'
      <4>1. at[u] \in Inferring \cup {"warmup"} => arg[u].model \in Models BY <3>1 DEF Place
      <4>2. \A k \in Models \ {m} : k \in held => k \in held' BY <1>1
      <4>3. QED BY <4>1, <4>2
    <3>5. QED BY <3>1, <3>3, <3>4, PlaceKept DEF Others
  <2>2. QED BY <2>1
<1>3. ASSUME NEW x \in Engines PROVE EngineOwned(x)'
  <2>1. \A u \in Threads : Initializes(u, x)' <=> Initializes(u, x) BY DEF Initializes, Others
  <2>2. x \in held' <=> x \in held BY <1>1
  <2>3. Live(heap'[x]) <=> Live(heap[x])
    <3>1. x # e => x \in Objects \ {m, e} BY <1>1
    <3>2. QED BY <3>1
  <2>4. QED BY <2>1, <2>2, <2>3, EngineKept DEF ApiInv
<1>4. ASSUME NEW k \in Models PROVE ModelOwned(k)'
  <2>1. CASE k # m
    <3>1. ModelOwned(k) /\ heap'[k] = heap[k] /\ (k \in held' <=> k \in held)
      BY <1>1, <2>1 DEF ApiInv
    <3>2. QED BY <2>1, <3>1, ModelKept
  <2>2. QED BY <2>1
<1>5. \A r \in Results : ResultOwned(r)'
  <2>1. \A r \in Results : heap'[r] = heap[r] /\ (r \in held' <=> r \in held) BY <1>1
  <2>2. QED BY <2>1, ResultsKept DEF ApiInv
<1>6. ASSUME NEW k \in Models PROVE ModelServed(k)'
  <2>1. CASE k # m
    <3>1. ModelServed(k) /\ heap'[k] = heap[k] /\ (k \in held' <=> k \in held)
      BY <1>1, <2>1 DEF ApiInv
    <3>2. ASSUME Live(heap[k])
          PROVE  /\ heap'[heap[k].engine] = heap[heap[k].engine]
                 /\ heap[k].engine \in held'
                 /\ \A j \in Models :
                      heap'[j] = heap[j] \/ ~Live(heap'[j]) \/ heap'[j].engine # heap[k].engine
      <4>1. heap[k].engine \in Engines \ {e}
        BY <2>1, <3>2 DEF ApiInv, Types, HeapTypes, ModelObjects
      <4>2. heap[k].engine \in Objects \ {m, e} BY <1>1, <4>1
      <4>3. heap[k].engine \in held BY <3>1, <3>2 DEF ModelServed
      <4>4. \A j \in Models \ {m} : heap'[j] = heap[j] BY <1>1
      <4>5. ~Live(heap'[m]) \/ heap'[m].engine # heap[k].engine BY <4>1
      <4>6. QED BY <4>2, <4>3, <4>4, <4>5
    <3>3. QED BY <3>1, <3>2, ServedKept
  <2>2. QED BY <2>1
<1>7. ASSUME NEW u \in Threads PROVE InOrder(u)'
  <2>1. InOrder(u) /\ array[u] \in Seq(Results) /\ batch[u].results \in Seq(Results)
    BY DEF ApiInv, Types, CallTypes, OtherTypes, BatchesOf
  <2>2. arg'[u].images = arg[u].images \/ array[u] = <<>>
    BY DEF Others
  <2>3. \A r \in Results : heap'[r] = heap[r] BY <1>1
  <2>4. QED BY <2>1, <2>2, <2>3, OrderKept
<1>8. QED BY <1>2, <1>3, <1>4, <1>5, <1>6, <1>7 DEF ApiInv

(* LoadModel *)
LEMMA LoadModelKeeps ==
  ASSUME ApiInv, NEW t \in Threads, NEW e \in Engines, NEW n \in Networks, MayLoad(e, n), LoadModel(t, e, n)
  PROVE  ApiInv'
<1>1. PICK m \in Models : /\ heap[m] = None
                          /\ heap' = [heap EXCEPT ![m] = [engine |-> e, network |-> n]]
                          /\ Enter(t, "loading", Arguments(e, m, <<>>, FALSE))
  BY DEF LoadModel
<1>2. Types /\ Types' BY TypesOfModels DEF ApiInv
<1>3. at[t] = "idle" /\ arg[t] = NoArg /\ array[t] = <<>>
  BY <1>1, IdlePlace DEF Enter, Begin, ApiInv
<1>4. /\ at'[t] = "loading" /\ arg'[t] = Arguments(e, m, <<>>, FALSE)
      /\ array' = array /\ batch' = batch /\ held' = held /\ Others(t)
  BY <1>1, <1>2 DEF LoadModel, app, Enter, Goto, Types, CallTypes, Others
<1>5. arg'[t].engine = e /\ arg'[t].model = m /\ arg'[t].images = <<>> /\ ~arg'[t].many
  BY <1>4 DEF Arguments
<1>6. m # e /\ m \in Objects BY HeapAssumption DEF Objects
<1>7. /\ heap'[m] = [engine |-> e, network |-> n]
      /\ \A x \in Objects \ {m} : heap'[x] = heap[x]
  BY <1>1, <1>2, <1>6 DEF Types, HeapTypes
<1>8. Live(heap'[m]) /\ heap'[m].engine = e /\ heap'[m].network = n
  <2>1. [engine |-> e, network |-> n] \in ModelObjects BY DEF ModelObjects
  <2>2. QED BY <1>7, <2>1, HeapAssumption
<1>9. Place(t)'
  <2>1. Len(array'[t]) = 0 /\ Len(arg'[t].images) = 0 BY <1>3, <1>4, <1>5
  <2>2. /\ at'[t] = "loading" /\ arg'[t].engine \in Engines /\ arg'[t].model \in Models
        /\ Live(heap'[arg'[t].model]) /\ heap'[arg'[t].model].engine = arg'[t].engine
        /\ ~arg'[t].many /\ array'[t] = <<>>
    BY <1>3, <1>4, <1>5, <1>8
  <2>3. QED BY <2>1, <2>2 DEF Place, Inferring
<1>10. e \in held /\ ModelsOn(e) = {} BY DEF MayLoad, Idle
<1>11. Live(heap[e]) BY <1>10 DEF ApiInv, EngineOwned
<1>12. heap'[e] = heap[e] BY <1>6, <1>7 DEF Objects
<1>13. ModelOwned(m) BY DEF ApiInv
<1>14. m \notin held /\ \A u \in Threads : ~Loads(u, m) BY <1>1, <1>13 DEF ModelOwned
<1>15. \A k \in Models : Live(heap[k]) => heap[k].engine # e BY <1>10 DEF ModelsOn
<1>16. ModelOwned(m)'
  <2>1. Loads(t, m)' BY <1>4, <1>5 DEF Loads
  <2>2. \A u \in Threads : Loads(u, m)' => u = t BY <1>4, <1>14 DEF Loads, Others
  <2>3. QED BY <1>4, <1>8, <1>14, <2>1, <2>2 DEF ModelOwned
<1>17. ModelServed(m)'
  <2>1. \A k \in Models : Live(heap'[k]) /\ heap'[k].engine = e => k = m
    BY <1>7, <1>15 DEF Objects
  <2>2. heap'[e].backend = "onnxruntime"
          => {heap'[e].loaded, heap'[e].names, heap'[e].outputs} \subseteq {n, None}
    BY <1>11, <1>12 DEF MayLoad, OnnxEngines
  <2>3. QED BY <1>4, <1>8, <1>10, <1>14, <2>1, <2>2 DEF ModelServed
<1>18. \A k \in Models \ {m}, u \in Threads : Loads(u, k)' <=> Loads(u, k)
  BY <1>3, <1>4, <1>5 DEF Loads, Others
<1>19. \A u \in Threads \ {t} : arg[u].model = m =>
         at[u] # "loading" /\ (at[u] \in Inferring \cup {"warmup"} => m \in held')
  BY <1>14 DEF Loads, ApiInv, Place
<1>20. /\ \A x \in Objects \ {m, e} : heap'[x] = heap[x]
       /\ \A x \in Objects \ {m} : x \in held' <=> x \in held
  BY <1>4, <1>7
<1>21. at[t] # "initializing" /\ at'[t] # "initializing" BY <1>3, <1>4
<1>22. QED BY <1>2, <1>3, <1>4, <1>8, <1>9, <1>11, <1>12, <1>15,
              <1>16, <1>17, <1>18, <1>19, <1>20, <1>21, ModelSteps

(* UnloadModel *)
LEMMA UnloadKeeps ==
  ASSUME ApiInv, NEW t \in Threads, NEW m \in Models, MayUnload(m), UnloadModel(t, m)
  PROVE  ApiInv'
<1>1. Types /\ Types' BY TypesOfModels DEF ApiInv
<1>2. at[t] = "idle" /\ arg[t] = NoArg /\ array[t] = <<>>
  BY IdlePlace DEF UnloadModel, Begin, ApiInv
<1>3. /\ at'[t] = "idle" /\ arg'[t] = NoArg /\ array'[t] = <<>> /\ array' = array /\ batch' = batch
      /\ Others(t)
  BY <1>1, <1>2, Returns DEF UnloadModel, Others
<1>4. Place(t)' BY <1>3, ReturnPlace
<1>5. m \in held /\ ModelOwned(m) /\ ModelServed(m) BY DEF MayUnload, ApiInv
<1>6. Live(heap[m]) /\ heap[m].engine \in held BY <1>5 DEF ModelOwned, ModelServed
<1>7. PICK e \in Engines : e = heap[m].engine BY <1>1, <1>6 DEF Types, HeapTypes, ModelObjects
<1>8. Live(heap[e]) BY <1>6, <1>7 DEF ApiInv, EngineOwned
<1>9. m # e /\ m \in Objects /\ e \in Objects BY HeapAssumption DEF Objects
<1>10. /\ heap'[m] = None /\ m \notin held'
       /\ \A x \in Objects \ {m} : heap'[x] = heap[x] /\ (x \in held' <=> x \in held)
  BY <1>9 DEF UnloadModel, FreeAll, DeletedWith
<1>11. Live(heap'[e]) BY <1>8, <1>9, <1>10
<1>12. \A u \in Threads : ~Loads(u, m) /\ arg[u].model # m BY DEF MayUnload, Loads
<1>13. \A u \in Threads : ~Loads(u, m)' BY <1>3, <1>12 DEF Loads, Others
<1>14. ModelOwned(m)' BY <1>10, <1>13 DEF ModelOwned
<1>15. ModelServed(m)' BY <1>10 DEF ModelServed
<1>16. \A k \in Models \ {m} : Live(heap[k]) => heap[k].engine # e
  BY <1>5, <1>6, <1>7 DEF ModelServed
<1>17. \A k \in Models \ {m}, u \in Threads : Loads(u, k)' <=> Loads(u, k)
  BY <1>2, <1>3 DEF Loads, Others
<1>18. at[t] # "initializing" /\ at'[t] # "initializing" BY <1>2, <1>3
<1>19. /\ \A x \in Objects \ {m, e} : heap'[x] = heap[x]
       /\ \A x \in Objects \ {m} : x \in held' <=> x \in held
  BY <1>10
<1>20. QED
  BY <1>1, <1>2, <1>3, <1>4, <1>8, <1>10, <1>11, <1>12, <1>14, <1>15, <1>16, <1>17, <1>18, <1>19, ModelSteps

(* A load makes the engine hold the network, unless ONNX Runtime's names were another's. *)
LEMMA LoadsNetwork ==
  ASSUME Types, NEW e \in Engines, Live(heap[e]), NEW n \in Networks,
         heap[e].backend = "onnxruntime" =>
           {heap[e].loaded, heap[e].names, heap[e].outputs} \subseteq {n, None}
  PROVE  /\ Load(e, n).loaded = n
         /\ Load(e, n).backend = "onnxruntime" => Load(e, n).names = n /\ Load(e, n).outputs = n
<1>1. heap[e] \in EngineObjects BY DEF Types, HeapTypes
<1>2. First(None, n) = n /\ First(n, n) = n /\ None # n
  BY NoneAssumption DEF First
<1>3. CASE heap[e].backend = "tensorrt"
  <2>1. Load(e, n) = [heap[e] EXCEPT !.loaded = n] BY <1>3 DEF Load, Loaded
  <2>2. Load(e, n).loaded = n /\ Load(e, n).backend = heap[e].backend BY <1>1, <2>1 DEF EngineObjects
  <2>3. QED BY <1>3, <2>2
<1>4. CASE heap[e].backend # "tensorrt"
  <2>1. Load(e, n) = [heap[e] EXCEPT !.loaded = n, !.names = First(@, n), !.outputs = First(@, n)]
    BY <1>4 DEF Load, Loaded
  <2>2. /\ Load(e, n).loaded = n /\ Load(e, n).names = First(heap[e].names, n)
        /\ Load(e, n).outputs = First(heap[e].outputs, n) /\ Load(e, n).backend = heap[e].backend
    BY <1>1, <2>1 DEF EngineObjects
  <2>3. QED BY <1>2, <2>2
<1>5. QED BY <1>3, <1>4

(* A call that loads owns its model, whose engine has no other. *)
LEMMA Loading ==
  ASSUME ApiInv, NEW t \in Threads, at[t] = "loading", NEW e, NEW m, e = arg[t].engine, m = arg[t].model
  PROVE  /\ e \in Engines /\ m \in Models /\ Live(heap[m]) /\ heap[m].engine = e
         /\ heap[m].network \in Networks
         /\ Live(heap[e]) /\ e \in held /\ m \notin held
         /\ \A k \in Models \ {m} : Live(heap[k]) => heap[k].engine # e
         /\ \A u \in Threads : Loads(u, m) => u = t
         /\ heap[e].backend = "onnxruntime" =>
              {heap[e].loaded, heap[e].names, heap[e].outputs} \subseteq {heap[m].network, None}
         /\ array[t] = <<>> /\ ~arg[t].many
<1>1. /\ e \in Engines /\ m \in Models /\ Live(heap[m]) /\ heap[m].engine = e
      /\ array[t] = <<>> /\ ~arg[t].many
  BY DEF ApiInv, Place
<1>2. Loads(t, m) BY DEF Loads
<1>3. m \notin held /\ \A u \in Threads : Loads(u, m) => u = t BY <1>1, <1>2 DEF ApiInv, ModelOwned
<1>4. ModelServed(m) BY <1>1 DEF ApiInv
<1>5. e \in held BY <1>1, <1>4 DEF ModelServed
<1>6. Live(heap[e]) BY <1>1, <1>5 DEF ApiInv, EngineOwned
<1>7. heap[m].network \in Networks BY <1>1 DEF ApiInv, Types, HeapTypes, ModelObjects
<1>8. /\ \A k \in Models \ {m} : Live(heap[k]) => heap[k].engine # e
      /\ heap[e].backend = "onnxruntime" =>
           {heap[e].loaded, heap[e].names, heap[e].outputs} \subseteq {heap[m].network, None}
  BY <1>1, <1>4 DEF ModelServed
<1>9. QED BY <1>1, <1>3, <1>5, <1>6, <1>7, <1>8

(* LoadSucceeds *)
LEMMA LoadSucceedsKeeps ==
  ASSUME ApiInv, NEW t \in Threads, LoadSucceeds(t)
  PROVE  ApiInv'
<1>0. at[t] = "loading" BY DEF LoadSucceeds
<1>1. PICK e, m : e = arg[t].engine /\ m = arg[t].model OBVIOUS
<1>2. /\ e \in Engines /\ m \in Models /\ Live(heap[m]) /\ heap[m].engine = e
      /\ heap[m].network \in Networks
      /\ Live(heap[e]) /\ e \in held /\ m \notin held
      /\ \A k \in Models \ {m} : Live(heap[k]) => heap[k].engine # e
      /\ \A u \in Threads : Loads(u, m) => u = t
      /\ heap[e].backend = "onnxruntime" =>
           {heap[e].loaded, heap[e].names, heap[e].outputs} \subseteq {heap[m].network, None}
      /\ array[t] = <<>> /\ ~arg[t].many
  BY <1>0, <1>1, Loading
<1>3. Types /\ Types' BY <1>1, <1>2, TypesOfModels DEF ApiInv
<1>4. /\ at'[t] = "idle" /\ arg'[t] = NoArg /\ array'[t] = <<>> /\ array' = array /\ batch' = batch
      /\ Others(t)
  BY <1>2, <1>3, Returns DEF LoadSucceeds, Others
<1>5. Place(t)' BY <1>4, ReturnPlace
<1>6. PICK n \in Networks : n = heap[m].network BY <1>2
<1>7. m # e /\ m \in Objects /\ e \in Objects BY <1>2, HeapAssumption DEF Objects
<1>8. heap' = [heap EXCEPT ![e] = Load(e, n)] /\ held' = held \cup {m} BY <1>1, <1>6 DEF LoadSucceeds
<1>9. heap'[e] = Load(e, n) /\ \A x \in Objects \ {e} : heap'[x] = heap[x]
  BY <1>3, <1>7, <1>8 DEF Types, HeapTypes
<1>10. heap'[m] = heap[m] BY <1>7, <1>9
<1>11. Load(e, n) \in EngineObjects /\ Load(e, n).backend = heap[e].backend BY <1>2, <1>3, LoadsEngine
<1>12. Live(heap'[e]) BY <1>9, <1>11, HeapAssumption
<1>13. /\ Load(e, n).loaded = n
       /\ Load(e, n).backend = "onnxruntime" => Load(e, n).names = n /\ Load(e, n).outputs = n
  BY <1>2, <1>3, <1>6, LoadsNetwork
<1>14. \A u \in Threads : ~Loads(u, m)' BY <1>2, <1>4 DEF Loads, Others
<1>15. ModelOwned(m)' BY <1>2, <1>8, <1>10, <1>14 DEF ModelOwned
<1>16. ModelServed(m)'
  <2>1. heap'[m].engine = e /\ heap'[m].network = n BY <1>2, <1>6, <1>10
  <2>2. e \in held' BY <1>2, <1>8
  <2>3. \A k \in Models : Live(heap'[k]) /\ heap'[k].engine = e => k = m
    <3>1. \A k \in Models : k \in Objects \ {e} BY <1>2, HeapAssumption DEF Objects
    <3>2. QED BY <1>2, <1>9, <3>1
  <2>4. OfNetwork(e, n)' BY <1>9, <1>13 DEF OfNetwork
  <2>5. heap'[e].backend = "onnxruntime"
          => {heap'[e].loaded, heap'[e].names, heap'[e].outputs} \subseteq {n, None}
    BY <1>9, <1>13
  <2>6. OfNetwork(heap[m].engine, heap[m].network)' BY <2>1, <2>4 DEF OfNetwork
  <2>7. QED BY <2>1, <2>2, <2>3, <2>5, <2>6 DEF ModelServed
<1>17. \A k \in Models \ {m}, u \in Threads : Loads(u, k)' <=> Loads(u, k)
  BY <1>1, <1>4 DEF Loads, Others
<1>18. \A u \in Threads \ {t} : arg[u].model = m =>
         at[u] # "loading" /\ (at[u] \in Inferring \cup {"warmup"} => m \in held')
  BY <1>2, <1>8 DEF Loads
<1>19. /\ \A x \in Objects \ {m, e} : heap'[x] = heap[x]
       /\ \A x \in Objects \ {m} : x \in held' <=> x \in held
  BY <1>8, <1>9
<1>20. at[t] # "initializing" /\ at'[t] # "initializing" BY <1>0, <1>4
<1>21. QED
  BY <1>2, <1>3, <1>4, <1>5, <1>10, <1>12, <1>15, <1>16, <1>17, <1>18, <1>19, <1>20, ModelSteps

(* LoadFails and LoadThrows *)
LEMMA LoadFailsKeeps ==
  ASSUME ApiInv, NEW t \in Threads, LoadFails(t) \/ LoadThrows(t)
  PROVE  ApiInv'
<1>0. at[t] = "loading" BY DEF LoadFails, LoadThrows
<1>1. PICK e, m : e = arg[t].engine /\ m = arg[t].model OBVIOUS
<1>2. /\ e \in Engines /\ m \in Models /\ Live(heap[m]) /\ heap[m].engine = e
      /\ heap[m].network \in Networks
      /\ Live(heap[e]) /\ e \in held /\ m \notin held
      /\ \A k \in Models \ {m} : Live(heap[k]) => heap[k].engine # e
      /\ \A u \in Threads : Loads(u, m) => u = t
      /\ array[t] = <<>> /\ ~arg[t].many
  BY <1>0, <1>1, Loading
<1>3. Types /\ Types' BY <1>1, <1>2, TypesOfModels DEF ApiInv
<1>4. PICK h \in HalfLoad(e, heap[m].network) \cup {Load(e, heap[m].network)}, left \in {None, Lost} :
        heap' = [heap EXCEPT ![e] = h, ![m] = left]
  BY <1>1 DEF LoadFails, LoadThrows
<1>5. held' = held /\ batch' = batch BY DEF LoadFails, LoadThrows, HeldAfterFailure, app
<1>6. /\ array' = array /\ Others(t) /\ Place(t)' /\ at'[t] \in {"idle", "error"}
      /\ arg'[t].images = arg[t].images \/ array[t] = <<>>
  <2>1. CASE FailSilently(t)
    <3>1. Return(t, "SILENT") BY <1>2, <2>1 DEF FailSilently, Ends
    <3>2. /\ at'[t] = "idle" /\ arg'[t] = NoArg /\ array'[t] = <<>> /\ array' = array
          /\ Others(t)
      BY <1>2, <1>3, <1>5, <3>1, Returns DEF Others
    <3>3. QED BY <1>2, <3>2, ReturnPlace
  <2>2. CASE Fail(t)
    <3>1. at'[t] = "error" /\ arg' = arg /\ array' = array /\ Others(t)
      BY <1>3, <1>5, <2>2 DEF Fail, SetError, Goto, Others, Types, CallTypes
    <3>2. Place(t) BY DEF ApiInv
    <3>3. Place(t)' BY <1>0, <1>5, <3>1, <3>2 DEF Place, Inferring
    <3>4. QED BY <3>1, <3>3
  <2>3. QED BY <2>1, <2>2 DEF LoadFails, LoadThrows
<1>7. m # e /\ m \in Objects /\ e \in Objects BY <1>2, HeapAssumption DEF Objects
<1>8. heap'[e] = h /\ ~Live(heap'[m]) /\ \A x \in Objects \ {m, e} : heap'[x] = heap[x]
  BY <1>3, <1>4, <1>7 DEF Types, HeapTypes
<1>9. Live(heap'[e])
  <2>1. h \in EngineObjects BY <1>2, <1>3, LoadsEngine
  <2>2. QED BY <1>8, <2>1, HeapAssumption
<1>10. \A u \in Threads : ~Loads(u, m)' BY <1>2, <1>6 DEF Loads, Others
<1>11. ModelOwned(m)' BY <1>2, <1>5, <1>8, <1>10 DEF ModelOwned
<1>12. ModelServed(m)' BY <1>8 DEF ModelServed
<1>13. \A k \in Models \ {m}, u \in Threads : Loads(u, k)' <=> Loads(u, k)
  BY <1>1, <1>6 DEF Loads, Others
<1>14. ASSUME NEW u \in Threads \ {t}, arg[u].model = m
       PROVE  at[u] # "loading" /\ (at[u] \in Inferring \cup {"warmup"} => m \in held')
  <2>1. at[u] # "loading" BY <1>2, <1>14 DEF Loads
  <2>2. Place(u) BY DEF ApiInv
  <2>3. QED BY <1>2, <1>14, <2>1, <2>2 DEF Place
<1>15. \A x \in Objects \ {m} : x \in held' <=> x \in held BY <1>5
<1>16. at[t] # "initializing" /\ at'[t] # "initializing" BY <1>0, <1>6
<1>17. QED
  BY <1>2, <1>3, <1>5, <1>6, <1>8, <1>9, <1>11, <1>12, <1>13, <1>14, <1>15, <1>16, ModelSteps

(* A step that touches results only. *)
LEMMA ResultSteps ==
  ASSUME ApiInv, NEW t \in Threads, Types', Place(t)', Others(t),
         \A x \in Engines \cup Models : heap'[x] = heap[x] /\ (x \in held' <=> x \in held),
         at[t] \notin {"initializing", "loading"}, at'[t] \notin {"initializing", "loading"},
         \A r \in Results : ResultOwned(r)',
         \A u \in Threads \ {t}, k \in Nat, r \in Results :
           InArray(u, k, r) \/ InBatch(u, k, r) => heap'[r] = heap[r],
         InOrder(t)'
  PROVE  ApiInv'
<1>1. \A u \in Threads : Place(u)'
  <2>1. ASSUME NEW u \in Threads \ {t} PROVE Place(u)'
    <3>1. Place(u) BY DEF ApiInv
    <3>2. at[u] \in {"loading", "warmup"} \cup Inferring => arg[u].model \in Models BY <3>1 DEF Place
    <3>3. QED BY <3>1, <3>2, PlaceKept DEF Others
  <2>2. QED BY <2>1
<1>2. \A e \in Engines : EngineOwned(e)' BY EnginesKept DEF ApiInv
<1>3. \A m \in Models : ModelOwned(m)' BY ModelsKept DEF ApiInv
<1>4. ASSUME NEW m \in Models PROVE ModelServed(m)'
  <2>1. ModelServed(m) BY DEF ApiInv
  <2>2. Live(heap[m]) => heap[m].engine \in Engines BY DEF ApiInv, Types, HeapTypes, ModelObjects
  <2>3. QED BY <2>1, <2>2, ServedKept DEF ModelServed
<1>5. ASSUME NEW u \in Threads PROVE InOrder(u)'
  <2>1. CASE u # t
    <3>1. InOrder(u) /\ array[u] \in Seq(Results) /\ batch[u].results \in Seq(Results)
      BY DEF ApiInv, Types, CallTypes, OtherTypes, BatchesOf
    <3>2. array'[u] = array[u] /\ batch'[u] = batch[u] /\ arg'[u] = arg[u] BY <2>1 DEF Others
    <3>3. QED BY <2>1, <3>1, <3>2, OrderKept
  <2>2. QED BY <2>1
<1>6. QED BY <1>1, <1>2, <1>3, <1>4, <1>5 DEF ApiInv

(* FreeResult *)
LEMMA FreeResultKeeps ==
  ASSUME ApiInv, NEW t \in Threads, NEW r \in Results \cap held, FreeResult(t, r)
  PROVE  ApiInv'
<1>1. Types /\ Types' BY TypesOfResults DEF ApiInv
<1>2. at[t] = "idle" /\ arg[t] = NoArg /\ array[t] = <<>>
  BY IdlePlace DEF FreeResult, Begin, ApiInv
<1>3. /\ at'[t] = "idle" /\ arg'[t] = NoArg /\ array'[t] = <<>> /\ array' = array /\ batch' = batch
      /\ Others(t)
  BY <1>1, <1>2, Returns DEF FreeResult, Others
<1>4. Place(t)' BY <1>3, ReturnPlace
<1>5. r \in Objects /\ \A x \in Engines \cup Models : x \in Objects \ {r} BY HeapAssumption DEF Objects
<1>6. /\ heap'[r] = None /\ r \notin held'
      /\ \A x \in Objects \ {r} : heap'[x] = heap[x] /\ (x \in held' <=> x \in held)
  BY <1>5 DEF FreeResult, FreeAll
<1>7. ResultOwned(r) BY DEF ApiInv
<1>8. \A u \in Threads, k \in Nat : ~InArray(u, k, r) /\ ~InBatch(u, k, r) BY <1>7 DEF ResultOwned
<1>9. \A u \in Threads, k \in Nat, x \in Results : /\ (InArray(u, k, x)' <=> InArray(u, k, x))
                                               /\ (InBatch(u, k, x)' <=> InBatch(u, k, x))
  BY <1>3 DEF InArray, InBatch
<1>10. ASSUME NEW x \in Results PROVE ResultOwned(x)'
  <2>1. CASE x = r BY <1>6, <1>8, <1>9, <2>1 DEF ResultOwned
  <2>2. CASE x # r
    <3>1. heap'[x] = heap[x] /\ (x \in held' <=> x \in held) BY <1>6, <2>2 DEF Objects
    <3>2. QED BY <1>9, <3>1, ResultKept DEF ApiInv
  <2>3. QED BY <2>1, <2>2
<1>11. \A u \in Threads, k \in Nat, x \in Results :
         InArray(u, k, x) \/ InBatch(u, k, x) => heap'[x] = heap[x]
  BY <1>6, <1>8 DEF Objects
<1>12. InOrder(t)'
  <2>1. InOrder(t) /\ array[t] \in Seq(Results) /\ batch[t].results \in Seq(Results)
    BY <1>1 DEF ApiInv, Types, CallTypes, OtherTypes, BatchesOf
  <2>2. QED BY <1>2, <1>3, <1>11, <2>1, OrderKept
<1>13. QED BY <1>1, <1>2, <1>3, <1>4, <1>5, <1>6, <1>10, <1>11, <1>12, ResultSteps

(* CleanUp frees what is in the array, FreeBatch what has been handed over. *)
LEMMA FreeKeeps ==
  ASSUME ApiInv, NEW t \in Threads, CleanUp(t) \/ FreeBatch(t)
  PROVE  ApiInv'
<1>1. Types /\ Types' BY TypesOfResults DEF ApiInv
<1>2. /\ at[t] \notin {"initializing", "loading"}
      /\ at'[t] = "idle" /\ arg'[t] = NoArg /\ array'[t] = <<>>
      /\ \A u \in Threads \ {t} : at'[u] = at[u] /\ arg'[u] = arg[u] /\ array'[u] = array[u]
      /\ held' = held
  BY <1>1, Returns DEF CleanUp, FreeBatch, Begin, app
<1>3. Place(t)' BY <1>2, ReturnPlace
<1>4. array[t] \in Seq(Results) /\ batch[t].results \in Seq(Results) /\ batch \in [Threads -> BatchesOf]
  BY <1>1 DEF Types, CallTypes, OtherTypes, BatchesOf
<1>5. PICK freed \in SUBSET Results :
        /\ heap' = FreeAll(freed)
        /\ \A x \in Results :
             x \in freed <=> \/ (CleanUp(t) /\ \E k \in Nat : InArray(t, k, x))
                             \/ (FreeBatch(t) /\ \E k \in Nat : InBatch(t, k, x))
        /\ \/ CleanUp(t) /\ ~FreeBatch(t) /\ batch' = batch
           \/ FreeBatch(t) /\ ~CleanUp(t) /\ batch' = [batch EXCEPT ![t] = NoBatch] /\ array[t] = <<>>
  <2>1. CASE CleanUp(t)
    <3>1. heap' = FreeAll(Elements(array[t])) /\ ~FreeBatch(t) /\ batch' = batch
      BY <2>1 DEF CleanUp, Discarded, FreeBatch, Begin, app
    <3>2. \A x \in Results : x \in Elements(array[t]) <=> \E k \in Nat : InArray(t, k, x)
      BY <1>4 DEF Elements, InArray
    <3>3. Elements(array[t]) \in SUBSET Results BY <1>4 DEF Elements
    <3>4. QED BY <2>1, <3>1, <3>2, <3>3
  <2>2. CASE FreeBatch(t)
    <3>1. /\ heap' = FreeAll(Elements(batch[t].results)) /\ ~CleanUp(t)
          /\ batch' = [batch EXCEPT ![t] = NoBatch]
      BY <2>2 DEF CleanUp, FreeBatch, Begin
    <3>2. \A x \in Results : x \in Elements(batch[t].results) <=> \E k \in Nat : InBatch(t, k, x)
      BY <1>4 DEF Elements, InBatch
    <3>3. Elements(batch[t].results) \in SUBSET Results BY <1>4 DEF Elements
    <3>4. array[t] = <<>> BY <2>2, IdlePlace DEF FreeBatch, Begin, ApiInv
    <3>5. QED BY <2>2, <3>1, <3>2, <3>3, <3>4
  <2>3. QED BY <2>1, <2>2
<1>6. /\ \A x \in freed : heap'[x] = None
      /\ \A x \in Objects \ freed : heap'[x] = heap[x]
  BY <1>5 DEF FreeAll, Objects
<1>7. \A u \in Threads \ {t} : batch'[u] = batch[u] BY <1>4, <1>5
<1>8. Others(t) BY <1>2, <1>7 DEF Others
<1>9. \A u \in Threads \ {t}, k \in Nat, x \in Results : /\ (InArray(u, k, x)' <=> InArray(u, k, x))
                                                     /\ (InBatch(u, k, x)' <=> InBatch(u, k, x))
  BY <1>8 DEF InArray, InBatch, Others
<1>10. \A k \in Nat, x \in Results : ~InArray(t, k, x)'
  BY <1>2 DEF InArray
<1>11. \A k \in Nat, x \in Results : InBatch(t, k, x)' <=> InBatch(t, k, x) /\ CleanUp(t)
  <2>1. CASE batch' = batch /\ CleanUp(t) BY <2>1 DEF InBatch
  <2>2. CASE batch' = [batch EXCEPT ![t] = NoBatch] /\ ~CleanUp(t)
    <3>1. batch'[t] = NoBatch BY <1>4, <2>2
    <3>2. Len(batch'[t].results) = 0 BY <3>1 DEF NoBatch
    <3>3. QED BY <2>2, <3>2 DEF InBatch
  <2>3. QED BY <1>5, <2>1, <2>2
<1>12. \A k \in Nat, x \in Results : InArray(t, k, x) => CleanUp(t)
  BY <1>5 DEF InArray
<1>13. ASSUME NEW x \in Results PROVE ResultOwned(x)'
  <2>1. ResultOwned(x) BY DEF ApiInv
  <2>2. CASE x \in freed
    <3>1. x \notin held' BY <1>2, <1>5, <2>1, <2>2 DEF ResultOwned
    <3>2. \A u \in Threads, k \in Nat : ~InArray(u, k, x)' /\ ~InBatch(u, k, x)'
      BY <1>5, <1>9, <1>10, <1>11, <2>1, <2>2 DEF ResultOwned
    <3>3. heap'[x] = None BY <1>6, <2>2
    <3>4. QED BY <3>1, <3>2, <3>3 DEF ResultOwned
  <2>3. CASE x \notin freed
    <3>1. heap'[x] = heap[x] BY <1>6, <2>3 DEF Objects
    <3>2. \A u \in Threads, k \in Nat : (InArray(u, k, x)' <=> InArray(u, k, x))
                                        /\ (InBatch(u, k, x)' <=> InBatch(u, k, x))
      <4>1. \A k \in Nat : ~InArray(t, k, x) /\ (InBatch(t, k, x) => CleanUp(t))
        BY <1>5, <1>12, <2>3
      <4>2. \A k \in Nat : (InArray(t, k, x)' <=> InArray(t, k, x))
                           /\ (InBatch(t, k, x)' <=> InBatch(t, k, x))
        BY <1>10, <1>11, <4>1
      <4>3. QED BY <1>9, <4>2
    <3>3. QED BY <1>2, <2>1, <3>1, <3>2, ResultKept
  <2>4. QED BY <2>2, <2>3
<1>14. ASSUME NEW u \in Threads \ {t}, NEW k \in Nat, NEW x \in Results, InArray(u, k, x) \/ InBatch(u, k, x)
       PROVE  heap'[x] = heap[x]
  <2>1. ResultOwned(x) BY DEF ApiInv
  <2>2. x \notin freed BY <1>5, <1>14, <2>1 DEF ResultOwned
  <2>3. QED BY <1>6, <2>2 DEF Objects
<1>15. InOrder(t)'
  <2>1. InOrder(t) BY DEF ApiInv
  <2>2. Len(array'[t]) = 0 BY <1>2
  <2>3. CASE CleanUp(t)
    <3>1. batch'[t] = batch[t] BY <1>5, <2>3
    <3>2. ASSUME NEW k \in 1..Len(batch[t].results)
          PROVE heap'[batch[t].results[k]] = heap[batch[t].results[k]]
      <4>1. PICK x \in Results : x = batch[t].results[k] BY <1>4
      <4>2. InBatch(t, k, x) /\ k \in Nat BY <4>1 DEF InBatch
      <4>3. ResultOwned(x) BY DEF ApiInv
      <4>4. \A j \in Nat : ~InArray(t, j, x) BY <4>2, <4>3 DEF ResultOwned
      <4>5. x \notin freed BY <1>5, <2>3, <4>4
      <4>6. QED BY <1>6, <4>1, <4>5 DEF Objects
    <3>3. QED BY <2>1, <2>2, <3>1, <3>2 DEF InOrder
  <2>4. CASE FreeBatch(t)
    <3>1. batch'[t] = NoBatch BY <1>4, <1>5, <2>4
    <3>2. Len(batch'[t].results) = 0 /\ Len(batch'[t].images) = 0 BY <3>1 DEF NoBatch
    <3>3. QED BY <2>2, <3>2 DEF InOrder
  <2>5. QED BY <2>3, <2>4
<1>16. \A x \in Engines \cup Models : heap'[x] = heap[x] /\ (x \in held' <=> x \in held)
  BY <1>2, <1>6, HeapAssumption DEF Objects
<1>17. QED BY <1>1, <1>2, <1>3, <1>8, <1>13, <1>14, <1>15, <1>16, ResultSteps

(* A result that is appended to the array is its last. *)
LEMMA Appended ==
  ASSUME NEW s \in Seq(Results), NEW r \in Results
  PROVE  /\ Append(s, r) \in Seq(Results) /\ Len(Append(s, r)) = Len(s) + 1
         /\ \A k \in 1..Len(s) : Append(s, r)[k] = s[k]
         /\ Append(s, r)[Len(s) + 1] = r
OBVIOUS

(* Postprocess *)
LEMMA PostprocessKeeps ==
  ASSUME ApiInv, NEW t \in Threads, Postprocess(t)
  PROVE  ApiInv'
<1>1. at[t] = "postprocess" /\ Place(t) /\ InOrder(t) BY DEF Postprocess, ApiInv
<1>2. /\ Len(array[t]) < Len(arg[t].images)
      /\ arg[t].many => batch[t] = NoBatch
      /\ ~arg[t].many => array[t] = <<>>
  BY <1>1 DEF Place, Inferring
<1>3. Types /\ Types' BY <1>2, TypesOfResults DEF ApiInv
<1>4. /\ array \in [Threads -> Seq(Results)] /\ batch \in [Threads -> BatchesOf]
      /\ at \in [Threads -> Places] /\ arg[t].images \in Seq(Images)
  BY <1>3 DEF Types, CallTypes, OtherTypes, Args
<1>5. PICK n \in Nat : n = Len(array[t]) BY <1>4
<1>6. PICK r \in Results :
        LET got == Append(array[t], r)
        IN  /\ heap[r] = None
            /\ heap' = [heap EXCEPT ![r] = [image |-> CurrentImage(t)]]
            /\ IF ~arg[t].many
               THEN /\ held' = held \cup {r}
                    /\ Return(t, "SUCCESS")
                    /\ UNCHANGED batch
               ELSE IF Len(got) < Len(arg[t].images)
               THEN /\ array' = [array EXCEPT ![t] = got]
                    /\ Goto(t, "preprocess")
                    /\ UNCHANGED <<arg, status, app>>
               ELSE /\ batch' = [batch EXCEPT ![t] = [images |-> arg[t].images, results |-> got]]
                    /\ Return(t, "SUCCESS")
                    /\ UNCHANGED held
  BY DEF Postprocess
<1>7. PICK got \in Seq(Results) : got = Append(array[t], r)
  <2>1. array[t] \in Seq(Results) BY <1>4
  <2>2. Append(array[t], r) \in Seq(Results) BY <2>1, Appended
  <2>3. QED BY <2>2
<1>8. /\ Len(got) = n + 1 /\ got[n + 1] = r
      /\ \A k \in 1..n : got[k] = array[t][k]
  BY <1>4, <1>5, <1>7, Appended
<1>9. ResultOwned(r) BY DEF ApiInv
<1>10. r \notin held /\ \A u \in Threads, k \in Nat : ~InArray(u, k, r) /\ ~InBatch(u, k, r)
  BY <1>6, <1>9 DEF ResultOwned
<1>11. r \in Objects /\ \A x \in Engines \cup Models : x \in Objects \ {r} BY HeapAssumption DEF Objects
<1>12. /\ heap'[r] = [image |-> arg[t].images[n + 1]]
       /\ \A x \in Objects \ {r} : heap'[x] = heap[x]
  BY <1>3, <1>5, <1>6, <1>11 DEF Types, HeapTypes, CurrentImage
<1>13. Live(heap'[r])
  <2>1. arg[t].images[n + 1] \in Images BY <1>2, <1>4, <1>5
  <2>2. [image |-> arg[t].images[n + 1]] \in ResultObjects BY <2>1 DEF ResultObjects
  <2>3. QED BY <1>12, <2>2, HeapAssumption
<1>14. \A u \in Threads, k \in Nat, x \in Results : InArray(u, k, x) \/ InBatch(u, k, x) => heap'[x] = heap[x]
  BY <1>10, <1>12 DEF Objects
<1>15. \A x \in Results \ {r} : heap'[x] = heap[x] BY <1>12 DEF Objects
<1>16. \A k \in 1..n : heap'[array[t][k]] = [image |-> arg[t].images[k]]
  <2>1. ASSUME NEW k \in 1..n PROVE heap'[array[t][k]] = heap[array[t][k]]
    <3>1. PICK x \in Results : x = array[t][k] BY <1>4, <1>5
    <3>2. InArray(t, k, x) /\ k \in Nat BY <1>5, <3>1 DEF InArray
    <3>3. QED BY <1>14, <3>1, <3>2
  <2>2. QED BY <1>1, <1>5, <2>1 DEF InOrder
<1>17. \A k \in 1..(n + 1) : heap'[got[k]] = [image |-> arg[t].images[k]]
  <2>1. \A k \in 1..(n + 1) : k \in 1..n \/ k = n + 1 OBVIOUS
  <2>2. QED BY <1>8, <1>12, <1>16, <2>1
<1>18. \A k \in Nat, x \in Results : (k \in 1..Len(got) /\ got[k] = x)
         <=> InArray(t, k, x) \/ (k = n + 1 /\ x = r)
  <2>1. \A k \in Nat : k \in 1..(n + 1) <=> k \in 1..n \/ k = n + 1 OBVIOUS
  <2>2. QED BY <1>5, <1>8, <2>1 DEF InArray
<1>19. \A x \in Results : ResultOwned(x) BY DEF ApiInv
<1>20. CASE ~arg[t].many
  <2>1. array[t] = <<>> BY <1>2, <1>20
  <2>2. /\ at'[t] = "idle" /\ arg'[t] = NoArg /\ array'[t] = <<>> /\ array' = array /\ batch' = batch
        /\ Others(t) /\ held' = held \cup {r}
    BY <1>3, <1>6, <1>20, <2>1, Returns DEF Others
  <2>3. Place(t)' BY <2>2, ReturnPlace
  <2>4. \A u \in Threads, k \in Nat, x \in Results :
          (InArray(u, k, x)' <=> InArray(u, k, x)) /\ (InBatch(u, k, x)' <=> InBatch(u, k, x))
    BY <2>2 DEF InArray, InBatch
  <2>5. ASSUME NEW x \in Results PROVE ResultOwned(x)'
    <3>1. CASE x = r BY <1>10, <1>13, <2>2, <2>4, <3>1 DEF ResultOwned
    <3>2. CASE x # r BY <1>15, <1>19, <2>2, <2>4, <3>2, ResultKept
    <3>3. QED BY <3>1, <3>2
  <2>6. InOrder(t)'
    <3>1. batch[t].results \in Seq(Results) /\ array[t] \in Seq(Results) BY <1>4 DEF BatchesOf
    <3>2. QED BY <1>1, <1>14, <2>1, <2>2, <3>1, OrderKept
  <2>7. \A x \in Engines \cup Models : heap'[x] = heap[x] /\ (x \in held' <=> x \in held)
    BY <1>11, <1>12, <2>2
  <2>8. QED BY <1>1, <1>3, <1>14, <2>2, <2>3, <2>5, <2>6, <2>7, ResultSteps
<1>21. CASE arg[t].many /\ Len(got) < Len(arg[t].images)
  <2>1. /\ at' = [at EXCEPT ![t] = "preprocess"] /\ array' = [array EXCEPT ![t] = got]
        /\ arg' = arg /\ batch' = batch /\ held' = held
    BY <1>6, <1>7, <1>21 DEF Goto, app
  <2>2. at'[t] = "preprocess" /\ array'[t] = got /\ Others(t) BY <1>4, <2>1 DEF Others
  <2>3. Place(t)'
    <3>1. Len(array'[t]) < Len(arg'[t].images) /\ arg'[t].many /\ batch'[t] = NoBatch
      BY <1>2, <1>21, <2>1, <2>2
    <3>2. arg'[t].model \in Models \cap held' BY <1>1, <2>1 DEF Place, Inferring
    <3>3. Len(array'[t]) <= Len(arg'[t].images) BY <1>4, <1>8, <2>1, <2>2, <3>1
    <3>4. QED BY <2>2, <3>1, <3>2, <3>3 DEF Place
  <2>4. \A u \in Threads, k \in Nat, x \in Results : InBatch(u, k, x)' <=> InBatch(u, k, x)
    BY <2>1 DEF InBatch
  <2>5. \A u \in Threads \ {t}, k \in Nat, x \in Results : InArray(u, k, x)' <=> InArray(u, k, x)
    BY <2>2 DEF InArray, Others
  <2>6. \A k \in Nat, x \in Results : InArray(t, k, x)' <=> InArray(t, k, x) \/ (k = n + 1 /\ x = r)
    BY <1>18, <2>2 DEF InArray
  <2>7. ASSUME NEW x \in Results PROVE ResultOwned(x)'
    <3>1. CASE x = r
      <4>1. \A u \in Threads, k \in Nat : InArray(u, k, r)' <=> u = t /\ k = n + 1
        BY <1>10, <2>5, <2>6
      <4>2. InArray(t, n + 1, r)' /\ n + 1 \in Nat BY <4>1
      <4>3. r \notin held' /\ \A u \in Threads, k \in Nat : ~InBatch(u, k, r)' BY <1>10, <2>1, <2>4
      <4>4. QED BY <1>13, <3>1, <4>1, <4>2, <4>3 DEF ResultOwned
    <3>2. CASE x # r
      <4>1. \A u \in Threads, k \in Nat : InArray(u, k, x)' <=> InArray(u, k, x) BY <2>5, <2>6, <3>2
      <4>2. QED BY <1>15, <1>19, <2>1, <2>4, <3>2, <4>1, ResultKept
    <3>3. QED BY <3>1, <3>2
  <2>8. InOrder(t)'
    <3>1. batch'[t] = NoBatch BY <1>2, <1>21, <2>1
    <3>2. Len(batch'[t].results) = 0 /\ Len(batch'[t].images) = 0 BY <3>1 DEF NoBatch
    <3>3. \A k \in 1..Len(array'[t]) : heap'[array'[t][k]] = [image |-> arg'[t].images[k]]
      BY <1>8, <1>17, <2>1, <2>2
    <3>4. QED BY <3>2, <3>3 DEF InOrder
  <2>9. \A x \in Engines \cup Models : heap'[x] = heap[x] /\ (x \in held' <=> x \in held)
    BY <1>11, <1>12, <2>1
  <2>10. QED BY <1>1, <1>3, <1>14, <2>2, <2>3, <2>7, <2>8, <2>9, ResultSteps
<1>22. CASE arg[t].many /\ ~(Len(got) < Len(arg[t].images))
  <2> DEFINE b == [images |-> arg[t].images, results |-> got]
  <2>1. batch' = [batch EXCEPT ![t] = b] /\ Return(t, "SUCCESS") /\ held' = held
    BY <1>6, <1>7, <1>22
  <2>2. batch'[t] = b /\ \A u \in Threads \ {t} : batch'[u] = batch[u] BY <1>4, <2>1
  <2>3. batch'[t].images = arg[t].images /\ batch'[t].results = got BY <2>2
  <2>4. at'[t] = "idle" /\ arg'[t] = NoArg /\ array'[t] = <<>> /\ Others(t)
    BY <1>3, <2>1, <2>2, Returns DEF Others
  <2>5. Place(t)' BY <2>4, ReturnPlace
  <2>6. \A u \in Threads \ {t}, k \in Nat, x \in Results :
          (InArray(u, k, x)' <=> InArray(u, k, x)) /\ (InBatch(u, k, x)' <=> InBatch(u, k, x))
    BY <2>4 DEF InArray, InBatch, Others
  <2>7. \A k \in Nat, x \in Results : ~InArray(t, k, x)'
    BY <2>4 DEF InArray
  <2>8. \A k \in Nat, x \in Results : ~InBatch(t, k, x)
    <3>1. Len(batch[t].results) = 0 BY <1>2, <1>22 DEF NoBatch
    <3>2. QED BY <3>1 DEF InBatch
  <2>9. \A k \in Nat, x \in Results : InBatch(t, k, x)' <=> InArray(t, k, x) \/ (k = n + 1 /\ x = r)
    BY <1>18, <2>3 DEF InBatch
  <2>10. ASSUME NEW x \in Results PROVE ResultOwned(x)'
    <3>1. CASE x = r
      <4>1. \A u \in Threads, k \in Nat : InBatch(u, k, r)' <=> u = t /\ k = n + 1
        BY <1>10, <2>6, <2>9
      <4>2. InBatch(t, n + 1, r)' /\ n + 1 \in Nat BY <4>1
      <4>3. r \notin held' /\ \A u \in Threads, k \in Nat : ~InArray(u, k, r)' BY <1>10, <2>1, <2>6, <2>7
      <4>4. QED BY <1>13, <3>1, <4>1, <4>2, <4>3 DEF ResultOwned
    <3>2. CASE x # r
      <4>1. \A k \in Nat : InBatch(t, k, x)' <=> InArray(t, k, x) BY <2>9, <3>2
      <4>2. ResultOwned(x) /\ heap'[x] = heap[x] /\ held' = held BY <1>15, <1>19, <2>1, <3>2
      <4>3. Live(heap'[x]) <=> \/ x \in held'
                                \/ \E u \in Threads, k \in Nat : InArray(u, k, x)' \/ InBatch(u, k, x)'
        <5>1. (\E u \in Threads, k \in Nat : InArray(u, k, x) \/ InBatch(u, k, x))
                 => \E u \in Threads, k \in Nat : InArray(u, k, x)' \/ InBatch(u, k, x)'
          BY <2>6, <2>8, <4>1
        <5>2. (\E u \in Threads, k \in Nat : InArray(u, k, x)' \/ InBatch(u, k, x)')
                 => \E u \in Threads, k \in Nat : InArray(u, k, x) \/ InBatch(u, k, x)
          BY <2>6, <2>7, <4>1
        <5>3. QED BY <4>2, <5>1, <5>2 DEF ResultOwned
      <4>4. ASSUME NEW u \in Threads, NEW v \in Threads, NEW j \in Nat, NEW k \in Nat
            PROVE  /\ InArray(u, j, x)' =>
                        x \notin held' /\ ~InBatch(v, k, x)' /\ (InArray(v, k, x)' => u = v /\ j = k)
                   /\ InBatch(u, j, x)' => x \notin held' /\ (InBatch(v, k, x)' => u = v /\ j = k)
        BY <2>6, <2>7, <2>8, <4>1, <4>2 DEF ResultOwned
      <4>5. QED BY <4>3, <4>4 DEF ResultOwned
    <3>3. QED BY <3>1, <3>2
  <2>11. InOrder(t)'
    <3>1. Len(got) = Len(arg[t].images)
      <4>1. Len(arg[t].images) \in Nat BY <1>4
      <4>2. QED BY <1>2, <1>5, <1>8, <1>22, <4>1
    <3>2. Len(array'[t]) = 0 BY <2>4
    <3>3. QED BY <1>8, <1>17, <2>3, <3>1, <3>2 DEF InOrder
  <2>12. \A x \in Engines \cup Models : heap'[x] = heap[x] /\ (x \in held' <=> x \in held)
    BY <1>11, <1>12, <2>1
  <2>13. QED BY <1>1, <1>3, <1>14, <2>4, <2>5, <2>10, <2>11, <2>12, ResultSteps
<1>23. QED BY <1>20, <1>21, <1>22

-----------------------------------------------------------------------------
(* The invariant holds at first, *)
LEMMA InitHolds == Init => ApiInv
<1> SUFFICES ASSUME Init PROVE ApiInv OBVIOUS
<1>1. /\ build \in Builds /\ held = {} /\ errorMutex = None
      /\ \A x \in Objects : heap[x] = None
      /\ heap \in [Objects -> {None}]
      /\ \A t \in Threads : /\ at[t] = "idle" /\ arg[t] = NoArg /\ array[t] = <<>>
                            /\ batch[t] = NoBatch
  BY DEF Init
<1>2. NoBatch \in BatchesOf /\ NoBatch.results = <<>> /\ NoBatch.images = <<>> BY DEF NoBatch, BatchesOf
<1>3. Types
  <2>1. HeapTypes BY <1>1 DEF HeapTypes, Objects
  <2>2. CallTypes BY NoArgType DEF Init, CallTypes, Places
  <2>3. OtherTypes BY <1>1, <1>2 DEF Init, OtherTypes
  <2>4. QED BY <2>1, <2>2, <2>3 DEF Types
<1>4. ASSUME NEW t \in Threads PROVE Place(t) /\ InOrder(t)
  <2>1. Len(array[t]) = 0 /\ Len(arg[t].images) = 0 /\ Len(batch[t].results) = 0 /\ Len(batch[t].images) = 0
    BY <1>1, <1>2, NoArgType
  <2>2. Place(t) BY <1>1, <2>1, NoArgType DEF Place, Inferring
  <2>3. InOrder(t) BY <2>1 DEF InOrder
  <2>4. QED BY <2>2, <2>3
<1>5. \A e \in Engines : EngineOwned(e) BY <1>1 DEF EngineOwned, Initializes, Objects
<1>6. \A m \in Models : ModelOwned(m) /\ ModelServed(m) BY <1>1 DEF ModelOwned, ModelServed, Loads, Objects
<1>7. ASSUME NEW r \in Results PROVE ResultOwned(r)
  <2>1. \A t \in Threads : Len(array[t]) = 0 /\ Len(batch[t].results) = 0 BY <1>1, <1>2
  <2>2. \A t \in Threads, k \in Nat : ~InArray(t, k, r) /\ ~InBatch(t, k, r) BY <2>1 DEF InArray, InBatch
  <2>3. heap[r] = None /\ r \notin held BY <1>1 DEF Objects
  <2>4. QED BY <2>2, <2>3 DEF ResultOwned
<1>8. QED BY <1>3, <1>4, <1>5, <1>6, <1>7 DEF ApiInv

(* every step of a call and of the application keeps it, *)
LEMMA StepKeeps ==
  ASSUME ApiInv, NEW t \in Threads, Use(t) \/ Proceed(t)
  PROVE  ApiInv'
<1>1. CASE Moves(t) BY <1>1, MovesKeep
<1>2. CASE \E type \in Backends \cup {"auto"} : CreateEngine(t, type) \/ NoBackend(t, type)
  BY <1>1, <1>2, CreateKeeps DEF Moves
<1>3. CASE \E e \in Engines : MayDestroy(e) /\ DestroyEngine(t, e) BY <1>3, DestroyKeeps
<1>4. CASE \E e \in Engines, n \in Networks : MayLoad(e, n) /\ LoadModel(t, e, n) BY <1>4, LoadModelKeeps
<1>5. CASE \E m \in Models : MayUnload(m) /\ UnloadModel(t, m) BY <1>5, UnloadKeeps
<1>6. CASE \/ \E m \in Models, image \in Images :
              MayUse(m) /\ (Infer(t, m, image) \/ InferFromFile(t, m, image))
           \/ \E m \in Models, images \in Batches :
              MayUse(m) /\ batch[t] = NoBatch /\ InferBatch(t, m, images)
           \/ \E m \in Models : MayUse(m) /\ WarmUp(t, m)
  <2>1. Calls(t) BY <1>6 DEF MayUse, Calls
  <2>2. QED BY <1>1, <2>1 DEF Moves
<1>7. CASE \E r \in Results \cap held : FreeResult(t, r) BY <1>7, FreeResultKeeps
<1>8. CASE CleanUp(t) \/ (batch[t] # NoBatch /\ FreeBatch(t)) BY <1>8, FreeKeeps
<1>9. CASE Steps(t) \/ ResultThrows(t) BY <1>1, <1>9 DEF Moves
<1>10. CASE InitializeSucceeds(t) \/ InitializeFails(t) \/ InitializeThrows(t) BY <1>10, InitializeKeeps
<1>11. CASE LoadSucceeds(t) BY <1>11, LoadSucceedsKeeps
<1>12. CASE LoadFails(t) \/ LoadThrows(t) BY <1>12, LoadFailsKeeps
<1>13. CASE Postprocess(t) BY <1>13, PostprocessKeeps
<1>14. Use(t) => ApiInv' BY <1>2, <1>3, <1>4, <1>5, <1>6, <1>7, <1>8, <1>9 DEF Use, Steps
<1>15. Proceed(t) => ApiInv' BY <1>8, <1>9, <1>10, <1>11, <1>12, <1>13 DEF Proceed, Steps
<1>16. QED BY <1>14, <1>15

(* and so does a step that changes nothing. *)
LEMMA StutterKeeps == ASSUME ApiInv, UNCHANGED vars PROVE ApiInv'
<1>1. UNCHANGED <<build, heap, at, arg, array, status, batch, held, errorMutex, lastError>>
  BY DEF vars, calls, app, errors
<1>2. Types' BY <1>1 DEF ApiInv, Types, HeapTypes, CallTypes, OtherTypes
<1>3. \A t \in Threads : Place(t)' BY <1>1 DEF ApiInv, Place
<1>4. \A e \in Engines : EngineOwned(e)' BY <1>1 DEF ApiInv, EngineOwned, Initializes
<1>5. \A m \in Models : ModelOwned(m)' BY <1>1 DEF ApiInv, ModelOwned, Loads
<1>6. \A r \in Results : ResultOwned(r)' BY <1>1, ResultsKept DEF ApiInv
<1>7. \A m \in Models : ModelServed(m)' BY <1>1 DEF ApiInv, ModelServed, OfNetwork
<1>8. \A t \in Threads : InOrder(t)' BY <1>1 DEF ApiInv, InOrder
<1>9. QED BY <1>2, <1>3, <1>4, <1>5, <1>6, <1>7, <1>8 DEF ApiInv

(* The invariant of the API: every object has one owner, every call is at  *)
(* a place its arguments fit, every engine serves the model that was       *)
(* loaded on it, every batch is in the order of its images.                *)
THEOREM ApiInvariant == Spec => []ApiInv
<1>1. ApiInv /\ [Next]_vars => ApiInv' BY StepKeeps, StutterKeeps DEF Next
<1>2. QED BY <1>1, InitHolds, PTL DEF Spec

-----------------------------------------------------------------------------
(* The properties. *)

(* Variables hold what their names say, whatever the application does.     *)
THEOREM TypeCorrect == Spec => []TypeOK
<1>1. ASSUME ApiInv PROVE TypeOK
  <2>1. HeapTypes /\ CallTypes /\ OtherTypes BY <1>1 DEF ApiInv, Types
  <2>2. ASSUME NEW t \in Threads
        PROVE  /\ arg[t].engine \in Engines \cup {None} /\ arg[t].model \in Models \cup {None}
               /\ Elements(arg[t].images) \subseteq Images /\ arg[t].many \in BOOLEAN
               /\ Elements(array[t]) \subseteq Results
               /\ Len(array[t]) <= Len(arg[t].images)
    <3>1. arg[t] \in Args /\ array[t] \in Seq(Results) BY <2>1 DEF CallTypes
    <3>2. arg[t].engine \in Engines \cup {None} /\ arg[t].model \in Models \cup {None}
          /\ arg[t].images \in Seq(Images) /\ arg[t].many \in BOOLEAN
      BY <3>1 DEF Args
    <3>3. Elements(arg[t].images) \subseteq Images /\ Elements(array[t]) \subseteq Results
      BY <3>1, <3>2 DEF Elements
    <3>4. Len(array[t]) <= Len(arg[t].images) BY <1>1 DEF ApiInv, Place
    <3>5. QED BY <3>2, <3>3, <3>4
  <2>3. QED BY <2>1, <2>2 DEF TypeOK, HeapTypes, CallTypes, OtherTypes
<1>2. QED BY <1>1, ApiInvariant, PTL

(* What the set of an object's owners holds. *)
LEMMA OwnersAre ==
  ASSUME Types, NEW x, NEW o
  PROVE  o \in Owners(x) <=>
           \/ x \in held /\ o = <<"application", None, 0>>
           \/ \E t \in Threads : x \in Constructed(t) /\ o = <<"constructor", t, 0>>
           \/ \E t \in Threads, k \in Nat : InArray(t, k, x) /\ o = <<"array", t, k>>
           \/ \E t \in Threads, k \in Nat : InBatch(t, k, x) /\ o = <<"batch", t, k>>
<1>1. o \in Owners(x)
        <=> o \in ByApplication(x) \/ o \in ByConstructors(x) \/ o \in InArrays(x) \/ o \in InBatches(x)
  BY DEF Owners
<1>2. o \in ByApplication(x) <=> x \in held /\ o = <<"application", None, 0>>
  BY DEF ByApplication
<1>3. o \in ByConstructors(x) <=> \E t \in Threads : x \in Constructed(t) /\ o = <<"constructor", t, 0>>
  BY DEF ByConstructors
<1>4. \A t \in Threads : /\ DOMAIN array[t] = 1..Len(array[t])
                       /\ DOMAIN batch[t].results = 1..Len(batch[t].results)
                       /\ Len(array[t]) \in Nat /\ Len(batch[t].results) \in Nat
  BY DEF Types, CallTypes, OtherTypes, BatchesOf
<1>5. \A t \in Threads :
        /\ \A k : k \in DOMAIN array[t] /\ array[t][k] = x <=> k \in Nat /\ InArray(t, k, x)
        /\ \A k : k \in DOMAIN batch[t].results /\ batch[t].results[k] = x <=> k \in Nat /\ InBatch(t, k, x)
  BY <1>4 DEF InArray, InBatch
<1>6. o \in InArrays(x) <=> \E t \in Threads, k \in Nat : InArray(t, k, x) /\ o = <<"array", t, k>>
  BY <1>5 DEF InArrays
<1>7. o \in InBatches(x) <=> \E t \in Threads, k \in Nat : InBatch(t, k, x) /\ o = <<"batch", t, k>>
  BY <1>5 DEF InBatches
<1>8. QED BY <1>1, <1>2, <1>3, <1>6, <1>7

(* Every object that is not lost has one owner, and nobody owns free or    *)
(* lost memory.                                                            *)
THEOREM OwnershipCorrect == Spec => []Ownership
<1>1. ASSUME ApiInv, NEW x \in Objects
      PROVE  IF Exists(x) THEN \E o : Owners(x) = {o} ELSE Owners(x) = {}
  <2>0. Types BY <1>1 DEF ApiInv
  <2>1. \A t \in Threads : x \in Constructed(t) <=> Initializes(t, x) \/ Loads(t, x)
    BY DEF Constructed, Initializes, Loads
  <2>2. ASSUME NEW t \in Threads, NEW k \in Nat, InArray(t, k, x) \/ InBatch(t, k, x) PROVE x \in Results
    BY <2>0, <2>2 DEF InArray, InBatch, Types, CallTypes, OtherTypes, BatchesOf
  <2>3. \A t \in Threads : /\ Initializes(t, x) => x \in Engines
                           /\ Loads(t, x) => x \in Models
    BY <1>1 DEF ApiInv, Place, Initializes, Loads
  <2>4. CASE x \in Engines
    <3>1. x \notin Models /\ x \notin Results BY <2>4, HeapAssumption
    <3>2. EngineOwned(x) BY <1>1, <2>4 DEF ApiInv
    <3>3. \A o : o \in Owners(x) <=> \/ x \in held /\ o = <<"application", None, 0>>
                                   \/ \E t \in Threads : Initializes(t, x) /\ o = <<"constructor", t, 0>>
      BY <2>0, <2>1, <2>2, <2>3, <3>1, OwnersAre
    <3>4. CASE ~Live(heap[x]) BY <3>2, <3>3, <3>4 DEF EngineOwned
    <3>5. CASE x \in held
      <4>1. Owners(x) = {<<"application", None, 0>>} BY <3>2, <3>3, <3>5 DEF EngineOwned
      <4>2. QED BY <3>2, <3>5, <4>1 DEF EngineOwned
    <3>6. CASE \E t \in Threads : Initializes(t, x)
      <4>1. PICK t \in Threads : Initializes(t, x) BY <3>6
      <4>2. Owners(x) = {<<"constructor", t, 0>>} BY <3>2, <3>3, <4>1 DEF EngineOwned
      <4>3. QED BY <3>2, <3>6, <4>2 DEF EngineOwned
    <3>7. QED BY <3>2, <3>4, <3>5, <3>6 DEF EngineOwned
  <2>5. CASE x \in Models
    <3>1. x \notin Engines /\ x \notin Results BY <2>5, HeapAssumption
    <3>2. ModelOwned(x) BY <1>1, <2>5 DEF ApiInv
    <3>3. \A o : o \in Owners(x) <=> \/ x \in held /\ o = <<"application", None, 0>>
                                   \/ \E t \in Threads : Loads(t, x) /\ o = <<"constructor", t, 0>>
      BY <2>0, <2>1, <2>2, <2>3, <3>1, OwnersAre
    <3>4. CASE ~Live(heap[x]) BY <3>2, <3>3, <3>4 DEF ModelOwned
    <3>5. CASE x \in held
      <4>1. Owners(x) = {<<"application", None, 0>>} BY <3>2, <3>3, <3>5 DEF ModelOwned
      <4>2. QED BY <3>2, <3>5, <4>1 DEF ModelOwned
    <3>6. CASE \E t \in Threads : Loads(t, x)
      <4>1. PICK t \in Threads : Loads(t, x) BY <3>6
      <4>2. Owners(x) = {<<"constructor", t, 0>>} BY <3>2, <3>3, <4>1 DEF ModelOwned
      <4>3. QED BY <3>2, <3>6, <4>2 DEF ModelOwned
    <3>7. QED BY <3>2, <3>4, <3>5, <3>6 DEF ModelOwned
  <2>6. CASE x \in Results
    <3>1. x \notin Engines /\ x \notin Models BY <2>6, HeapAssumption
    <3>2. ResultOwned(x) BY <1>1, <2>6 DEF ApiInv
    <3>3. \A o : o \in Owners(x) <=>
            \/ x \in held /\ o = <<"application", None, 0>>
            \/ \E t \in Threads, k \in Nat : InArray(t, k, x) /\ o = <<"array", t, k>>
            \/ \E t \in Threads, k \in Nat : InBatch(t, k, x) /\ o = <<"batch", t, k>>
      BY <2>0, <2>1, <2>3, <3>1, OwnersAre
    <3>4. CASE ~Live(heap[x])
      <4>1. \A o : o \notin Owners(x) BY <3>2, <3>3, <3>4 DEF ResultOwned
      <4>2. QED BY <3>4, <4>1
    <3>5. CASE x \in held
      <4>1. \A t \in Threads, k \in Nat : ~InArray(t, k, x) /\ ~InBatch(t, k, x)
        BY <3>2, <3>5 DEF ResultOwned
      <4>2. Owners(x) = {<<"application", None, 0>>} BY <3>3, <3>5, <4>1
      <4>3. QED BY <3>2, <3>5, <4>2 DEF ResultOwned
    <3>6. ASSUME NEW t \in Threads, NEW k \in Nat, InArray(t, k, x)
          PROVE  Live(heap[x]) /\ Owners(x) = {<<"array", t, k>>}
      <4>1. /\ x \notin held /\ Live(heap[x])
            /\ \A u \in Threads, j \in Nat : ~InBatch(u, j, x) /\ (InArray(u, j, x) => t = u /\ k = j)
        BY <3>2, <3>6 DEF ResultOwned
      <4>2. QED BY <3>3, <3>6, <4>1
    <3>7. ASSUME NEW t \in Threads, NEW k \in Nat, InBatch(t, k, x)
          PROVE  Live(heap[x]) /\ Owners(x) = {<<"batch", t, k>>}
      <4>1. /\ x \notin held /\ Live(heap[x])
            /\ \A u \in Threads, j \in Nat : ~InArray(u, j, x) /\ (InBatch(u, j, x) => t = u /\ k = j)
        BY <3>2, <3>7 DEF ResultOwned
      <4>2. QED BY <3>3, <3>7, <4>1
    <3>8. QED BY <3>2, <3>4, <3>5, <3>6, <3>7 DEF ResultOwned
  <2>7. QED BY <2>4, <2>5, <2>6 DEF Objects
<1>2. ASSUME ApiInv PROVE Ownership
  <2>1. Cardinality({}) = 0 /\ \A o : Cardinality({o}) = 1 BY FS_EmptySet, FS_Singleton
  <2>2. QED BY <1>1, <1>2, <2>1 DEF Ownership
<1>3. QED BY <1>2, ApiInvariant, PTL

(* No call works on an engine or a model that another call has freed.      *)
THEOREM HandlesCorrect == Spec => []NoUseAfterFree
<1>1. ASSUME ApiInv, NEW t \in Threads
      PROVE  /\ at[t] \in {"imread", "preprocess", "inference", "postprocess", "warmup"} =>
                  Exists(arg[t].model) /\ Exists(heap[arg[t].model].engine)
             /\ at[t] \in {"initializing", "loading"} => Exists(arg[t].engine)
  <2>1. ASSUME at[t] \in {"imread", "preprocess", "inference", "postprocess", "warmup"}
        PROVE  Exists(arg[t].model) /\ Exists(heap[arg[t].model].engine)
    <3>1. PICK m \in Models \cap held : m = arg[t].model BY <1>1, <2>1 DEF ApiInv, Place, Inferring
    <3>2. Live(heap[m]) BY <1>1 DEF ApiInv, ModelOwned
    <3>3. heap[m].engine \in Engines \cap held
      BY <1>1, <3>2 DEF ApiInv, ModelServed, Types, HeapTypes, ModelObjects
    <3>4. Live(heap[heap[m].engine]) BY <1>1, <3>3 DEF ApiInv, EngineOwned
    <3>5. QED BY <3>1, <3>2, <3>4 DEF Exists
  <2>2. ASSUME at[t] = "initializing" PROVE Exists(arg[t].engine)
    <3>1. PICK e \in Engines : e = arg[t].engine BY <1>1, <2>2 DEF ApiInv, Place
    <3>2. Initializes(t, e) BY <2>2, <3>1 DEF Initializes
    <3>3. QED BY <1>1, <3>1, <3>2 DEF ApiInv, EngineOwned, Exists
  <2>3. ASSUME at[t] = "loading" PROVE Exists(arg[t].engine)
    BY <1>1, <2>3, Loading DEF Exists
  <2>4. QED BY <2>1, <2>2, <2>3
<1>2. ApiInv => NoUseAfterFree BY <1>1 DEF NoUseAfterFree
<1>3. QED BY <1>2, ApiInvariant, PTL

(* An inference runs the network of its own model, under its own names.    *)
THEOREM NetworkCorrect == Spec => []RunsOwnNetwork
<1>1. ASSUME ApiInv, NEW t \in Threads, at[t] = "inference"
      PROVE  /\ Engine(t).loaded = heap[arg[t].model].network
             /\ Engine(t).backend = "onnxruntime" =>
                  Engine(t).names = Engine(t).loaded /\ Engine(t).outputs = Engine(t).loaded
  <2>1. PICK m \in Models \cap held : m = arg[t].model BY <1>1 DEF ApiInv, Place, Inferring
  <2>2. Live(heap[m]) BY <1>1 DEF ApiInv, ModelOwned
  <2>3. OfNetwork(heap[m].engine, heap[m].network) BY <1>1, <2>2 DEF ApiInv, ModelServed
  <2>4. QED BY <2>1, <2>3 DEF OfNetwork, Engine
<1>2. ApiInv => RunsOwnNetwork BY <1>1 DEF RunsOwnNetwork
<1>3. QED BY <1>2, ApiInvariant, PTL

(* A batch that is handed over has one result for each image, in order.    *)
THEOREM BatchCorrect == Spec => []BatchInOrder
<1>1. ASSUME ApiInv, NEW t \in Threads
      PROVE  /\ Len(batch[t].results) = Len(batch[t].images)
             /\ \A k \in DOMAIN batch[t].results : heap[batch[t].results[k]] = [image |-> batch[t].images[k]]
  <2>1. batch[t].results \in Seq(Results) BY <1>1 DEF ApiInv, Types, OtherTypes, BatchesOf
  <2>2. DOMAIN batch[t].results = 1..Len(batch[t].results) BY <2>1
  <2>3. QED BY <1>1, <2>2 DEF ApiInv, InOrder
<1>2. ApiInv => BatchInOrder BY <1>1 DEF BatchInOrder
<1>3. QED BY <1>2, ApiInvariant, PTL

-----------------------------------------------------------------------------
(* The message of a call that failed. *)
MessageInv == CallTypes /\ OtherTypes /\ \A t \in Threads : HasMessage(t)

(* A thread keeps its message while others step. *)
LEMMA MessageKept ==
  ASSUME MessageInv, NEW t \in Threads, CallTypes', OtherTypes',
         \A u \in Threads \ {t} : /\ at'[u] = at[u] /\ status'[u] = status[u]
                                  /\ lastError'[u] = lastError[u] \/ lastError'[u] # "older",
         HasMessage(t)'
  PROVE  MessageInv'
BY DEF MessageInv, HasMessage

(* A step that enters a call, or fails, or ends a call that has its message. *)
LEMMA MessageStep ==
  ASSUME ApiInv, MessageInv, ApiInv', NEW t \in Threads, Use(t) \/ Proceed(t)
  PROVE  MessageInv'
<1>1. at \in [Threads -> Places] /\ status \in [Threads -> {"SUCCESS", "FAILED", "SILENT"}]
      /\ lastError \in [Threads -> {"older", "own", "other"}]
      /\ CallTypes' /\ OtherTypes' /\ HasMessage(t)
  BY DEF MessageInv, ApiInv, Types, CallTypes, OtherTypes
<1> DEFINE Same == lastError' = lastError \/ lastError' = [lastError EXCEPT ![t] = "older"]
<1>2. ASSUME NEW label, NEW a, Enter(t, label, a), label \notin {"idle", "reading", "logging", "cleanup"}
      PROVE  MessageInv'
  <2>1. /\ at'[t] = label
        /\ \A u \in Threads \ {t} : at'[u] = at[u] /\ status'[u] = status[u] /\ lastError'[u] = lastError[u]
    BY <1>1, <1>2 DEF Enter, Begin, Goto
  <2>2. HasMessage(t)' BY <1>2, <2>1 DEF HasMessage
  <2>3. QED BY <1>1, <2>1, <2>2, MessageKept
<1>3. ASSUME NEW s, SetError(t, s), Same PROVE MessageInv'
  <2>1. /\ at'[t] = "error"
        /\ \A u \in Threads \ {t} : at'[u] = at[u] /\ status'[u] = status[u] /\ lastError'[u] = lastError[u]
    BY <1>1, <1>3 DEF SetError, Goto
  <2>2. HasMessage(t)' BY <2>1 DEF HasMessage
  <2>3. QED BY <1>1, <2>1, <2>2, MessageKept
<1>4. ASSUME NEW s, Return(t, s), Same,
             s # "FAILED" \/ (s = status[t] /\ at[t] \in {"logging", "cleanup"} /\ lastError' = lastError)
      PROVE  MessageInv'
  <2>1. /\ at'[t] = "idle" /\ status'[t] = s
        /\ \A u \in Threads \ {t} : at'[u] = at[u] /\ status'[u] = status[u] /\ lastError'[u] = lastError[u]
    BY <1>1, <1>4 DEF Return, Goto
  <2>2. HasMessage(t)' BY <1>1, <1>4, <2>1 DEF HasMessage
  <2>3. QED BY <1>1, <2>1, <2>2, MessageKept
<1>5. ASSUME NEW s, Ends(t, s), lastError' = lastError,
             s # "FAILED" \/ (s = status[t] /\ at[t] = "logging")
      PROVE  MessageInv'
  <2>1. CASE arg[t].many
    <3>1. /\ at'[t] = "cleanup" /\ status'[t] = s
          /\ \A u \in Threads \ {t} : at'[u] = at[u] /\ status'[u] = status[u] /\ lastError'[u] = lastError[u]
      BY <1>1, <1>5, <2>1 DEF Ends, Goto
    <3>2. HasMessage(t)' BY <1>1, <1>5, <3>1 DEF HasMessage
    <3>3. QED BY <1>1, <3>1, <3>2, MessageKept
  <2>2. CASE ~arg[t].many BY <1>4, <1>5, <2>2 DEF Ends
  <2>3. QED BY <2>1, <2>2
<1>6. ASSUME NEW label, Goto(t, label), status' = status, lastError' = lastError,
             \/ label \notin {"idle", "reading", "logging", "cleanup"}
             \/ at[t] \in {"idle", "reading"}
      PROVE  MessageInv'
  <2>1. /\ at'[t] = label /\ status'[t] = status[t] /\ lastError'[t] = lastError[t]
        /\ \A u \in Threads \ {t} : at'[u] = at[u] /\ status'[u] = status[u] /\ lastError'[u] = lastError[u]
    BY <1>1, <1>6 DEF Goto
  <2>2. HasMessage(t)' BY <1>1, <1>6, <2>1 DEF HasMessage
  <2>3. QED BY <1>1, <2>1, <2>2, MessageKept
<1>7. CASE SetLastError(t)
  <2>1. /\ lastError'[t] = "own" /\ \A u \in Threads \ {t} : lastError'[u] = "other"
        /\ \A u \in Threads \ {t} : at'[u] = at[u] /\ status'[u] = status[u]
    BY <1>1, <1>7 DEF SetLastError, Goto
  <2>2. HasMessage(t)' BY <2>1 DEF HasMessage
  <2>3. QED BY <1>1, <2>1, <2>2, MessageKept
<1>8. CASE LogError(t) BY <1>5, <1>8 DEF LogError
<1>9. CASE GetLastError(t) \/ ReadMessage(t) BY <1>6, <1>9 DEF GetLastError, ReadMessage, errors
<1>10. CASE Reject(t) BY <1>3, <1>10 DEF Reject, Begin, Fail
<1>11. CASE \E type \in Backends \cup {"auto"} : CreateEngine(t, type) \/ NoBackend(t, type)
  BY <1>2, <1>3, <1>11 DEF CreateEngine, NoBackend, Begin, Fail
<1>12. CASE \/ \E e \in Engines : DestroyEngine(t, e)
            \/ \E m \in Models : UnloadModel(t, m)
            \/ \E r \in Results : FreeResult(t, r)
            \/ FreeBatch(t)
  BY <1>4, <1>12 DEF DestroyEngine, UnloadModel, FreeResult, FreeBatch, Begin
<1>13. CASE \E e \in Engines, n \in Networks : LoadModel(t, e, n) BY <1>2, <1>13 DEF LoadModel
<1>14. CASE Calls(t)
  <2>1. PICK label, m, images, many :
          /\ label \in {"preprocess", "imread", "warmup"} /\ m \in Models
          /\ Call(t, label, m, images, many)
    BY <1>14 DEF Calls, Infer, InferFromFile, InferBatch, WarmUp
  <2>2. QED BY <1>2, <2>1 DEF Call
<1>15. CASE InitializeSucceeds(t) \/ LoadSucceeds(t)
  BY <1>4, <1>15 DEF InitializeSucceeds, LoadSucceeds, errors
<1>16. CASE InitializeFails(t) \/ InitializeThrows(t) \/ PostprocessFails(t) \/ ResultThrows(t)
  BY <1>3, <1>16 DEF InitializeFails, InitializeThrows, PostprocessFails, ResultThrows, Catch, Fail, errors
<1>17. CASE LoadFails(t) \/ LoadThrows(t)
  BY <1>3, <1>5, <1>17 DEF LoadFails, LoadThrows, FailSilently, Fail, errors
<1>18. CASE ReadImage(t) \/ Preprocess(t) \/ Run(t)
  <2>1. lastError' = lastError BY <1>18 DEF ReadImage, Preprocess, Run, errors
  <2>2. \/ \E label \in {"preprocess", "inference", "postprocess"} : Goto(t, label) /\ status' = status
        \/ Fail(t) \/ FailSilently(t)
    BY <1>18 DEF ReadImage, Preprocess, Run
  <2>3. QED BY <1>3, <1>5, <1>6, <2>1, <2>2 DEF Fail, FailSilently
<1>19. CASE RunWarmUp(t) BY <1>3, <1>4, <1>19 DEF RunWarmUp, errors
<1>20. CASE CleanUp(t) BY <1>4, <1>20 DEF CleanUp, errors
<1>21. CASE Postprocess(t)
  <2>1. lastError' = lastError BY <1>21 DEF Postprocess, errors
  <2>2. Return(t, "SUCCESS") \/ (Goto(t, "preprocess") /\ status' = status) BY <1>21 DEF Postprocess
  <2>3. QED BY <1>4, <1>6, <2>1, <2>2
<1>22. CASE Use(t)
  <2>1. CASE \/ \E m \in Models, image \in Images :
                MayUse(m) /\ (Infer(t, m, image) \/ InferFromFile(t, m, image))
             \/ \E m \in Models, images \in Batches :
                MayUse(m) /\ batch[t] = NoBatch /\ InferBatch(t, m, images)
             \/ \E m \in Models : MayUse(m) /\ WarmUp(t, m)
    BY <1>14, <2>1 DEF MayUse, Calls
  <2>2. QED BY <1>9, <1>10, <1>11, <1>12, <1>13, <1>22, <2>1 DEF Use
<1>23. CASE Proceed(t)
  BY <1>7, <1>8, <1>9, <1>15, <1>16, <1>17, <1>18, <1>19, <1>20, <1>21, <1>23 DEF Proceed
<1>24. QED BY <1>22, <1>23

(* The message read after a call that failed is that call's, or a later    *)
(* one of another thread's: never one from before the call.                *)
THEOREM MessageCorrect == Spec => []MessageNotStale
<1>1. Init => MessageInv
  <2>1. Init => ApiInv BY InitHolds
  <2>2. Init => \A t \in Threads : status[t] # "FAILED" BY DEF Init
  <2>3. QED BY <2>1, <2>2 DEF ApiInv, Types, MessageInv, HasMessage
<1>2. ASSUME ApiInv, ApiInv', MessageInv, [Next]_vars PROVE MessageInv'
  <2>1. CASE Next BY <1>2, <2>1, MessageStep DEF Next
  <2>2. CASE UNCHANGED vars
    BY <1>2, <2>2 DEF vars, calls, app, errors, MessageInv, HasMessage, ApiInv, Types
  <2>3. QED BY <1>2, <2>1, <2>2
<1>3. MessageInv => MessageNotStale BY DEF MessageInv, HasMessage, MessageNotStale
<1>4. QED BY <1>1, <1>2, <1>3, ApiInvariant, PTL DEF Spec

=============================================================================
