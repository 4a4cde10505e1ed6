------------------------ MODULE ExampleProgramsProofs ------------------------
(***************************************************************************)
(* Proofs about ExamplePrograms: the example programs are applications of  *)
(* the API, and give back what they take, whatever fails.                  *)
(***************************************************************************)
EXTENDS ExamplePrograms, CRKitApiProofs

USE DEF Live, Exists

(* Where main is in the call of a line, with what outcome so far.          *)
Failing == {"error", "logging"}
InCall ==
  /\ line = "create"  => at[Main] \in {"idle", "initializing"} \cup Failing
  /\ line = "load"    => at[Main] \in {"idle", "loading"} \cup Failing
  /\ line = "warmup"  => at[Main] \in {"idle", "warmup"} \cup Failing
  /\ line = "infer"   => at[Main] \in {"idle"} \cup Inferring \cup Failing
  /\ line \in {"free", "unload", "destroy"} => at[Main] = "idle" /\ status[Main] = "SUCCESS"
  /\ line = "crashed" => at[Main] = "loading"
  /\ line # "exit"
  /\ line \in {"create", "load"} /\ at[Main] \in Failing => status[Main] = "FAILED"

MainPlace == /\ line \in Lines
             /\ calling => InCall
             /\ ~calling => at[Main] \in {"idle", "reading"} /\ line # "crashed"

(* What main holds at a line.                                              *)
Succeeded == calling /\ at[Main] = "idle" /\ status[Main] = "SUCCESS"
NoEngine == \/ line = "exit"
            \/ line = "create" /\ ~Succeeded
            \/ line = "destroy" /\ calling
NoModel  == \/ line \in {"create", "destroy", "exit"}
            \/ line = "load" /\ ~Succeeded
            \/ line = "unload" /\ calling
NoResult == \/ line \notin {"infer", "free"}
            \/ line = "infer" /\ ~Succeeded
            \/ line = "free" /\ calling

AtMostOne(S) == \A x, y \in S : x = y
Holds == /\ NoEngine => held \cap Engines = {}
         /\ NoModel => held \cap Models = {}
         /\ NoResult => held \cap Results = {}
         /\ AtMostOne(held \cap Engines)
         /\ AtMostOne(held \cap Models)
         /\ AtMostOne(held \cap Results)

(* Main is the only thread, it never infers on a batch, its engines run    *)
(* TensorRT.                                                               *)
MainOnly == /\ \A t \in Threads \ {Main} : at[t] = "idle"
            /\ \A t \in Threads : ~arg[t].many /\ batch[t] = NoBatch
            /\ \A e \in Engines : Live(heap[e]) => heap[e].backend = "tensorrt"

Loop == paths \in PathLists /\ next \in 1..Len(paths)

MainInv == program \in Examples => MainPlace /\ Holds /\ MainOnly /\ Loop

-----------------------------------------------------------------------------
(* The initial states. *)
LEMMA MainInitHolds == MainInit => MainInv
<1> SUFFICES ASSUME MainInit PROVE MainInv OBVIOUS
<1>1. at = [t \in Threads |-> "idle"] /\ arg = [t \in Threads |-> NoArg] /\ held = {}
      /\ batch = [t \in Threads |-> NoBatch] /\ heap = [x \in Objects |-> None]
      /\ line = "create" /\ calling = FALSE /\ next = 1 /\ paths \in PathLists
  BY DEF MainInit, Init
<1>2. MainPlace BY <1>1, MainAssumption DEF MainPlace, Lines
<1>3. Holds BY <1>1 DEF Holds, AtMostOne
<1>4. MainOnly BY <1>1, NoArgType DEF MainOnly, Objects
<1>5. Loop
  <2>1. paths \in Seq(Images) /\ paths # <<>> BY <1>1, PathsAssumption
  <2>2. Len(paths) \in Nat /\ Len(paths) # 0 BY <2>1
  <2>3. QED BY <1>1, <2>2 DEF Loop
<1>6. QED BY <1>2, <1>3, <1>4, <1>5 DEF MainInv

-----------------------------------------------------------------------------
(* A line's call is one the API allows: what docs/API_USAGE.md asks of an  *)
(* application holds whenever main makes it.                               *)
LEMMA CallAllowed ==
  ASSUME ApiInv, MainInv, program \in Examples, Invoke
  PROVE  Use(Main)
<1>1. Main \in Threads /\ ModelFile \in Networks BY MainAssumption
<1>2. /\ MainPlace /\ Holds /\ MainOnly /\ Loop
      /\ ~calling /\ MakeCall(line)
  BY DEF MainInv, Invoke
<1>3. at[Main] = "idle"
  BY <1>2 DEF MainPlace, MakeCall, CreateEngine, NoBackend, Enter, Begin, LoadModel, WarmUp,
              InferFromFile, Call, FreeResult, UnloadModel, DestroyEngine
<1>4. \A t \in Threads : at[t] = "idle" BY <1>2, <1>3 DEF MainOnly
<1>5. \A t \in Threads : arg[t].engine = None /\ arg[t].model = None
  BY <1>4, NoArgType DEF ApiInv, Place
<1>6. \A e \in Engines : e # None BY NoneAssumption DEF Objects
<1>7. \A m \in Models : m # None BY NoneAssumption DEF Objects
<1>8. \A e \in Engines : NoModel => Idle(e)
  <2>1. SUFFICES ASSUME NEW e \in Engines, NoModel PROVE Idle(e) OBVIOUS
  <2>2. held \cap Models = {} BY <1>2, <2>1 DEF Holds
  <2>3. ASSUME NEW m \in Models PROVE ~Live(heap[m])
    BY <1>4, <2>2, <2>3 DEF ApiInv, ModelOwned, Loads
  <2>4. QED BY <1>5, <1>6, <2>3 DEF Idle, ModelsOn
<1>9. CASE line = "create"
  BY <1>2, <1>3, <1>9 DEF MakeCall, Use, Backends
<1>10. CASE line = "load"
  <2>1. PICK e \in held \cap Engines : LoadModel(Main, e, ModelFile) BY <1>2, <1>10 DEF MakeCall
  <2>2. Idle(e) BY <1>2, <1>8, <1>10, <2>1 DEF NoModel, Succeeded
  <2>3. e \notin OnnxEngines BY <1>2 DEF MainOnly, OnnxEngines
  <2>4. MayLoad(e, ModelFile) BY <2>1, <2>2, <2>3 DEF MayLoad
  <2>5. QED BY <1>1, <1>3, <2>1, <2>4 DEF Use
<1>11. CASE line = "warmup" BY <1>2, <1>3, <1>11 DEF MakeCall, Use, MayUse
<1>12. CASE line = "infer"
  <2>1. PICK m \in held \cap Models : InferFromFile(Main, m, paths[next])
    BY <1>2, <1>12 DEF MakeCall
  <2>2. paths \in Seq(Images) BY <1>2, PathsAssumption DEF Loop
  <2>3. paths[next] \in Images BY <1>2, <2>2 DEF Loop
  <2>4. QED BY <1>3, <2>1, <2>3 DEF Use, MayUse
<1>13. CASE line = "free" BY <1>2, <1>3, <1>13 DEF MakeCall, Use
<1>14. CASE line = "unload"
  <2>1. PICK m \in held \cap Models : UnloadModel(Main, m) BY <1>2, <1>14 DEF MakeCall
  <2>2. MayUnload(m) BY <1>5, <1>7, <2>1 DEF MayUnload
  <2>3. QED BY <1>3, <2>1, <2>2 DEF Use
<1>15. CASE line = "destroy"
  <2>1. PICK e \in held \cap Engines : DestroyEngine(Main, e) BY <1>2, <1>15 DEF MakeCall
  <2>2. MayDestroy(e) BY <1>8, <1>15, <2>1 DEF MayDestroy, NoModel
  <2>3. QED BY <1>3, <2>1, <2>2 DEF Use
<1>16. QED
  BY <1>2, <1>9, <1>10, <1>11, <1>12, <1>13, <1>14, <1>15 DEF MakeCall

(* So every step of MainSpec is a step of CRKitApi. *)
LEMMA StepAllowed ==
  ASSUME ApiInv, MainInv, [MainNext]_allVars
  PROVE  [Next]_vars
<1>1. CASE UNCHANGED allVars BY <1>1 DEF allVars
<1>2. CASE program = "any" /\ Next BY <1>2
<1>3. CASE program \in Examples /\ Invoke BY <1>3, CallAllowed, MainAssumption DEF Next
<1>4. CASE CallReturned BY <1>4, MainAssumption DEF CallReturned, GetLastError, Next, Use
<1>5. CASE Proceed(Main) BY <1>5, MainAssumption DEF Next
<1>6. CASE NamesOverrun BY <1>6 DEF NamesOverrun
<1>7. QED BY <1>1, <1>2, <1>3, <1>4, <1>5, <1>6 DEF MainNext, Step

-----------------------------------------------------------------------------
(* The calls that main makes, and the steps of the calls, keep MainInv.    *)

(* What a step of main's leaves alone. *)
OthersStay == /\ at' \in [Threads -> Places]
              /\ \A t \in Threads \ {Main} : at'[t] = at[t] /\ arg'[t] = arg[t]
              /\ batch' = batch

(* Any step of main's in CRKitApi is one of these. *)
LEMMA OthersStayInCalls ==
  ASSUME ApiInv, ApiInv', MainInv, program \in Examples, Main \in Threads,
         MakeCall(line) \/ Proceed(Main) \/ GetLastError(Main)
  PROVE  OthersStay
<1>1. /\ at \in [Threads -> Places] /\ at' \in [Threads -> Places]
      /\ arg \in [Threads -> Args]
  BY DEF ApiInv, Types, CallTypes
<1>2. ~arg[Main].many BY DEF MainInv, MainOnly
<1> DEFINE Stay == \A t \in Threads \ {Main} : at'[t] = at[t] /\ arg'[t] = arg[t]
<1>3. ASSUME NEW s, Return(Main, s) PROVE Stay BY <1>1, <1>3 DEF Return, Goto
<1>4. ASSUME NEW s, SetError(Main, s) PROVE Stay BY <1>1, <1>4 DEF SetError, Goto
<1>5. ASSUME NEW label, NEW a, Enter(Main, label, a) PROVE Stay BY <1>1, <1>5 DEF Enter, Goto
<1>6. ASSUME NEW label, Goto(Main, label), arg' = arg PROVE Stay BY <1>1, <1>6 DEF Goto
<1>7. ASSUME NEW s, Ends(Main, s) PROVE Stay BY <1>2, <1>3, <1>7 DEF Ends
<1>8. CASE MakeCall(line)
  <2>1. Stay
    BY <1>3, <1>4, <1>5, <1>8 DEF MakeCall, CreateEngine, NoBackend, LoadModel, WarmUp, InferFromFile,
         Call, FreeResult, UnloadModel, DestroyEngine, Fail
  <2>2. batch' = batch
    BY <1>8 DEF MakeCall, CreateEngine, NoBackend, LoadModel, WarmUp, InferFromFile,
         Call, FreeResult, UnloadModel, DestroyEngine, app
  <2>3. QED BY <1>1, <2>1, <2>2 DEF OthersStay
<1>9. CASE Proceed(Main)
  <2>1. CASE InitializeSucceeds(Main) \/ InitializeFails(Main) \/ InitializeThrows(Main)
    BY <1>1, <1>3, <1>4, <2>1 DEF InitializeSucceeds, InitializeFails, InitializeThrows, Fail, app,
       OthersStay
  <2>2. CASE LoadSucceeds(Main) \/ LoadFails(Main) \/ LoadThrows(Main)
    BY <1>1, <1>3, <1>4, <1>7, <2>2 DEF LoadSucceeds, LoadFails, LoadThrows, Fail, FailSilently, app,
       OthersStay
  <2>3. CASE ReadImage(Main) \/ Preprocess(Main) \/ Run(Main)
    BY <1>1, <1>4, <1>6, <1>7, <2>3 DEF ReadImage, Preprocess, Run, Fail, FailSilently, app, OthersStay
  <2>4. CASE RunWarmUp(Main) \/ PostprocessFails(Main) \/ ResultThrows(Main) \/ CleanUp(Main)
    BY <1>1, <1>3, <1>4, <2>4 DEF RunWarmUp, PostprocessFails, ResultThrows, Catch, Fail, CleanUp, app,
       OthersStay
  <2>5. CASE Postprocess(Main)
    BY <1>1, <1>2, <1>3, <2>5 DEF Postprocess, OthersStay
  <2>6. CASE SetLastError(Main) \/ LogError(Main) \/ ReadMessage(Main)
    BY <1>1, <1>6, <1>7, <2>6 DEF SetLastError, LogError, ReadMessage, app, OthersStay
  <2>7. QED BY <1>9, <2>1, <2>2, <2>3, <2>4, <2>5, <2>6 DEF Proceed
<1>10. CASE GetLastError(Main) BY <1>1, <1>6, <1>10 DEF GetLastError, app, OthersStay
<1>11. QED BY <1>8, <1>9, <1>10

(* main's engines run TensorRT. *)
LEMMA TensorRTStays ==
  ASSUME ApiInv, MainInv, program \in Examples, Main \in Threads,
         MakeCall(line) \/ Proceed(Main) \/ GetLastError(Main)
  PROVE  \A e \in Engines : Live(heap'[e]) => heap'[e].backend = "tensorrt"
<1>1. /\ heap \in [Objects -> EngineObjects \cup ModelObjects \cup ResultObjects \cup {None, Lost}]
      /\ \A e \in Engines : Live(heap[e]) => heap[e] \in EngineObjects
      /\ \A e \in Engines : Live(heap[e]) => heap[e].backend = "tensorrt"
      /\ Place(Main)
  BY DEF ApiInv, Types, HeapTypes, MainInv, MainOnly
<1>2. \A e \in Engines : e \notin Models /\ e \notin Results /\ e \in Objects
  BY HeapAssumption DEF Objects
<1>3. ASSUME NEW x \in Objects, NEW v, heap' = [heap EXCEPT ![x] = v],
             v \in {None, Lost} \/ x \in Models \cup Results \/ v.backend = "tensorrt"
      PROVE  \A e \in Engines : Live(heap'[e]) => heap'[e].backend = "tensorrt"
  BY <1>1, <1>2, <1>3
<1>4. ASSUME NEW freed, heap' = FreeAll(freed)
      PROVE  \A e \in Engines : Live(heap'[e]) => heap'[e].backend = "tensorrt"
  BY <1>1, <1>2, <1>4 DEF FreeAll
<1>5. CASE heap' = heap BY <1>1, <1>5
<1>6. ASSUME CreateEngine(Main, "tensorrt")
      PROVE  \A e \in Engines : Live(heap'[e]) => heap'[e].backend = "tensorrt"
  BY <1>2, <1>3, <1>6 DEF CreateEngine, Selected, NewEngine
<1>7. ASSUME NEW e \in Engines, Live(heap[e]), NEW n \in Networks
      PROVE  /\ Load(e, n).backend = "tensorrt"
             /\ \A half \in HalfLoad(e, n) : half.backend = "tensorrt"
  BY <1>1, <1>7, LoadsEngine DEF ApiInv
<1>8. CASE LoadSucceeds(Main)
  <2>1. /\ arg[Main].engine \in Engines /\ Live(heap[arg[Main].engine])
        /\ heap[arg[Main].model].network \in Networks
    BY <1>8, Loading DEF LoadSucceeds
  <2>2. QED BY <1>2, <1>3, <1>7, <1>8, <2>1 DEF LoadSucceeds
<1>9. CASE LoadFails(Main) \/ LoadThrows(Main)
  <2> DEFINE e == arg[Main].engine
             n == heap[arg[Main].model].network
  <2>1. PICK half \in HalfLoad(e, n) \cup {Load(e, n)}, left \in {None, Lost} :
          heap' = [heap EXCEPT ![e] = half, ![arg[Main].model] = left]
    BY <1>9 DEF LoadFails, LoadThrows
  <2>2. e \in Engines /\ arg[Main].model \in Models /\ half.backend = "tensorrt"
    BY <1>7, <1>9, Loading DEF LoadFails, LoadThrows
  <2>3. QED BY <1>1, <1>2, <2>1, <2>2
<1>10. CASE MakeCall(line)
  <2>1. CASE \/ \E m \in Models : WarmUp(Main, m)
             \/ \E m \in Models : InferFromFile(Main, m, paths[next])
    BY <1>5, <2>1 DEF WarmUp, InferFromFile, Call
  <2>2. CASE \/ \E r \in Results : FreeResult(Main, r)
             \/ \E m \in Models : UnloadModel(Main, m)
    BY <1>4, <2>2 DEF FreeResult, UnloadModel
  <2>3. CASE \E e \in Engines : DestroyEngine(Main, e)
    BY <1>2, <1>3, <2>3 DEF DestroyEngine
  <2>4. CASE \E e \in Engines : LoadModel(Main, e, ModelFile)
    BY <1>3, <2>4 DEF LoadModel, Objects
  <2>5. CASE NoBackend(Main, "tensorrt") BY <1>2, <1>3, <2>5 DEF NoBackend
  <2>6. QED BY <1>6, <1>10, <2>1, <2>2, <2>3, <2>4, <2>5 DEF MakeCall
<1>11. CASE Proceed(Main)
  <2>1. CASE InitializeFails(Main) \/ InitializeThrows(Main)
    BY <1>1, <1>2, <1>3, <2>1 DEF InitializeFails, InitializeThrows, Place
  <2>2. CASE Postprocess(Main) \/ ResultThrows(Main)
    BY <1>3, <2>2 DEF Postprocess, ResultThrows, Objects
  <2>3. CASE CleanUp(Main) BY <1>4, <2>3 DEF CleanUp
  <2>4. CASE \/ InitializeSucceeds(Main) \/ ReadImage(Main) \/ Preprocess(Main) \/ Run(Main)
             \/ RunWarmUp(Main) \/ PostprocessFails(Main)
             \/ SetLastError(Main) \/ LogError(Main) \/ ReadMessage(Main)
    BY <1>5, <2>4 DEF InitializeSucceeds, ReadImage, Preprocess, Run, RunWarmUp, PostprocessFails,
         SetLastError, LogError, ReadMessage
  <2>5. QED BY <1>8, <1>9, <1>11, <2>1, <2>2, <2>3, <2>4 DEF Proceed
<1>12. CASE GetLastError(Main) BY <1>5, <1>12 DEF GetLastError
<1>13. QED BY <1>10, <1>11, <1>12

(* Making a call. *)
LEMMA InvokeKeeps ==
  ASSUME ApiInv, MainInv, program \in Examples, Main \in Threads, Invoke
  PROVE  MainPlace' /\ Holds'
<1>1. /\ MainPlace /\ Holds /\ ~calling /\ MakeCall(line) /\ calling' = TRUE /\ line' = line
      /\ at \in [Threads -> Places]
      /\ status \in [Threads -> {"SUCCESS", "FAILED", "SILENT"}]
  BY DEF Invoke, MainInv, ApiInv, Types, CallTypes
<1>2. \A e \in Engines : e \notin Models /\ e \notin Results
  BY HeapAssumption
<1>3. \A m \in Models : m \notin Results BY HeapAssumption
<1>4. Fail(Main) => at'[Main] = "error" /\ status'[Main] = "FAILED"
  BY <1>1 DEF Fail, SetError, Goto
<1>5. \A label, a : Enter(Main, label, a) => at'[Main] = label
  BY <1>1 DEF Enter, Goto
<1>6. Return(Main, "SUCCESS") => at'[Main] = "idle" /\ status'[Main] = "SUCCESS"
  BY <1>1 DEF Return, Goto
<1>7. CASE line = "create"
  <2>1. held' = held BY <1>1, <1>7 DEF MakeCall, CreateEngine, NoBackend, app
  <2>2. at'[Main] = "initializing" \/ (at'[Main] = "error" /\ status'[Main] = "FAILED")
    BY <1>1, <1>4, <1>5, <1>7 DEF MakeCall, CreateEngine, NoBackend
  <2>3. MainPlace' BY <1>1, <1>7, <2>2 DEF MainPlace, InCall, Failing
  <2>4. Holds'
    BY <1>1, <1>7, <2>1, <2>2 DEF Holds, NoEngine, NoModel, NoResult, AtMostOne, Succeeded
  <2>5. QED BY <2>3, <2>4
<1>8. CASE line \in {"load", "warmup", "infer"}
  <2>1. held' = held BY <1>1, <1>8 DEF MakeCall, LoadModel, WarmUp, InferFromFile, Call, app
  <2>2. /\ line = "load" => at'[Main] = "loading"
        /\ line = "warmup" => at'[Main] = "warmup"
        /\ line = "infer" => at'[Main] = "imread"
    BY <1>1, <1>5, <1>8 DEF MakeCall, LoadModel, WarmUp, InferFromFile, Call
  <2>3. MainPlace' BY <1>1, <1>8, <2>2 DEF MainPlace, InCall, Failing, Inferring
  <2>4. Holds'
    BY <1>1, <1>8, <2>1, <2>2 DEF Holds, NoEngine, NoModel, NoResult, AtMostOne, Succeeded
  <2>5. QED BY <2>3, <2>4
<1>9. CASE line \in {"free", "unload", "destroy"}
  <2>1. at'[Main] = "idle" /\ status'[Main] = "SUCCESS"
    BY <1>1, <1>6, <1>9 DEF MakeCall, FreeResult, UnloadModel, DestroyEngine
  <2>2. MainPlace' BY <1>1, <1>9, <2>1 DEF MainPlace, InCall, Failing
  <2>3. CASE line = "free"
    <3>1. PICK r \in held \cap Results : held' = held \ {r}
      BY <1>1, <2>3 DEF MakeCall, FreeResult
    <3>2. held \cap Results \subseteq {r} BY <1>1, <3>1 DEF Holds, AtMostOne
    <3>3. /\ held' \cap Results = {} /\ held' \cap Engines = held \cap Engines
          /\ held' \cap Models = held \cap Models
      BY <1>2, <1>3, <3>1, <3>2
    <3>4. (NoEngine' => held' \cap Engines = {}) /\ (NoModel' => held' \cap Models = {})
          /\ (NoResult' => held' \cap Results = {})
      BY <1>1, <2>3, <3>3 DEF Holds, NoEngine, NoModel, NoResult, Succeeded
    <3>5. AtMostOne(held \cap Engines)' /\ AtMostOne(held \cap Models)' /\ AtMostOne(held \cap Results)'
      BY <1>1, <3>3 DEF Holds, AtMostOne
    <3>6. QED BY <2>2, <3>4, <3>5 DEF Holds, AtMostOne
  <2>4. CASE line = "unload"
    <3>1. PICK m \in held \cap Models : held' = held \ {m}
      BY <1>1, <2>4 DEF MakeCall, UnloadModel
    <3>2. held \cap Models \subseteq {m} BY <1>1, <3>1 DEF Holds, AtMostOne
    <3>3. /\ held' \cap Models = {} /\ held' \cap Engines = held \cap Engines
          /\ held' \cap Results = held \cap Results
      BY <1>2, <1>3, <3>1, <3>2
    <3>4. (NoEngine' => held' \cap Engines = {}) /\ (NoModel' => held' \cap Models = {})
          /\ (NoResult' => held' \cap Results = {})
      BY <1>1, <2>4, <3>3 DEF Holds, NoEngine, NoModel, NoResult, Succeeded
    <3>5. AtMostOne(held \cap Engines)' /\ AtMostOne(held \cap Models)' /\ AtMostOne(held \cap Results)'
      BY <1>1, <3>3 DEF Holds, AtMostOne
    <3>6. QED BY <2>2, <3>4, <3>5 DEF Holds, AtMostOne
  <2>5. CASE line = "destroy"
    <3>1. PICK e \in held \cap Engines : held' = held \ {e}
      BY <1>1, <2>5 DEF MakeCall, DestroyEngine
    <3>2. held \cap Engines \subseteq {e} BY <1>1, <3>1 DEF Holds, AtMostOne
    <3>3. /\ held' \cap Engines = {} /\ held' \cap Models = held \cap Models
          /\ held' \cap Results = held \cap Results
      BY <1>2, <1>3, <3>1, <3>2
    <3>4. (NoEngine' => held' \cap Engines = {}) /\ (NoModel' => held' \cap Models = {})
          /\ (NoResult' => held' \cap Results = {})
      BY <1>1, <2>5, <3>3 DEF Holds, NoEngine, NoModel, NoResult, Succeeded
    <3>5. AtMostOne(held \cap Engines)' /\ AtMostOne(held \cap Models)' /\ AtMostOne(held \cap Results)'
      BY <1>1, <3>3 DEF Holds, AtMostOne
    <3>6. QED BY <2>2, <3>4, <3>5 DEF Holds, AtMostOne
  <2>6. QED BY <1>9, <2>3, <2>4, <2>5
<1>10. QED BY <1>1, <1>7, <1>8, <1>9 DEF MakeCall

(* Returning to main, which goes on with the next line. *)
LEMMA CallReturnedKeeps ==
  ASSUME ApiInv, MainInv, program \in Examples, Main \in Threads, CallReturned
  PROVE  MainPlace' /\ Holds' /\ Loop'
<1>1. /\ MainPlace /\ Holds /\ Loop /\ calling /\ InCall /\ at[Main] = "idle" /\ ~calling'
      /\ at \in [Threads -> Places]
      /\ paths' = paths
  BY DEF CallReturned, MainInv, MainPlace, ApiInv, Types, CallTypes
<1>2. held' = held
  BY DEF CallReturned, GetLastError, vars, app
<1>3. at'[Main] \in {"idle", "reading"}
  BY <1>1 DEF CallReturned, GetLastError, Goto, vars, calls
<1>4. paths \in Seq(Images) BY <1>1, PathsAssumption DEF Loop
<1>5. CASE line = "free" \/ (line = "infer" /\ status[Main] # "SUCCESS")
  <2>1. NextImage BY <1>5 DEF CallReturned
  <2>2. line' \in {"infer", "unload"} BY <2>1 DEF NextImage
  <2>3. Loop' BY <1>1, <1>4, <2>1 DEF NextImage, Loop
  <2>4. MainPlace' BY <1>1, <1>3, <2>2 DEF MainPlace, Lines
  <2>5. Holds'
    BY <1>1, <1>2, <1>5, <2>2 DEF Holds, NoEngine, NoModel, NoResult, AtMostOne, Succeeded
  <2>6. QED BY <2>3, <2>4, <2>5
<1>6. CASE ~(line = "free" \/ (line = "infer" /\ status[Main] # "SUCCESS"))
  <2>1. /\ next' = next
        /\ status[Main] = "SUCCESS" => line' = AfterSuccess(line)
        /\ status[Main] # "SUCCESS" => line' = AfterFailure(line)
    BY <1>6 DEF CallReturned
  <2>2. line \in {"create", "load", "warmup", "infer", "unload", "destroy"}
    BY <1>1, <1>6 DEF MainPlace, InCall, Lines
  <2>3. /\ line = "create" => line' = IF status[Main] = "SUCCESS" THEN "load" ELSE "exit"
        /\ line = "load" => line' = IF status[Main] = "SUCCESS" THEN "warmup" ELSE "destroy"
        /\ line = "warmup" => line' = "infer"
        /\ line = "infer" => line' = "free"
        /\ line = "unload" => line' = "destroy"
        /\ line = "destroy" => line' = "exit"
    BY <1>1, <1>6, <2>1 DEF AfterSuccess, AfterFailure, InCall
  <2>4. MainPlace' BY <1>1, <1>3, <2>2, <2>3 DEF MainPlace, Lines
  <2>5. Loop' BY <1>1, <2>1 DEF Loop
  <2>6. Holds'
    BY <1>1, <1>2, <2>2, <2>3 DEF Holds, NoEngine, NoModel, NoResult, AtMostOne, Succeeded
  <2>7. QED BY <2>4, <2>5, <2>6
<1>7. QED BY <1>5, <1>6

(* main never infers on a batch. *)
LEMMA OneImage ==
  ASSUME ApiInv, MainInv, program \in Examples, Main \in Threads,
         MakeCall(line) \/ Proceed(Main) \/ GetLastError(Main)
  PROVE  ~arg'[Main].many
<1>1. ~arg[Main].many /\ arg \in [Threads -> Args]
  BY DEF MainInv, MainOnly, ApiInv, Types, CallTypes
<1>2. \A s : Return(Main, s) => ~arg'[Main].many BY <1>1, NoArgType DEF Return
<1>3. \A s : SetError(Main, s) => ~arg'[Main].many BY <1>1 DEF SetError
<1>4. \A s : Ends(Main, s) => ~arg'[Main].many BY <1>1, <1>2 DEF Ends
<1>5. ASSUME NEW label, NEW e, NEW m, NEW images, Enter(Main, label, Arguments(e, m, images, FALSE))
      PROVE  ~arg'[Main].many
  BY <1>1, <1>5 DEF Enter, Arguments
<1>6. CASE MakeCall(line)
  BY <1>3, <1>2, <1>5, <1>6 DEF MakeCall, CreateEngine, NoBackend, LoadModel, WarmUp, InferFromFile,
       Call, FreeResult, UnloadModel, DestroyEngine, Fail
<1>7. CASE Proceed(Main)
  BY <1>1, <1>2, <1>3, <1>4, <1>7 DEF Proceed, InitializeSucceeds, InitializeFails, InitializeThrows,
       LoadSucceeds, LoadFails, LoadThrows, ReadImage, Preprocess, Run, RunWarmUp, Postprocess,
       PostprocessFails, ResultThrows, Catch, CleanUp, SetLastError, LogError, ReadMessage, Fail,
       FailSilently
<1>8. CASE GetLastError(Main) BY <1>1, <1>8 DEF GetLastError
<1>9. QED BY <1>6, <1>7, <1>8

(* A step of the call itself: what it hands over is what its line may hold. *)
LEMMA ProceedKeeps ==
  ASSUME ApiInv, MainInv, program \in Examples, Main \in Threads,
         Proceed(Main), UNCHANGED mainVars, line # "crashed"
  PROVE  MainPlace' /\ Holds'
<1>1. /\ MainPlace /\ Holds /\ Place(Main) /\ ~arg[Main].many
      /\ at \in [Threads -> Places]
      /\ status \in [Threads -> {"SUCCESS", "FAILED", "SILENT"}]
  BY DEF MainInv, MainOnly, ApiInv, Types, CallTypes
<1>2. line' = line /\ calling' = calling BY DEF mainVars
<1>3. at[Main] \notin {"idle", "reading"} => calling /\ InCall BY <1>1 DEF MainPlace
<1>4. \A s : SetError(Main, s) => at'[Main] = "error" /\ status'[Main] = s
  BY <1>1 DEF SetError, Goto
<1>5. \A s : Return(Main, s) => at'[Main] = "idle" /\ status'[Main] = s
  BY <1>1 DEF Return, Goto
<1>6. \A s : Ends(Main, s) => at'[Main] = "idle" /\ status'[Main] = s
  BY <1>1, <1>5 DEF Ends
<1>7. \A label : Goto(Main, label) => at'[Main] = label
  BY <1>1 DEF Goto
<1>8. ~Succeeded
  BY <1>1 DEF Succeeded, Proceed, InitializeSucceeds, InitializeFails, InitializeThrows,
       LoadSucceeds, LoadFails, LoadThrows, ReadImage, Preprocess, Run, RunWarmUp, Postprocess,
       PostprocessFails, ResultThrows, CleanUp, SetLastError, LogError, ReadMessage
<1>9. (NoEngine' => NoEngine) /\ (NoModel' => NoModel) /\ (NoResult' => NoResult)
  BY <1>2, <1>8 DEF NoEngine, NoModel, NoResult, Succeeded
<1>10. held' = held => Holds'
  BY <1>1, <1>9 DEF Holds, AtMostOne
<1>11. \A e \in Engines : e \notin Models /\ e \notin Results
  BY HeapAssumption
<1>12. \A m \in Models : m \notin Results BY HeapAssumption
<1>13. CASE InitializeSucceeds(Main)
  <2>1. /\ line = "create" /\ calling /\ arg[Main].engine \in Engines
        /\ at'[Main] = "idle" /\ status'[Main] = "SUCCESS"
        /\ held' = held \cup {arg[Main].engine}
    BY <1>1, <1>3, <1>5, <1>13 DEF InitializeSucceeds, Place, InCall, MainPlace, Lines, Inferring, Failing
  <2>2. /\ held' \cap Engines = {arg[Main].engine} /\ held' \cap Models = held \cap Models
        /\ held' \cap Results = held \cap Results
    BY <1>1, <1>8, <1>11, <2>1 DEF Holds, NoEngine
  <2>3. Succeeded' BY <1>2, <2>1 DEF Succeeded
  <2>4. MainPlace' BY <1>1, <1>2, <2>1 DEF MainPlace, InCall, Failing
  <2>5. ~NoEngine' BY <1>2, <2>1, <2>3 DEF NoEngine
  <2>6. QED BY <1>1, <1>9, <2>2, <2>4, <2>5 DEF Holds, AtMostOne
<1>14. CASE LoadSucceeds(Main)
  <2>1. /\ line = "load" /\ calling /\ arg[Main].model \in Models
        /\ at'[Main] = "idle" /\ status'[Main] = "SUCCESS"
        /\ held' = held \cup {arg[Main].model}
    BY <1>1, <1>3, <1>5, <1>14 DEF LoadSucceeds, Place, InCall, MainPlace, Lines, Inferring, Failing
  <2>2. /\ held' \cap Models = {arg[Main].model} /\ held' \cap Engines = held \cap Engines
        /\ held' \cap Results = held \cap Results
    BY <1>1, <1>8, <1>11, <1>12, <2>1 DEF Holds, NoModel
  <2>3. Succeeded' BY <1>2, <2>1 DEF Succeeded
  <2>4. MainPlace' BY <1>1, <1>2, <2>1 DEF MainPlace, InCall, Failing
  <2>5. ~NoModel' BY <1>2, <2>1, <2>3 DEF NoModel
  <2>6. QED BY <1>1, <1>9, <2>2, <2>4, <2>5 DEF Holds, AtMostOne
<1>15. CASE Postprocess(Main)
  <2>1. PICK r \in Results : held' = held \cup {r} /\ Return(Main, "SUCCESS")
    BY <1>1, <1>15 DEF Postprocess
  <2>2. /\ line = "infer" /\ calling
        /\ at'[Main] = "idle" /\ status'[Main] = "SUCCESS"
    BY <1>1, <1>3, <1>5, <1>15, <2>1 DEF Postprocess, InCall, MainPlace, Lines, Failing
  <2>3. /\ held' \cap Results = {r} /\ held' \cap Engines = held \cap Engines
        /\ held' \cap Models = held \cap Models
    BY <1>1, <1>8, <1>11, <1>12, <2>1, <2>2 DEF Holds, NoResult
  <2>4. Succeeded' BY <1>2, <2>2 DEF Succeeded
  <2>5. MainPlace' BY <1>1, <1>2, <2>2 DEF MainPlace, InCall, Failing, Inferring
  <2>6. ~NoResult' BY <1>2, <2>2, <2>4 DEF NoResult
  <2>7. QED BY <1>1, <1>9, <2>3, <2>5, <2>6 DEF Holds, AtMostOne
<1>16. CASE InitializeFails(Main) \/ InitializeThrows(Main)
  <2>1. /\ held' = held /\ line = "create" /\ calling
        /\ at'[Main] = "error" /\ status'[Main] = "FAILED"
    BY <1>1, <1>3, <1>4, <1>16 DEF InitializeFails, InitializeThrows, Fail, app, InCall, MainPlace,
         Lines, Inferring, Failing
  <2>2. QED BY <1>1, <1>2, <1>10, <2>1 DEF MainPlace, InCall, Failing
<1>17. CASE LoadFails(Main) \/ LoadThrows(Main)
  <2>1. /\ held' = held /\ line = "load" /\ calling
        /\ at'[Main] = "idle" \/ (at'[Main] = "error" /\ status'[Main] = "FAILED")
    BY <1>1, <1>3, <1>4, <1>6, <1>17 DEF LoadFails, LoadThrows, HeldAfterFailure, Fail, FailSilently,
         app, InCall, MainPlace, Lines, Inferring, Failing
  <2>2. QED BY <1>1, <1>2, <1>10, <2>1 DEF MainPlace, InCall, Failing
<1>18. CASE \/ ReadImage(Main) \/ Preprocess(Main) \/ Run(Main)
            \/ PostprocessFails(Main) \/ ResultThrows(Main)
  <2>1. /\ held' = held /\ line = "infer" /\ calling
        /\ at'[Main] \in {"idle"} \cup Inferring \cup Failing
    BY <1>1, <1>3, <1>4, <1>6, <1>7, <1>18 DEF ReadImage, Preprocess, Run, PostprocessFails,
         ResultThrows, Catch, Fail, FailSilently, app, InCall, MainPlace, Lines, Inferring, Failing
  <2>2. QED BY <1>1, <1>2, <1>3, <1>10, <1>18, <2>1 DEF MainPlace, InCall, Failing
<1>19. CASE RunWarmUp(Main)
  <2>1. /\ held' = held /\ line = "warmup" /\ calling /\ at'[Main] \in {"idle"} \cup Failing
    BY <1>1, <1>3, <1>4, <1>5, <1>19 DEF RunWarmUp, app, InCall, MainPlace, Lines, Inferring, Failing
  <2>2. QED BY <1>1, <1>2, <1>10, <2>1 DEF MainPlace, InCall, Failing
<1>20. CASE CleanUp(Main) BY <1>1, <1>20 DEF CleanUp, Place
<1>21. CASE SetLastError(Main) \/ LogError(Main)
  <2>1. /\ held' = held /\ line \in {"create", "load", "warmup", "infer"}
        /\ at'[Main] \in {"idle", "logging"} /\ at[Main] \in Failing
        /\ status'[Main] = status[Main]
    BY <1>1, <1>3, <1>6, <1>7, <1>21 DEF SetLastError, LogError, app, InCall, MainPlace, Lines,
         Inferring, Failing
  <2>2. QED BY <1>1, <1>2, <1>10, <2>1 DEF MainPlace, InCall, Failing
<1>22. CASE ReadMessage(Main)
  <2>1. held' = held /\ at'[Main] = "idle" /\ ~calling
    BY <1>1, <1>7, <1>22 DEF ReadMessage, app, MainPlace, InCall, Lines, Inferring, Failing
  <2>2. QED BY <1>1, <1>2, <1>10, <2>1 DEF MainPlace
<1>23. QED BY <1>13, <1>14, <1>15, <1>16, <1>17, <1>18, <1>19, <1>20, <1>21, <1>22 DEF Proceed

(* Every step keeps MainInv. *)
LEMMA MainStepKeeps ==
  ASSUME ApiInv, ApiInv', MainInv, [MainNext]_allVars
  PROVE  MainInv'
<1>1. Main \in Threads BY MainAssumption
<1>2. CASE UNCHANGED allVars
  <2>1. MainPlace => MainPlace'
    BY <1>2 DEF allVars, mainVars, vars, calls, MainPlace, InCall
  <2>2. Holds => Holds'
    BY <1>2 DEF allVars, mainVars, vars, calls, app, Holds, NoEngine, NoModel, NoResult, Succeeded,
         AtMostOne
  <2>3. MainOnly => MainOnly' BY <1>2 DEF allVars, vars, calls, app, MainOnly
  <2>4. QED BY <1>2, <2>1, <2>2, <2>3 DEF MainInv, Loop, allVars, mainVars
<1>3. program' = program
  BY <1>2 DEF MainNext, Step, Invoke, CallReturned, NamesOverrun, mainVars, allVars
<1>4. CASE program \notin Examples BY <1>3, <1>4 DEF MainInv
<1>5. CASE program \in Examples /\ Ended /\ UNCHANGED allVars BY <1>2, <1>5
<1>6. CASE /\ program \in Examples
           /\ \/ Invoke \/ (CallReturned /\ status[Main] # "SUCCESS")
              \/ (line # "crashed" /\ Proceed(Main) /\ UNCHANGED mainVars)
  <2>1. MakeCall(line) \/ Proceed(Main) \/ GetLastError(Main)
    BY <1>6 DEF Invoke, CallReturned
  <2>2. OthersStay BY <1>1, <1>6, <2>1, OthersStayInCalls
  <2>3. \A e \in Engines : Live(heap'[e]) => heap'[e].backend = "tensorrt"
    BY <1>1, <1>6, <2>1, TensorRTStays
  <2>4. ~arg'[Main].many
    BY <1>1, <1>6, <2>1, OneImage
  <2>5. MainOnly' BY <1>1, <1>6, <2>2, <2>3, <2>4 DEF MainOnly, OthersStay, MainInv
  <2>6. MainPlace' /\ Holds' /\ Loop'
    <3>1. CASE Invoke BY <1>1, <1>6, <3>1, InvokeKeeps DEF Invoke, Loop, MainInv
    <3>2. CASE CallReturned BY <1>1, <1>6, <3>2, CallReturnedKeeps
    <3>3. CASE line # "crashed" /\ Proceed(Main) /\ UNCHANGED mainVars
      BY <1>1, <1>6, <3>3, ProceedKeeps DEF Loop, MainInv, mainVars
    <3>4. QED BY <1>6, <3>1, <3>2, <3>3
  <2>7. QED BY <2>5, <2>6 DEF MainInv
<1>7. CASE program \in Examples /\ CallReturned /\ status[Main] = "SUCCESS"
  <2>1. MainPlace' /\ Holds' /\ Loop' BY <1>1, <1>7, CallReturnedKeeps
  <2>2. UNCHANGED vars BY <1>7 DEF CallReturned
  <2>3. MainOnly' BY <1>7, <2>2 DEF MainInv, MainOnly, vars, calls, app
  <2>4. QED BY <2>1, <2>3 DEF MainInv
<1>8. CASE program \in Examples /\ NamesOverrun
  <2>1. /\ UNCHANGED vars /\ line = "load" /\ at[Main] = "loading" /\ line' = "crashed"
        /\ paths' = paths /\ next' = next /\ calling' = calling
        /\ MainPlace /\ Holds /\ MainOnly /\ Loop
    BY <1>8 DEF NamesOverrun, MainInv
  <2>2. MainPlace' BY <2>1 DEF MainPlace, InCall, Lines, vars, calls
  <2>3. Holds'
    BY <2>1 DEF Holds, NoEngine, NoModel, NoResult, Succeeded, AtMostOne, vars, calls, app
  <2>4. MainOnly' BY <2>1 DEF MainOnly, vars, calls, app
  <2>5. QED BY <2>1, <2>2, <2>3, <2>4 DEF MainInv, Loop
<1>9. QED BY <1>2, <1>4, <1>5, <1>6, <1>7, <1>8 DEF MainNext, Step, Examples

-----------------------------------------------------------------------------
(* The results. *)

(* ApiInv holds of the example programs too, with MainInv beside it: a     *)
(* step is allowed by CRKitApi because of MainInv, and keeps ApiInv        *)
(* because CRKitApi allows it.                                             *)
THEOREM MainInvariant == MainSpec => [](ApiInv /\ MainInv)
<1>1. MainInit => ApiInv /\ MainInv BY InitHolds, MainInitHolds DEF MainInit
<1>2. ApiInv /\ MainInv /\ [MainNext]_allVars => (ApiInv /\ MainInv)'
  <2>1. SUFFICES ASSUME ApiInv, MainInv, [MainNext]_allVars PROVE ApiInv' /\ MainInv'
    OBVIOUS
  <2>2. [Next]_vars BY <2>1, StepAllowed
  <2>3. ApiInv'
    <3>1. CASE Next BY <2>1, <3>1, StepKeeps DEF Next
    <3>2. CASE UNCHANGED vars BY <2>1, <3>2, StutterKeeps
    <3>3. QED BY <2>2, <3>1, <3>2
  <2>4. QED BY <2>1, <2>3, MainStepKeeps
<1>3. QED BY <1>1, <1>2, PTL DEF MainSpec

(* The example programs implement the application CRKitApi describes: they *)
(* keep to the order of calls docs/API_USAGE.md asks for, whichever calls  *)
(* fail.                                                                   *)
THEOREM ExamplesKeepTheApi == MainSpec => ApiSpec
<1>1. MainInit => Init BY DEF MainInit
<1>2. ApiInv /\ MainInv /\ [MainNext]_allVars => [Next]_vars BY StepAllowed
<1>3. QED BY <1>1, <1>2, MainInvariant, PTL DEF MainSpec, ApiSpec, Spec

(* An example that returns from main has given back its engine, its model  *)
(* and every result it was handed, however the calls in between ended.     *)
THEOREM ExamplesKeepNothing == MainSpec => []ExamplesGiveBack
<1>1. ApiInv /\ MainInv => ExamplesGiveBack
  <2>1. SUFFICES ASSUME ApiInv, MainInv, program \in Examples, line = "exit", NEW x \in Objects
                 PROVE  ~Exists(x)
    BY DEF ExamplesGiveBack
  <2>2. held \cap Engines = {} /\ held \cap Models = {} /\ held \cap Results = {}
    BY <2>1 DEF MainInv, Holds, NoEngine, NoModel, NoResult
  <2>3. \A t \in Threads : /\ at[t] \in {"idle", "reading"}
                           /\ ~arg[t].many /\ batch[t] = NoBatch
    BY <2>1 DEF MainInv, MainPlace, InCall, MainOnly
  <2>4. \A t \in Threads : array[t] = <<>> BY <2>1, <2>3 DEF ApiInv, Place
  <2>5. CASE x \in Engines BY <2>1, <2>2, <2>3, <2>5 DEF ApiInv, EngineOwned, Initializes
  <2>6. CASE x \in Models BY <2>1, <2>2, <2>3, <2>6 DEF ApiInv, ModelOwned, Loads
  <2>7. CASE x \in Results
    <3>1. \A t \in Threads, k \in Nat : ~InArray(t, k, x) /\ ~InBatch(t, k, x)
      BY <2>3, <2>4 DEF InArray, InBatch, NoBatch
    <3>2. QED BY <2>1, <2>2, <2>7, <3>1 DEF ApiInv, ResultOwned
  <2>8. QED BY <2>5, <2>6, <2>7 DEF Objects
<1>2. QED BY <1>1, MainInvariant, PTL

=============================================================================
