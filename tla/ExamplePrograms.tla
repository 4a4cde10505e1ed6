--------------------------- MODULE ExamplePrograms ---------------------------
(***************************************************************************)
(* The two programs under examples/ as clients of CRKitApi, beside the     *)
(* general application of that module ("any").  Nothing here is guarded by *)
(* what CRKitApi lets an application do: that the programs keep to it is   *)
(* what ApiSpec says.                                                      *)
(*                                                                         *)
(* A program's variables engine, model and result hold the only handle of  *)
(* their kind it has been given: a call on one it does not hold is stuck.  *)
(***************************************************************************)
EXTENDS CRKitApi

CONSTANTS Main,        \* the thread that runs main
          ModelFile,   \* argv[1]
          PathLists    \* argv[2..]: images to infer on

ASSUME MainAssumption == Main \in Threads /\ ModelFile \in Networks
ASSUME PathsAssumption == PathLists \subseteq Seq(Images) \ {<<>>}

VARIABLES program,  \* "simple_inference", "batch_inference" or "any"
          paths,    \* its images
          next,     \* loop counter
          line,     \* the call about to be made, or just made
          calling   \* has it been made?

mainVars == <<program, paths, next, line, calling>>
allVars == <<vars, mainVars>>

Examples == {"simple_inference", "batch_inference"}
Lines == {"create", "load", "warmup", "infer", "free", "unload", "destroy", "exit", "crashed"}

MainInit == /\ Init
            /\ program \in Examples \cup {"any"}
            /\ paths \in PathLists
            /\ program # "batch_inference" => Len(paths) = 1
            /\ next = 1
            /\ line = "create"
            /\ calling = FALSE

-----------------------------------------------------------------------------
(* The calls, in the order of main. *)
MakeCall(l) ==
  \/ l = "create"  /\ (CreateEngine(Main, "tensorrt") \/ NoBackend(Main, "tensorrt"))
  \/ l = "load"    /\ \E e \in held \cap Engines : LoadModel(Main, e, ModelFile)
  \/ l = "warmup"  /\ \E m \in held \cap Models : WarmUp(Main, m)
  \/ l = "infer"   /\ \E m \in held \cap Models : InferFromFile(Main, m, paths[next])
  \/ l = "free"    /\ \E r \in held \cap Results : FreeResult(Main, r)
  \/ l = "unload"  /\ \E m \in held \cap Models : UnloadModel(Main, m)
  \/ l = "destroy" /\ \E e \in held \cap Engines : DestroyEngine(Main, e)

Invoke == /\ ~calling
          /\ MakeCall(line)
          /\ calling' = TRUE
          /\ UNCHANGED <<program, paths, next, line>>

(* The engine is destroyed while the model is still loaded; or the loop    *)
(* over the images does not advance.                                       *)
Bug_EngineFirst == /\ line' = IF next < Len(paths) THEN "infer" ELSE "destroy"
                   /\ next' = IF next < Len(paths) THEN next + 1 ELSE next
Bug_SameImageAgain == /\ line' = IF next < Len(paths) THEN "infer" ELSE "unload"
                      /\ UNCHANGED next

(* On to the next image, or to the clean-up; one image in simple_inference. *)
NextImage == IF next < Len(paths)
             THEN line' = "infer" /\ next' = next + 1
             ELSE line' = "unload" /\ UNCHANGED next

(* The clean-up destroys only what was created last. *)
Bug_EngineKept(l) == CASE l = "create" -> "exit" [] l = "load" -> "exit" [] l = "warmup" -> "infer"

AfterSuccess(l) == [create |-> "load", load |-> "warmup", warmup |-> "infer",
                    infer |-> "free", unload |-> "destroy", destroy |-> "exit"][l]

AfterFailure(l) == CASE l = "create" -> "exit" [] l = "load" -> "destroy" [] l = "warmup" -> "infer"

(* A failure is printed with crkit_get_last_error. *)
CallReturned ==
  /\ calling /\ at[Main] = "idle"
  /\ calling' = FALSE
  /\ IF status[Main] = "SUCCESS" THEN UNCHANGED vars ELSE GetLastError(Main)
  /\ IF line = "free" \/ (line = "infer" /\ status[Main] # "SUCCESS")
     THEN NextImage
     ELSE /\ line' = (IF status[Main] = "SUCCESS" THEN AfterSuccess(line) ELSE AfterFailure(line))
          /\ UNCHANGED next
  /\ UNCHANGED <<program, paths>>

(* simple_inference announces 80 classes and passes 20 names:              *)
(* crkit_load_model reads past the end of the array, and may crash.        *)
NamesOverrun == /\ program = "simple_inference"
                /\ line = "load" /\ at[Main] = "loading"
                /\ line' = "crashed"
                /\ UNCHANGED <<vars, program, paths, next, calling>>

Step == \/ Invoke \/ CallReturned
        \/ line # "crashed" /\ Proceed(Main) /\ UNCHANGED mainVars

Ended == line = "crashed" \/ (line = "exit" /\ at[Main] = "idle")

MainNext == \/ program = "any" /\ Next /\ UNCHANGED mainVars
            \/ program \in Examples /\ (Step \/ NamesOverrun)
            \/ program \in Examples /\ Ended /\ UNCHANGED allVars

(* A running program keeps running, whichever way its calls end. *)
MainSpec == /\ MainInit /\ [][MainNext]_allVars
            /\ WF_allVars(program \in Examples /\ Step)

-----------------------------------------------------------------------------
(* The example programs use the API as docs/API_USAGE.md asks: every step  *)
(* of theirs is one CRKitApi allows its application (the order of the      *)
(* clean-up, no handle used after it was given back).                      *)
ApiSpec == Spec

(* An example that returns from main has given back everything it was      *)
(* given, whatever failed on the way: no object is left but those a catch  *)
(* block of the library has lost.                                          *)
ExamplesGiveBack == program \in Examples /\ line = "exit" => \A x \in Objects : ~Exists(x)

(* The examples come to an end: no call waits for ever, in particular for  *)
(* the ErrorHandler's mutex, and the loop over the images is finite.       *)
ExamplesEnd == program \in Examples => <>Ended
=============================================================================
