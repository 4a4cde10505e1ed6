---------------------------- MODULE InferService ----------------------------
(***************************************************************************)
(* What a model handle promises to the threads that share it, seen from    *)
(* outside: a call on an image ends, and it ends either with a failure     *)
(* status or with the detections of THAT image, in the coordinates of THAT *)
(* image.  A warm-up call ends and answers nothing.  How the library gets  *)
(* there (pre-processor, shared buffers, stream) is InferPipeline's.       *)
(***************************************************************************)
CONSTANTS Threads,  \* the application's threads
          Images,   \* the images they pass to crkit_infer
          Dummy,    \* the all-zero tensor of crkit_warmup_model
          None      \* no call, no result

VARIABLES call,     \* the image a thread is waiting for, or None
          reply     \* what its last call stored in *result, or None

vars == <<call, reply>>

(* The detections computed from image i, mapped back with the letterbox of i. *)
Answer(i) == [output |-> i, geometry |-> [scale |-> i, pad |-> i]]

Init == /\ call  = [t \in Threads |-> None]
        /\ reply = [t \in Threads |-> None]

Call(t, i) == /\ call[t] = None
              /\ call'  = [call EXCEPT ![t] = i]
              /\ reply' = [reply EXCEPT ![t] = None]

Succeed(t) == /\ call[t] \in Images
              /\ call'  = [call EXCEPT ![t] = None]
              /\ reply' = [reply EXCEPT ![t] = Answer(call[t])]

Fail(t) == /\ call[t] # None
           /\ call'  = [call EXCEPT ![t] = None]
           /\ UNCHANGED reply

Return(t) == Succeed(t) \/ Fail(t)

Next == \E t \in Threads : Return(t) \/ \E i \in Images \cup {Dummy} : Call(t, i)

Spec == Init /\ [][Next]_vars
=============================================================================
