----------------------- MODULE TensorRTBackendProofs -----------------------
(***************************************************************************)
(* Proofs about TensorRTBackend, for any processes, models, versions and   *)
(* number of loads.                                                        *)
(***************************************************************************)
EXTENDS TensorRTBackend, FiniteSetTheorems, TLAPS

NetworkOrNone == Networks \cup {None}
Fields == [stream : BOOLEAN, runtime : BOOLEAN,
           engine : NetworkOrNone, context : NetworkOrNone, sizes : NetworkOrNone,
           buffers : [1..4 -> NetworkOrNone]]

(* TypeOK but for the bound on what is allocated, which the ledger gives.  *)
Types == /\ pc \in [Procs -> PCs]
         /\ path \in [Procs -> Models \cup {None}]
         /\ loads \in [Procs -> 0..MaxLoads]
         /\ fields \in [Procs -> Fields]
         /\ live \in [Procs -> [Kinds -> Nat]]
         /\ handles \in [Procs -> SUBSET Models]
         /\ onnx \in [Models -> 1..MaxVersion]
         /\ cache \in [Models -> Networks \cup {None, Corrupt}]

(* Where a load is, and what the pointers of a backend that has just been  *)
(* created hold.  From "saving" on engine_ is a network of the path's      *)
(* model, of a version that has been deployed.                             *)
Place(p) ==
  /\ pc[p] \in {"down", "created", "streaming"} => loads[p] = 0 /\ handles[p] = {}
  /\ pc[p] \in {"down", "created"} => fields[p] = NoFields
  /\ pc[p] = "streaming" => ~fields[p].runtime
  /\ pc[p] \in Loading => path[p] \in Models
  /\ pc[p] \in {"saving", "writing", "racing", "preparing"} =>
       /\ fields[p].engine \in Networks
       /\ fields[p].engine.model = path[p]
       /\ fields[p].engine.version <= onnx[path[p]]

(* What a process has allocated is at least what its pointers and handles  *)
(* reach (nothing is freed twice), and at most what its loads can have     *)
(* allocated.                                                              *)
Before(p, places) == loads[p] - One(pc[p] \in places)
Unbuilt == {"checking", "reading", "building"}

OwnedOnce(p) == /\ live[p]["engineImpl"] = 1
                /\ live[p]["stream"] = One(fields[p].stream)
                /\ live[p]["runtime"] = One(fields[p].runtime)

ModelLedger(p) ==
  /\ IsFiniteSet(handles[p])
  /\ Cardinality(handles[p]) + One(pc[p] \in Loading) <= live[p]["modelImpl"]
  /\ live[p]["modelImpl"] <= loads[p]

EngineLedger(p) == /\ One(fields[p].engine # None) <= live[p]["engine"]
                   /\ live[p]["engine"] <= Before(p, Unbuilt)

ContextLedger(p) == /\ One(fields[p].context # None) <= live[p]["context"]
                    /\ live[p]["context"] <= Before(p, Loading)

BufferLedger(p) == /\ Cardinality(ReachableBuffers(fields[p])) <= live[p]["buffer"]
                   /\ live[p]["buffer"] <= 4 * Before(p, Loading)

Ledger(p) == pc[p] # "down" => /\ OwnedOnce(p) /\ ModelLedger(p)
                               /\ EngineLedger(p) /\ ContextLedger(p) /\ BufferLedger(p)

BackendInv == /\ Types
              /\ \A p \in Procs : Place(p)
              /\ \A p \in Procs : live[p] \in [Kinds -> Count]
              /\ \A p \in Procs : Ledger(p)
              /\ CacheOfOwnModel
-----------------------------------------------------------------------------
(* The states a backend starts in. *)
LEMMA Zeros ==
  /\ NoFields \in Fields
  /\ Nothing \in [Kinds -> Nat]
  /\ \A f \in Fields, e \in NetworkOrNone : [f EXCEPT !.engine = e] \in Fields
BY DEF NoFields, Fields, NetworkOrNone, Nothing

(* The first n of the buffers are n buffers. *)
LEMMA UpTo ==
  ASSUME NEW n \in Nat
  PROVE  IsFiniteSet(1..n) /\ Cardinality(1..n) = n
<1>1. \A a, b \in Int : /\ IsFiniteSet(a..b)
                        /\ Cardinality(a..b) = IF a > b THEN 0 ELSE b - a + 1
  BY FS_Interval
<1>2. 1 \in Int /\ n \in Int
  OBVIOUS
<1>3. IsFiniteSet(1..n) /\ Cardinality(1..n) = IF 1 > n THEN 0 ELSE n - 1 + 1
  BY <1>1, <1>2, Zenon
<1> QED
  BY <1>3

(* The buffers a pointer reaches are at most four. *)
LEMMA FiniteBuffers ==
  ASSUME NEW f
  PROVE  /\ IsFiniteSet(ReachableBuffers(f))
         /\ Cardinality(ReachableBuffers(f)) \in 0..4
<1>1. IsFiniteSet(1..4) /\ Cardinality(1..4) = 4
  BY UpTo
<1>2. ReachableBuffers(f) \in SUBSET (1..4)
  BY DEF ReachableBuffers
<1> QED
  BY <1>1, <1>2, FS_Subset, FS_CardinalityType

(* Allocating n buffers over old pointers: they reach at most n more.      *)
LEMMA PreparedBuffers ==
  ASSUME NEW f \in Fields, f.engine \in Networks, NEW n \in 0..4
  PROVE  /\ Prepared(f, n) \in Fields
         /\ Cardinality(ReachableBuffers(Prepared(f, n))) <= Cardinality(ReachableBuffers(f)) + n
<1> DEFINE g == Prepared(f, n)
<1>1. /\ g \in Fields
      /\ \A b \in 1..4 : g.buffers[b] = IF b <= n THEN f.engine ELSE f.buffers[b]
  BY DEF Prepared, NetworkSizes, Fields, NetworkOrNone
<1>2. ReachableBuffers(g) = ReachableBuffers(f) \cup (1..n)
  BY <1>1, ValuesAssumption DEF ReachableBuffers
<1>3. IsFiniteSet(1..n) /\ Cardinality(1..n) = n
  BY UpTo
<1>4. IsFiniteSet(ReachableBuffers(f) \cap (1..n))
  BY FiniteBuffers, FS_Subset
<1>5. Cardinality(ReachableBuffers(f) \cap (1..n)) \in Nat
  BY <1>4, FS_CardinalityType
<1>6. Cardinality(ReachableBuffers(g)) =
        Cardinality(ReachableBuffers(f)) + n - Cardinality(ReachableBuffers(f) \cap (1..n))
  BY <1>2, <1>3, FiniteBuffers, FS_Union
<1> HIDE DEF g
<1>7. Cardinality(ReachableBuffers(f)) \in Nat
  BY FiniteBuffers
<1>8. Cardinality(ReachableBuffers(g)) <= Cardinality(ReachableBuffers(f)) + n
  BY <1>5, <1>6, <1>7
<1> QED
  BY <1>1, <1>8 DEF g

-----------------------------------------------------------------------------
(* Types. *)

(* Moving to another point of the code. *)
LEMMA GotoType ==
  ASSUME Types, NEW p \in Procs, NEW label \in PCs, Goto(p, label)
  PROVE  pc' \in [Procs -> PCs]
BY DEF Types, Goto

(* An allocation keeps the counts natural numbers. *)
LEMMA CountType ==
  ASSUME Types, NEW p \in Procs, NEW kind \in Kinds, NEW n \in Nat,
         live' = [live EXCEPT ![p][kind] = n]
  PROVE  live' \in [Procs -> [Kinds -> Nat]]
<1>1. live[p] \in [Kinds -> Nat]
  BY DEF Types
<1>2. [live[p] EXCEPT ![kind] = n] \in [Kinds -> Nat]
  BY <1>1
<1>3. live' = [live EXCEPT ![p] = [live[p] EXCEPT ![kind] = n]]
  BY DEF Types
<1> QED
  BY <1>2, <1>3 DEF Types

(* So does an allocation, and a deletion of something allocated. *)
LEMMA AllocType ==
  ASSUME Types, NEW p \in Procs, NEW kind \in Kinds,
         Alloc(p, kind) \/ (live[p][kind] > 0 /\ Delete(p, kind))
  PROVE  live' \in [Procs -> [Kinds -> Nat]]
<1>1. live[p][kind] \in Nat
  BY DEF Types
<1>2. CASE Alloc(p, kind)
  <2>1. live' = [live EXCEPT ![p][kind] = live[p][kind] + 1]
    BY <1>2 DEF Alloc, Types
  <2>2. live[p][kind] + 1 \in Nat
    BY <1>1
  <2> QED
    BY <2>1, <2>2, CountType
<1>3. CASE live[p][kind] > 0 /\ Delete(p, kind)
  <2>1. live' = [live EXCEPT ![p][kind] = live[p][kind] - 1]
    BY <1>3 DEF Delete, Types
  <2>2. live[p][kind] - 1 \in Nat
    BY <1>1, <1>3
  <2> QED
    BY <2>1, <2>2, CountType
<1> QED
  BY <1>2, <1>3

(* The model handle under construction, and each one held, is allocated.   *)
LEMMA ModelAllocated ==
  ASSUME Types, NEW p \in Procs, Ledger(p), pc[p] # "down", pc[p] \in Loading \/ handles[p] # {}
  PROVE  live[p]["modelImpl"] \in Nat /\ live[p]["modelImpl"] > 0
<1>1. live[p]["modelImpl"] \in Nat
  BY DEF Types, Kinds
<1>2. Cardinality(handles[p]) \in Nat /\ (handles[p] # {} => Cardinality(handles[p]) > 0)
  BY FS_EmptySet, FS_CardinalityType DEF Ledger, ModelLedger
<1>3. Cardinality(handles[p]) + One(pc[p] \in Loading) <= live[p]["modelImpl"]
  BY DEF Ledger, ModelLedger
<1> QED
  BY <1>1, <1>2, <1>3 DEF One

(* Storing another engine or context in the backend. *)
LEMMA PointerType ==
  ASSUME Types, NEW p \in Procs, NEW e \in NetworkOrNone,
         \/ fields' = [fields EXCEPT ![p].engine = e]
         \/ fields' = [fields EXCEPT ![p].context = e]
  PROVE  fields' \in [Procs -> Fields]
<1>1. fields \in [Procs -> Fields] /\ fields[p] \in Fields
  BY DEF Types
<1>2. [fields[p] EXCEPT !.engine = e] \in Fields /\ [fields[p] EXCEPT !.context = e] \in Fields
  BY <1>1 DEF Fields
<1>3. \/ fields' = [fields EXCEPT ![p] = [fields[p] EXCEPT !.engine = e]]
      \/ fields' = [fields EXCEPT ![p] = [fields[p] EXCEPT !.context = e]]
  BY <1>1
<1> QED
  BY <1>1, <1>2, <1>3

(* Storing a stream, a runtime or a whole set of pointers. *)
LEMMA FieldsType ==
  ASSUME Types, NEW p \in Procs
  PROVE  /\ \A f \in Fields : [fields EXCEPT ![p] = f] \in [Procs -> Fields]
         /\ [fields EXCEPT ![p].stream = TRUE] \in [Procs -> Fields]
         /\ [fields EXCEPT ![p].runtime = TRUE] \in [Procs -> Fields]
<1>1. fields \in [Procs -> Fields] /\ fields[p] \in Fields
  BY DEF Types
<1>2. /\ [fields[p] EXCEPT !.stream = TRUE] \in Fields
      /\ [fields[p] EXCEPT !.runtime = TRUE] \in Fields
  BY <1>1 DEF Fields
<1> QED
  BY <1>1, <1>2

(* The destructor frees nothing that was not allocated. *)
LEMMA DeleteEngineType ==
  ASSUME BackendInv, NEW p \in Procs, pc[p] # "down", handles[p] = {}, DeleteEngine(p)
  PROVE  live' \in [Procs -> [Kinds -> Nat]]
<1> DEFINE f == fields[p]
<1>1. live[p] \in [Kinds -> Nat]
  BY DEF BackendInv, Types
<1>2. \A k \in Kinds : Reachable(f)[k] \in Nat /\ Reachable(f)[k] <= live[p][k]
  <2>1. /\ 1 <= live[p]["engineImpl"] /\ One(f.stream) <= live[p]["stream"]
        /\ One(f.runtime) <= live[p]["runtime"]
        /\ One(f.engine # None) <= live[p]["engine"]
        /\ One(f.context # None) <= live[p]["context"]
        /\ Cardinality(ReachableBuffers(f)) <= live[p]["buffer"]
    BY <1>1 DEF BackendInv, Ledger, OwnedOnce, EngineLedger, ContextLedger, BufferLedger, One, Kinds
  <2>2. Cardinality(ReachableBuffers(f)) \in Nat
    BY FiniteBuffers
  <2> QED
    BY <1>1, <2>1, <2>2 DEF Reachable, Kinds, One
<1>3. \A k \in Kinds : live[p][k] - Reachable(f)[k] \in Nat
  BY <1>1, <1>2
<1> HIDE DEF f
<1> QED
  BY <1>3 DEF DeleteEngine, BackendInv, Types, f
(* No step leaves the types. *)
LEMMA TypesStep ==
  ASSUME BackendInv, [Next]_vars
  PROVE  Types'
<1> USE BoundsAssumption DEF disk
<1>0. /\ Types
      /\ \A p \in Procs : Place(p) /\ Ledger(p)
  BY DEF BackendInv
<1>1. ASSUME NEW p \in Procs, CreateEngine(p)
      PROVE  Types'
  <2>1. live' \in [Procs -> [Kinds -> Nat]]
    BY <1>0, <1>1, AllocType DEF CreateEngine, Kinds
  <2>2. pc' \in [Procs -> PCs]
    BY <1>0, <1>1, GotoType DEF CreateEngine, PCs
  <2> QED
    BY <1>0, <1>1, <2>1, <2>2 DEF CreateEngine, Types
<1>2. ASSUME NEW p \in Procs, CreateThrows(p)
      PROVE  Types'
  <2>1. pc' \in [Procs -> PCs]
    BY <1>0, <1>2, GotoType DEF CreateThrows, PCs
  <2> QED
    BY <1>0, <1>2, <2>1 DEF CreateThrows, Types
<1>3. ASSUME NEW p \in Procs, CreateStream(p)
      PROVE  Types'
  <2>1. live' \in [Procs -> [Kinds -> Nat]]
    BY <1>0, <1>3, AllocType DEF CreateStream, Kinds
  <2>2. pc' \in [Procs -> PCs] /\ fields' \in [Procs -> Fields]
    BY <1>0, <1>3, GotoType, FieldsType DEF CreateStream, PCs
  <2> QED
    BY <1>0, <1>3, <2>1, <2>2 DEF CreateStream, Types
<1>4. ASSUME NEW p \in Procs, CreateRuntime(p)
      PROVE  Types'
  <2>1. live' \in [Procs -> [Kinds -> Nat]]
    BY <1>0, <1>4, AllocType DEF CreateRuntime, Kinds
  <2>2. pc' \in [Procs -> PCs] /\ fields' \in [Procs -> Fields]
    BY <1>0, <1>4, GotoType, FieldsType DEF CreateRuntime, PCs
  <2> QED
    BY <1>0, <1>4, <2>1, <2>2 DEF CreateRuntime, Types
<1>5. ASSUME NEW p \in Procs, InitializeFails(p) \/ DestroyEngine(p)
      PROVE  Types'
  <2>1. pc[p] # "down" /\ handles[p] = {} /\ DeleteEngine(p) /\ UNCHANGED <<path, handles, disk>>
    BY <1>0, <1>5 DEF InitializeFails, DestroyEngine, Place
  <2>2. live' \in [Procs -> [Kinds -> Nat]]
    BY <2>1, DeleteEngineType
  <2>3. fields' \in [Procs -> Fields] /\ loads' \in [Procs -> 0..MaxLoads] /\ pc' \in [Procs -> PCs]
    BY <1>0, <2>1, Zeros, GotoType DEF DeleteEngine, Types, PCs
  <2> QED
    BY <1>0, <2>1, <2>2, <2>3 DEF Types
<1>6. ASSUME NEW p \in Procs, NEW m \in Models, StartLoad(p, m)
      PROVE  Types'
  <2>1. live' \in [Procs -> [Kinds -> Nat]]
    BY <1>0, <1>6, AllocType DEF StartLoad, Kinds
  <2>2. pc' \in [Procs -> PCs]
    BY <1>0, <1>6, GotoType DEF StartLoad, PCs, Loading
  <2>3. loads' \in [Procs -> 0..MaxLoads] /\ path' \in [Procs -> Models \cup {None}]
    BY <1>0, <1>6 DEF StartLoad, Types
  <2> QED
    BY <1>0, <1>6, <2>1, <2>2, <2>3 DEF StartLoad, Types
<1>7. ASSUME NEW p \in Procs, CheckCache(p) \/ LoadThrows(p) \/ SaveFails(p)
      PROVE  Types'
  <2>1. PICK label \in PCs : Goto(p, label)
    BY <1>7 DEF CheckCache, LoadThrows, SaveFails, PCs, Loading
  <2>2. pc' \in [Procs -> PCs]
    BY <1>0, <2>1, GotoType
  <2> QED
    BY <1>0, <1>7, <2>2 DEF CheckCache, LoadThrows, SaveFails, Types
<1>8. ASSUME NEW p \in Procs, ReadCache(p) \/ BuildEngine(p)
      PROVE  Types'
  <2>1. Alloc(p, "engine") /\ \E label \in PCs : Goto(p, label)
    BY <1>8 DEF ReadCache, BuildEngine, PCs, Loading
  <2>2. pc' \in [Procs -> PCs] /\ live' \in [Procs -> [Kinds -> Nat]]
    BY <1>0, <2>1, GotoType, AllocType DEF Kinds
  <2>3. \E e \in Networks : fields' = [fields EXCEPT ![p].engine = e]
    <3>1. CASE ReadCache(p)
      BY <3>1 DEF ReadCache
    <3>2. CASE BuildEngine(p)
      <4>1. path[p] \in Models /\ onnx[path[p]] \in 1..MaxVersion
        BY <1>0, <3>2 DEF BuildEngine, Place, Loading, Types
      <4> QED
        BY <3>2, <4>1 DEF BuildEngine, Networks
    <3> QED
      BY <1>8, <3>1, <3>2
  <2>4. Networks \subseteq NetworkOrNone
    BY DEF NetworkOrNone
  <2>5. fields' \in [Procs -> Fields]
    BY <1>0, <2>3, <2>4, PointerType
  <2> QED
    BY <1>0, <1>8, <2>2, <2>5 DEF ReadCache, BuildEngine, Types
<1>9. ASSUME NEW p \in Procs, RejectCache(p)
      PROVE  Types'
  <2>1. pc' \in [Procs -> PCs] /\ fields' \in [Procs -> Fields]
    BY <1>0, <1>9, GotoType, PointerType DEF RejectCache, PCs, Loading, NetworkOrNone
  <2> QED
    BY <1>0, <1>9, <2>1 DEF RejectCache, Types
<1>10. ASSUME NEW p \in Procs, BuildFails(p) \/ ContextFails(p)
       PROVE  Types'
  <2>1. pc[p] \in Loading /\ pc[p] # "down" /\ FailLoad(p)
    BY <1>10 DEF BuildFails, ContextFails, Loading
  <2>2. live[p]["modelImpl"] > 0
    BY <1>0, <2>1, ModelAllocated
  <2>3. pc' \in [Procs -> PCs] /\ live' \in [Procs -> [Kinds -> Nat]]
    BY <1>0, <2>1, <2>2, GotoType, AllocType DEF FailLoad, PCs, Kinds
  <2>4. fields[p].engine \in NetworkOrNone /\ None \in NetworkOrNone
    BY <1>0 DEF Types, Fields, NetworkOrNone
  <2>5. \E e \in NetworkOrNone : \/ fields' = [fields EXCEPT ![p].engine = e]
                                 \/ fields' = [fields EXCEPT ![p].context = e]
    BY <1>10, <2>4 DEF BuildFails, ContextFails
  <2>6. fields' \in [Procs -> Fields]
    BY <1>0, <2>5, PointerType
  <2> QED
    BY <1>0, <1>10, <2>3, <2>6 DEF BuildFails, ContextFails, Types
<1>11. ASSUME NEW p \in Procs, OpenCache(p)
       PROVE  Types'
  <2>1. path[p] \in Models
    BY <1>0, <1>11 DEF OpenCache, Place, Loading
  <2>2. pc' \in [Procs -> PCs]
    BY <1>0, <1>11 DEF OpenCache, Types, PCs, Loading
  <2> QED
    BY <1>0, <1>11, <2>1, <2>2 DEF OpenCache, Types, CachePath
<1>12. ASSUME NEW p \in Procs, WriteCache(p) \/ ShortWrite(p)
       PROVE  Types'
  <2>1. /\ pc[p] \in {"writing", "racing"}
        /\ Goto(p, "preparing")
        /\ UNCHANGED <<path, loads, fields, live, handles, onnx>>
    BY <1>12 DEF WriteCache, ShortWrite
  <2>2. fields[p].engine \in Networks
    BY <1>0, <2>1 DEF Place
  <2>3. \E content \in Networks \cup {Corrupt} : cache' = [cache EXCEPT ![CachePath(p)] = content]
    BY <1>12, <2>2 DEF WriteCache, ShortWrite
  <2>4. pc' \in [Procs -> PCs]
    BY <1>0, <2>1, GotoType DEF PCs, Loading
  <2> QED
    BY <1>0, <2>1, <2>3, <2>4 DEF Types
<1>13. ASSUME NEW p \in Procs, NEW n \in 0..4,
              pc[p] = "preparing", fields' = [fields EXCEPT ![p] = Prepared(@, n)]
       PROVE  fields' \in [Procs -> Fields]
  <2>1. fields[p] \in Fields /\ fields[p].engine \in Networks
    BY <1>0, <1>13 DEF Types, Place
  <2> QED
    BY <1>0, <1>13, <2>1, PreparedBuffers, FieldsType
<1>14. ASSUME NEW p \in Procs, NEW n \in 0..3, PrepareFails(p, n)
       PROVE  Types'
  <2>1. live[p]["modelImpl"] > 0
    BY <1>0, <1>14, ModelAllocated DEF PrepareFails, Loading
  <2>2. live' \in [Procs -> [Kinds -> Nat]]
    <3>1. live[p] \in [Kinds -> Nat]
      BY <1>0 DEF Types
    <3> QED
      BY <1>0, <1>14, <2>1, <3>1 DEF PrepareFails, Kinds, Types
  <2>3. pc' \in [Procs -> PCs]
    BY <1>0, <1>14, GotoType DEF PrepareFails, PCs
  <2>4. fields' \in [Procs -> Fields]
    <3>1. n \in 0..4 /\ pc[p] = "preparing" /\ fields' = [fields EXCEPT ![p] = Prepared(@, n)]
      BY <1>14 DEF PrepareFails
    <3> QED
      BY <1>13, <3>1
  <2> QED
    BY <1>0, <1>14, <2>2, <2>3, <2>4 DEF PrepareFails, Types
<1>15. ASSUME NEW p \in Procs, Prepare(p)
       PROVE  Types'
  <2>1. live' \in [Procs -> [Kinds -> Nat]]
    <3>1. live[p] \in [Kinds -> Nat]
      BY <1>0 DEF Types
    <3> QED
      BY <1>0, <1>15, <3>1 DEF Prepare, Kinds, Types
  <2>2. pc' \in [Procs -> PCs]
    BY <1>0, <1>15, GotoType DEF Prepare, PCs
  <2>4. fields' \in [Procs -> Fields]
    <3>1. 4 \in 0..4 /\ pc[p] = "preparing" /\ fields' = [fields EXCEPT ![p] = Prepared(@, 4)]
      BY <1>15 DEF Prepare
    <3> QED
      BY <1>13, <3>1
  <2>3. handles' \in [Procs -> SUBSET Models]
    BY <1>0, <1>15 DEF Prepare, Types, Place, Loading
  <2> QED
    BY <1>0, <1>15, <2>1, <2>2, <2>3, <2>4 DEF Prepare, Types
<1>16. ASSUME NEW p \in Procs, NEW m \in Models, UnloadModel(p, m)
       PROVE  Types'
  <2>1. live[p]["modelImpl"] > 0
    BY <1>0, <1>16, ModelAllocated DEF UnloadModel
  <2>2. live' \in [Procs -> [Kinds -> Nat]]
    BY <1>0, <1>16, <2>1, AllocType DEF UnloadModel, Kinds
  <2> QED
    BY <1>0, <1>16, <2>2 DEF UnloadModel, Types
<1>17. ASSUME NEW p \in Procs, Crash(p)
       PROVE  Types'
  <2>1. pc' \in [Procs -> PCs] /\ fields' \in [Procs -> Fields] /\ live' \in [Procs -> [Kinds -> Nat]]
    BY <1>0, <1>17, GotoType, Zeros DEF Crash, PCs, Types
  <2> QED
    BY <1>0, <1>17, <2>1 DEF Crash, Types
<1>18. ASSUME NEW p \in Procs, Exit(p)
       PROVE  Types'
  BY <1>0, <1>18, Zeros DEF Exit, Types
<1>19. ASSUME NEW m \in Models, ReplaceModel(m)
       PROVE  Types'
  BY <1>0, <1>19 DEF ReplaceModel, Types
<1>20. CASE UNCHANGED vars
  BY <1>0, <1>20 DEF Types, vars
<1> QED
  BY <1>1, <1>2, <1>3, <1>4, <1>5, <1>6, <1>7, <1>8, <1>9, <1>10, <1>11, <1>12, <1>14, <1>15,
     <1>16, <1>17, <1>18, <1>19, <1>20
  DEF Next, LoadStep
-----------------------------------------------------------------------------
(* Who changes what. *)

StepOf(p) == \/ CreateEngine(p) \/ CreateThrows(p) \/ CreateStream(p)
             \/ CreateRuntime(p) \/ InitializeFails(p) \/ DestroyEngine(p)
             \/ LoadStep(p) \/ Crash(p) \/ Exit(p)
             \/ \E m \in Models : StartLoad(p, m) \/ UnloadModel(p, m)

(* The opening of a cache file tells another writer that it races. *)
Untouched(q) ==
  /\ pc'[q] = pc[q] \/ (pc[q] \in {"writing", "racing"} /\ pc'[q] \in {"writing", "racing"})
  /\ path'[q] = path[q] /\ loads'[q] = loads[q] /\ fields'[q] = fields[q]
  /\ live'[q] = live[q] /\ handles'[q] = handles[q]

(* A step of one process leaves the memory of the others alone, and no     *)
(* process changes a model file.                                           *)
LEMMA OthersUntouched ==
  ASSUME Types, NEW p \in Procs, StepOf(p)
  PROVE  /\ \A q \in Procs \ {p} : Untouched(q)
         /\ onnx' = onnx
<1> USE DEF disk, Goto, Alloc, Delete
<1>1. CASE CreateEngine(p) \/ CreateThrows(p) \/ CreateStream(p) \/ CreateRuntime(p)
  BY <1>1 DEF Types, Untouched, CreateEngine, CreateThrows, CreateStream, CreateRuntime
<1>2. CASE InitializeFails(p) \/ DestroyEngine(p) \/ Crash(p) \/ Exit(p)
  BY <1>2 DEF Types, Untouched, InitializeFails, DestroyEngine, DeleteEngine, Crash, Exit
<1>3. CASE \E m \in Models : StartLoad(p, m) \/ UnloadModel(p, m)
  BY <1>3 DEF Types, Untouched, StartLoad, UnloadModel
<1>4. CASE CheckCache(p) \/ ReadCache(p) \/ RejectCache(p) \/ LoadThrows(p)
  BY <1>4 DEF Types, Untouched, CheckCache, ReadCache, RejectCache, LoadThrows
<1>5. CASE BuildEngine(p) \/ BuildFails(p) \/ ContextFails(p)
  BY <1>5 DEF Types, Untouched, BuildEngine, BuildFails, ContextFails, FailLoad
<1>6. CASE OpenCache(p)
  BY <1>6 DEF Types, Untouched, OpenCache
<1>7. CASE WriteCache(p) \/ ShortWrite(p) \/ SaveFails(p)
  BY <1>7 DEF Types, Untouched, WriteCache, ShortWrite, SaveFails
<1>8. CASE Prepare(p) \/ \E n \in 0..3 : PrepareFails(p, n)
  BY <1>8 DEF Types, Untouched, Prepare, PrepareFails
<1> QED
  BY <1>1, <1>2, <1>3, <1>4, <1>5, <1>6, <1>7, <1>8 DEF StepOf, LoadStep

(* Deploying a new version only raises versions, and touches no process.   *)
LEMMA Deployment ==
  ASSUME Types, NEW m \in Models, ReplaceModel(m)
  PROVE  /\ \A q \in Procs : Untouched(q)
         /\ \A k \in Models : onnx'[k] \in Nat /\ onnx[k] <= onnx'[k]
         /\ cache' = cache
BY DEF Types, ReplaceModel, Untouched

(* Every step is a process's, a deployment or none. *)
LEMMA StepCases ==
  [Next]_vars => \/ \E p \in Procs : StepOf(p)
                 \/ \E m \in Models : ReplaceModel(m)
                 \/ UNCHANGED vars
BY DEF Next, StepOf

-----------------------------------------------------------------------------
(* Where a load is. *)

(* A process that is not touched stays in place, as versions never fall.   *)
LEMMA PlaceKept ==
  ASSUME Types, NEW q \in Procs, Place(q), Untouched(q),
         \A k \in Models : onnx'[k] \in Nat /\ onnx[k] <= onnx'[k]
  PROVE  Place(q)'
<1>1. pc[q] \in {"saving", "writing", "racing", "preparing"} =>
        /\ fields[q].engine \in Networks /\ fields[q].engine.model = path[q] /\ path[q] \in Models
        /\ fields[q].engine.version \in Nat /\ onnx[path[q]] \in Nat
        /\ fields[q].engine.version <= onnx'[path[q]]
  BY DEF Place, Loading, Types, Networks
<1> QED
  BY <1>1 DEF Place, Untouched, Loading

(* The stepping process stays in place too. *)
LEMMA PlaceStepOf ==
  ASSUME BackendInv, NEW p \in Procs, StepOf(p)
  PROVE  Place(p)'
<1> USE DEF disk, Goto
<1>0. Types /\ Place(p) /\ onnx' = onnx
  BY OthersUntouched DEF BackendInv
<1>1. CASE CreateEngine(p) \/ CreateThrows(p) \/ CreateRuntime(p)
  BY <1>0, <1>1 DEF Types, Place, Loading, CreateEngine, CreateThrows, CreateRuntime
<1>9. CASE CreateStream(p)
  <2>1. ~fields[p].runtime
    BY <1>0, <1>9 DEF Place, NoFields, CreateStream
  <2>2. fields'[p] = [fields[p] EXCEPT !.stream = TRUE] /\ fields[p] \in Fields
    BY <1>0, <1>9 DEF CreateStream, Types
  <2>3. ~fields'[p].runtime
    BY <2>1, <2>2 DEF Fields
  <2> QED
    BY <1>0, <1>9, <2>3 DEF CreateStream, Types, Place, Loading
<1>2. CASE InitializeFails(p) \/ DestroyEngine(p) \/ Crash(p) \/ Exit(p)
  BY <1>0, <1>2 DEF Types, Place, Loading, InitializeFails, DestroyEngine, DeleteEngine, Crash, Exit
<1>3. CASE \E m \in Models : StartLoad(p, m) \/ UnloadModel(p, m)
  BY <1>0, <1>3 DEF Types, Place, Loading, StartLoad, UnloadModel
<1>4. CASE CheckCache(p) \/ RejectCache(p) \/ LoadThrows(p)
  BY <1>0, <1>4 DEF Types, Place, Loading, CheckCache, RejectCache, LoadThrows
<1>5. CASE ReadCache(p)
  <2>1. /\ pc[p] = "reading" /\ path[p] \in Models /\ path'[p] = path[p] /\ pc'[p] = "preparing"
        /\ cache[path[p]] \in Networks /\ fields'[p].engine = cache[path[p]]
    BY <1>0, <1>5 DEF ReadCache, CachePath, Types, Fields, Place, Loading
  <2>2. cache[path[p]].model = path[p] /\ cache[path[p]].version <= onnx[path[p]]
    BY <2>1 DEF BackendInv, CacheOfOwnModel
  <2> QED
    BY <1>0, <2>1, <2>2 DEF Place
<1>6. CASE BuildEngine(p)
  <2>1. /\ path[p] \in Models /\ path'[p] = path[p] /\ pc'[p] = "saving"
        /\ fields'[p].engine = [model |-> path[p], version |-> onnx[path[p]]]
    BY <1>0, <1>6 DEF BuildEngine, Types, Fields, Place, Loading
  <2>2. onnx[path[p]] \in 1..MaxVersion
    BY <1>0, <2>1 DEF Types
  <2> QED
    BY <1>0, <2>1, <2>2, BoundsAssumption DEF Place, Networks
<1>7. CASE BuildFails(p) \/ ContextFails(p) \/ Prepare(p) \/ \E n \in 0..3 : PrepareFails(p, n)
  <2>1. pc'[p] = "ready"
    BY <1>0, <1>7 DEF Types, BuildFails, ContextFails, FailLoad, Prepare, PrepareFails
  <2> QED
    BY <2>1 DEF Place, Loading
<1>8. CASE OpenCache(p) \/ WriteCache(p) \/ ShortWrite(p) \/ SaveFails(p)
  BY <1>0, <1>8 DEF Types, Place, Loading, OpenCache, WriteCache, ShortWrite, SaveFails
<1> QED
  BY <1>1, <1>2, <1>3, <1>4, <1>5, <1>6, <1>7, <1>8, <1>9 DEF StepOf, LoadStep

(* So all processes stay in place. *)
LEMMA PlaceStep ==
  ASSUME BackendInv, [Next]_vars, NEW q \in Procs
  PROVE  Place(q)'
<1>0. Types /\ Place(q) /\ \A k \in Models : onnx[k] \in Nat
  BY BoundsAssumption DEF BackendInv, Types
<1>1. CASE \E p \in Procs : StepOf(p)
  BY <1>0, <1>1, OthersUntouched, PlaceStepOf, PlaceKept
<1>2. CASE \E m \in Models : ReplaceModel(m)
  BY <1>0, <1>2, Deployment, PlaceKept
<1>3. CASE UNCHANGED vars
  BY <1>0, <1>3 DEF Place, vars, disk
<1> QED
  BY <1>1, <1>2, <1>3, StepCases

-----------------------------------------------------------------------------
(* The cache. *)

(* What is written to a cache file is the engine of its own model, or      *)
(* something no engine can be read from.                                   *)
LEMMA CacheStep ==
  ASSUME BackendInv, [Next]_vars
  PROVE  CacheOfOwnModel'
<1>0. Types /\ CacheOfOwnModel /\ \A p \in Procs : Place(p)
  BY DEF BackendInv
<1>1. ASSUME NEW p \in Procs, WriteCache(p) \/ ShortWrite(p) \/ OpenCache(p)
      PROVE  CacheOfOwnModel'
  <2>1. pc[p] \in {"saving", "writing", "racing"} /\ onnx' = onnx
    BY <1>1 DEF WriteCache, ShortWrite, OpenCache
  <2>2. \E content \in {fields[p].engine, Corrupt} : cache' = [cache EXCEPT ![path[p]] = content]
    BY <1>1 DEF WriteCache, ShortWrite, OpenCache, CachePath
  <2>3. /\ path[p] \in Models
        /\ fields[p].engine.model = path[p] /\ fields[p].engine.version <= onnx[path[p]]
    BY <1>0, <2>1 DEF Place, Loading
  <2> QED
    BY <1>0, <2>1, <2>2, <2>3, ValuesAssumption DEF Types, CacheOfOwnModel
<1>2. ASSUME NEW m \in Models, ReplaceModel(m)
      PROVE  CacheOfOwnModel'
  <2>1. \A k \in Models : cache[k] \in Networks => cache[k].version \in Nat /\ onnx[k] \in Nat
    BY <1>0 DEF Types, Networks
  <2> QED
    BY <1>0, <1>2, <2>1, Deployment DEF CacheOfOwnModel
<1>3. CASE UNCHANGED disk
  BY <1>0, <1>3 DEF CacheOfOwnModel, disk
<1>4. ASSUME NEW p \in Procs, StepOf(p)
      PROVE  WriteCache(p) \/ ShortWrite(p) \/ OpenCache(p) \/ UNCHANGED disk
  BY <1>4 DEF StepOf, LoadStep, disk, CreateEngine, CreateThrows, CreateStream, CreateRuntime,
     InitializeFails, DestroyEngine, Crash, Exit, StartLoad, UnloadModel, CheckCache, ReadCache,
     RejectCache, LoadThrows, BuildEngine, BuildFails, ContextFails, SaveFails, Prepare, PrepareFails
<1> QED
  BY <1>1, <1>2, <1>3, <1>4, StepCases DEF vars

-----------------------------------------------------------------------------
(* The ledger. *)

(* What an allocation and a deletion do to each count. *)
LEMMA Counted ==
  ASSUME Types, NEW p \in Procs, NEW kind \in Kinds
  PROVE  /\ Alloc(p, kind) => \A k \in Kinds : live'[p][k] = live[p][k] + One(k = kind)
         /\ Delete(p, kind) => \A k \in Kinds : live'[p][k] = live[p][k] - One(k = kind)
<1>1. live \in [Procs -> [Kinds -> Nat]] /\ live[p] \in [Kinds -> Nat]
  BY DEF Types
<1> QED
  BY <1>1 DEF Alloc, Delete, One

(* A process that is not touched keeps its ledger. *)
LEMMA LedgerKept ==
  ASSUME Types, NEW q \in Procs, Ledger(q), Untouched(q)
  PROVE  Ledger(q)'
<1>1. /\ (pc[q] = "down") <=> (pc'[q] = "down")
      /\ (pc[q] \in Loading) <=> (pc'[q] \in Loading)
      /\ (pc[q] \in Unbuilt) <=> (pc'[q] \in Unbuilt)
  BY DEF Untouched, Loading, Unbuilt
<1>2. Before(q, Loading)' = Before(q, Loading) /\ Before(q, Unbuilt)' = Before(q, Unbuilt)
  BY <1>1 DEF Before, Untouched, One
<1> QED
  BY <1>1, <1>2 DEF Ledger, OwnedOnce, ModelLedger, EngineLedger, ContextLedger, BufferLedger,
     Untouched, One

(* Creating an engine, its stream and its runtime: the rest stays at zero. *)
LEMMA LedgerCreate ==
  ASSUME Types, NEW p \in Procs, Place(p), Ledger(p),
         CreateEngine(p) \/ CreateThrows(p) \/ CreateStream(p) \/ CreateRuntime(p)
  PROVE  Ledger(p)'
<1> USE DEF Goto, disk
<1> DEFINE Empty(n) == /\ n["modelImpl"] = 0 /\ n["engine"] = 0
                       /\ n["context"] = 0 /\ n["buffer"] = 0
           Unset(f) == f.engine = None /\ f.context = None /\ ReachableBuffers(f) = {}
<1>0. live[p] \in [Kinds -> Nat] /\ fields[p] \in Fields /\ loads[p] = 0 /\ handles[p] = {}
  BY DEF Types, Place, CreateEngine, CreateThrows, CreateStream, CreateRuntime
<1>2. IsFiniteSet({}) /\ Cardinality({}) = 0
  BY FS_EmptySet
<1>3. Unset(NoFields) /\ NoFields.stream = FALSE /\ NoFields.runtime = FALSE
  BY DEF NoFields, ReachableBuffers
<1>4. ASSUME pc[p] # "down", pc[p] \notin Loading
      PROVE  Empty(live[p])
  <2>0. pc[p] \notin Unbuilt
    BY <1>4 DEF Unbuilt, Loading
  <2>3. One(pc[p] \in Unbuilt) = 0 /\ One(pc[p] \in Loading) = 0
    BY <1>4, <2>0 DEF One
  <2>1. Before(p, Unbuilt) = 0 /\ Before(p, Loading) = 0
    BY <1>0, <2>3 DEF Before
  <2>2. /\ live[p]["modelImpl"] \in Nat /\ live[p]["engine"] \in Nat
        /\ live[p]["context"] \in Nat /\ live[p]["buffer"] \in Nat
    BY <1>0 DEF Kinds
  <2> QED
    BY <1>0, <1>4, <2>1, <2>2 DEF Ledger, ModelLedger, EngineLedger, ContextLedger, BufferLedger
<1>5. ASSUME pc'[p] \notin Loading, loads'[p] = 0, handles'[p] = {},
             Unset(fields'[p]), Empty(live'[p]), OwnedOnce(p)'
      PROVE  Ledger(p)'
  <2>0. pc'[p] \notin Unbuilt
    BY <1>5 DEF Unbuilt, Loading
  <2>3. One(pc'[p] \in Unbuilt) = 0 /\ One(pc'[p] \in Loading) = 0
    BY <1>5, <2>0 DEF One
  <2>1. Before(p, Unbuilt)' = 0 /\ Before(p, Loading)' = 0 /\ One(pc'[p] \in Loading) = 0
    BY <1>5, <2>3 DEF Before
  <2>2. One(fields'[p].engine # None) = 0 /\ One(fields'[p].context # None) = 0
    BY <1>5 DEF One
  <2> QED
    BY <1>2, <1>5, <2>1, <2>2 DEF Ledger, ModelLedger, EngineLedger, ContextLedger, BufferLedger
<1>6. CASE CreateEngine(p)
  <2>1. \A k \in Kinds : live'[p][k] = One(k = "engineImpl")
    BY <1>0, <1>6, Counted DEF CreateEngine, Nothing, Kinds, One
  <2>2. pc'[p] = "created" /\ fields'[p] = NoFields /\ loads'[p] = 0 /\ handles'[p] = {}
    BY <1>0, <1>6 DEF CreateEngine, Types, Place
  <2>3. Empty(live'[p]) /\ OwnedOnce(p)'
    BY <1>3, <2>1, <2>2 DEF OwnedOnce, Kinds, One
  <2> QED
    BY <1>3, <1>5, <2>2, <2>3 DEF Loading
<1>7. CASE CreateThrows(p)
  BY <1>7 DEF CreateThrows, Ledger, Types
<1>8. CASE CreateStream(p)
  <2>1. /\ pc[p] = "created" /\ fields[p] = NoFields
        /\ pc'[p] = "streaming" /\ loads'[p] = loads[p] /\ handles'[p] = handles[p]
        /\ fields'[p] = [fields[p] EXCEPT !.stream = TRUE]
        /\ \A k \in Kinds : live'[p][k] = live[p][k] + One(k = "stream")
    BY <1>8, Counted DEF CreateStream, Types, Place, Kinds
  <2>2. Unset(fields'[p]) /\ fields'[p].stream = TRUE /\ fields'[p].runtime = FALSE
    BY <1>0, <1>3, <2>1 DEF Fields, ReachableBuffers
  <2>3. Empty(live[p]) /\ OwnedOnce(p)
    BY <1>4, <2>1 DEF Loading, Ledger
  <2>4. Empty(live'[p]) /\ OwnedOnce(p)'
    BY <1>0, <1>3, <2>1, <2>2, <2>3 DEF OwnedOnce, Kinds, One
  <2> QED
    BY <1>0, <1>5, <2>1, <2>2, <2>4 DEF Loading
<1>9. CASE CreateRuntime(p)
  <2>1. /\ pc[p] = "streaming" /\ fields[p].runtime = FALSE
        /\ pc'[p] = "ready" /\ loads'[p] = loads[p] /\ handles'[p] = handles[p]
        /\ fields'[p] = [fields[p] EXCEPT !.runtime = TRUE]
        /\ \A k \in Kinds : live'[p][k] = live[p][k] + One(k = "runtime")
    BY <1>0, <1>9, Counted DEF CreateRuntime, Types, Fields, Place, Kinds
  <2>3. Empty(live[p]) /\ OwnedOnce(p)
    BY <1>4, <2>1 DEF Loading, Ledger
  <2>4. fields[p].engine = None /\ fields[p].context = None /\ ReachableBuffers(fields[p]) = {}
    <3>1. One(fields[p].engine # None) <= 0 /\ One(fields[p].context # None) <= 0
      BY <2>1, <2>3 DEF Ledger, EngineLedger, ContextLedger
    <3>2. Cardinality(ReachableBuffers(fields[p])) <= 0
      BY <2>1, <2>3 DEF Ledger, BufferLedger
    <3> QED
      BY <3>1, <3>2, FiniteBuffers, FS_EmptySet DEF One
  <2>5. Unset(fields'[p]) /\ fields'[p].runtime = TRUE /\ fields'[p].stream = fields[p].stream
    BY <1>0, <2>1, <2>4 DEF Fields, ReachableBuffers
  <2>6. Empty(live'[p]) /\ OwnedOnce(p)'
    BY <1>0, <2>1, <2>3, <2>5 DEF OwnedOnce, Kinds, One
  <2> QED
    BY <1>0, <1>5, <2>1, <2>5, <2>6 DEF Loading
<1> QED
  BY <1>6, <1>7, <1>8, <1>9

(* How many loads have come past some places of the code. *)
LEMMA PastPlaces ==
  ASSUME Types, Types', NEW p \in Procs, NEW places
  PROVE  /\ Before(p, places) \in Int /\ Before(p, places)' \in Int
         /\ loads'[p] = loads[p] /\ (pc'[p] \in places => pc[p] \in places)
              => Before(p, places) <= Before(p, places)'
         /\ loads'[p] = loads[p] /\ pc[p] \in places /\ pc'[p] \notin places
              => Before(p, places)' = Before(p, places) + 1
         /\ loads'[p] = loads[p] + 1 /\ pc[p] \notin places /\ pc'[p] \in places
              => Before(p, places)' = Before(p, places)
<1>1. loads[p] \in Int /\ loads'[p] \in Int
  BY BoundsAssumption DEF Types
<1>2. /\ One(pc[p] \in places) = IF pc[p] \in places THEN 1 ELSE 0
      /\ One(pc'[p] \in places) = IF pc'[p] \in places THEN 1 ELSE 0
  BY DEF One
<1>3. /\ Before(p, places) = loads[p] - One(pc[p] \in places)
      /\ Before(p, places)' = loads'[p] - One(pc'[p] \in places)
  BY DEF Before
<1>4. CASE pc[p] \in places
  BY <1>1, <1>2, <1>3, <1>4
<1>5. CASE pc[p] \notin places
  BY <1>1, <1>2, <1>3, <1>5
<1> QED
  BY <1>4, <1>5

(* A count that a step leaves alone stays in balance, as long as the load  *)
(* does not go back; forgetting an engine or a context does not harm.      *)
LEMMA InBalance ==
  ASSUME Types, Types', NEW p \in Procs, Ledger(p), pc[p] # "down"
  PROVE  /\ /\ fields'[p].stream = fields[p].stream /\ fields'[p].runtime = fields[p].runtime
            /\ \A k \in {"engineImpl", "stream", "runtime"} : live'[p][k] = live[p][k]
            => OwnedOnce(p)'
         /\ /\ handles'[p] = handles[p] /\ live'[p]["modelImpl"] = live[p]["modelImpl"]
            /\ loads'[p] = loads[p] /\ (pc'[p] \in Loading => pc[p] \in Loading)
            => ModelLedger(p)'
         /\ /\ fields'[p].engine \in {fields[p].engine, None}
            /\ live'[p]["engine"] = live[p]["engine"]
            /\ Before(p, Unbuilt) <= Before(p, Unbuilt)'
            => EngineLedger(p)'
         /\ /\ fields'[p].context \in {fields[p].context, None}
            /\ live'[p]["context"] = live[p]["context"]
            /\ Before(p, Loading) <= Before(p, Loading)'
            => ContextLedger(p)'
         /\ /\ fields'[p].buffers = fields[p].buffers
            /\ live'[p]["buffer"] = live[p]["buffer"]
            /\ Before(p, Loading) <= Before(p, Loading)'
            => BufferLedger(p)'
<1>1. /\ OwnedOnce(p) /\ ModelLedger(p)
      /\ EngineLedger(p) /\ ContextLedger(p) /\ BufferLedger(p)
  BY DEF Ledger
<1>2. /\ live[p]["modelImpl"] \in Nat /\ live[p]["engine"] \in Nat
      /\ live[p]["context"] \in Nat /\ live[p]["buffer"] \in Nat
  BY DEF Types, Kinds
<1>3. /\ Before(p, Unbuilt) \in Int /\ Before(p, Unbuilt)' \in Int
      /\ Before(p, Loading) \in Int /\ Before(p, Loading)' \in Int
  BY PastPlaces
<1>4. ASSUME fields'[p].stream = fields[p].stream, fields'[p].runtime = fields[p].runtime,
             \A k \in {"engineImpl", "stream", "runtime"} : live'[p][k] = live[p][k]
      PROVE  OwnedOnce(p)'
  BY <1>1, <1>4 DEF OwnedOnce
<1>5. ASSUME handles'[p] = handles[p], live'[p]["modelImpl"] = live[p]["modelImpl"],
             loads'[p] = loads[p], pc'[p] \in Loading => pc[p] \in Loading
      PROVE  ModelLedger(p)'
  <2>1. Cardinality(handles[p]) \in Nat
    BY <1>1, FS_CardinalityType DEF ModelLedger
  <2>2. One(pc'[p] \in Loading) <= One(pc[p] \in Loading)
    BY <1>5 DEF One
  <2>3. One(pc[p] \in Loading) \in {0, 1} /\ One(pc'[p] \in Loading) \in {0, 1}
    BY DEF One
  <2>4. Cardinality(handles[p]) + One(pc'[p] \in Loading) <= live[p]["modelImpl"]
    BY <1>1, <1>2, <2>1, <2>2, <2>3 DEF ModelLedger
  <2> QED
    BY <1>1, <1>5, <2>4 DEF ModelLedger
<1>6. ASSUME fields'[p].engine \in {fields[p].engine, None},
             live'[p]["engine"] = live[p]["engine"],
             Before(p, Unbuilt) <= Before(p, Unbuilt)'
      PROVE  EngineLedger(p)'
  <2>1. One(fields'[p].engine # None) <= live[p]["engine"]
    BY <1>1, <1>2, <1>6 DEF EngineLedger, One
  <2> QED
    BY <1>1, <1>2, <1>3, <1>6, <2>1 DEF EngineLedger
<1>7. ASSUME fields'[p].context \in {fields[p].context, None},
             live'[p]["context"] = live[p]["context"],
             Before(p, Loading) <= Before(p, Loading)'
      PROVE  ContextLedger(p)'
  <2>1. One(fields'[p].context # None) <= live[p]["context"]
    BY <1>1, <1>2, <1>7 DEF ContextLedger, One
  <2> QED
    BY <1>1, <1>2, <1>3, <1>7, <2>1 DEF ContextLedger
<1>8. ASSUME fields'[p].buffers = fields[p].buffers,
             live'[p]["buffer"] = live[p]["buffer"],
             Before(p, Loading) <= Before(p, Loading)'
      PROVE  BufferLedger(p)'
  <2>1. ReachableBuffers(fields'[p]) = ReachableBuffers(fields[p])
    BY <1>8 DEF ReachableBuffers
  <2> QED
    BY <1>1, <1>2, <1>3, <1>8, <2>1 DEF BufferLedger
<1> QED
  BY <1>4, <1>5, <1>6, <1>7, <1>8

(* A failed load gives its model handle back. *)
LEMMA HandleGivenBack ==
  ASSUME Types, NEW p \in Procs, Ledger(p), pc[p] \in Loading, pc'[p] \notin Loading,
         handles'[p] = handles[p], loads'[p] = loads[p],
         live'[p]["modelImpl"] = live[p]["modelImpl"] - 1
  PROVE  ModelLedger(p)'
<1>1. pc[p] # "down"
  BY DEF Loading
<1>2. ModelLedger(p)
  BY <1>1 DEF Ledger
<1>3. Cardinality(handles[p]) \in Nat /\ live[p]["modelImpl"] \in Nat /\ loads[p] \in Int
  BY <1>2, FS_CardinalityType, BoundsAssumption DEF ModelLedger, Types, Kinds
<1>4. One(pc[p] \in Loading) = 1 /\ One(pc'[p] \in Loading) = 0
  BY DEF One
<1> QED
  BY <1>2, <1>3, <1>4 DEF ModelLedger

(* An engine read or built is one more engine, owned by one more load.     *)
LEMMA EngineGained ==
  ASSUME Types, Types', NEW p \in Procs, Ledger(p), pc[p] \in Unbuilt, pc'[p] \notin Unbuilt,
         loads'[p] = loads[p],
         live'[p]["engine"] = live[p]["engine"] + 1
  PROVE  EngineLedger(p)'
<1>1. pc[p] # "down"
  BY DEF Unbuilt
<1>2. EngineLedger(p)
  BY <1>1 DEF Ledger
<1>3. /\ Before(p, Unbuilt) \in Int /\ Before(p, Unbuilt)' = Before(p, Unbuilt) + 1
      /\ live[p]["engine"] \in Nat
  BY PastPlaces DEF Types, Kinds
<1> QED
  BY <1>2, <1>3 DEF EngineLedger, One

(* The steps of a load up to the buffers, and the ways it ends early.      *)
LEMMA LedgerLoad ==
  ASSUME Types, Types', NEW p \in Procs, Place(p), Ledger(p),
         \/ CheckCache(p) \/ ReadCache(p) \/ RejectCache(p) \/ LoadThrows(p)
         \/ BuildEngine(p) \/ BuildFails(p) \/ ContextFails(p)
         \/ OpenCache(p) \/ WriteCache(p) \/ ShortWrite(p) \/ SaveFails(p)
  PROVE  Ledger(p)'
<1> USE DEF Goto, disk
<1>0. fields[p] \in Fields /\ fields'[p] \in Fields /\ live[p] \in [Kinds -> Nat]
  BY DEF Types
<1>1. ASSUME pc[p] \in Loading, pc'[p] \in Loading \cup {"ready"},
             pc'[p] \in Unbuilt => pc[p] \in Unbuilt,
             loads'[p] = loads[p]
      PROVE  /\ Before(p, Unbuilt) <= Before(p, Unbuilt)'
             /\ Before(p, Loading) <= Before(p, Loading)'
             /\ pc[p] # "down" /\ (pc'[p] \in Loading => pc[p] \in Loading)
  BY <1>1, PastPlaces DEF Loading
<1>2. CASE \/ CheckCache(p) \/ LoadThrows(p)
           \/ OpenCache(p) \/ WriteCache(p) \/ ShortWrite(p) \/ SaveFails(p)
  <2>1. /\ loads'[p] = loads[p] /\ fields'[p] = fields[p]
        /\ live'[p] = live[p] /\ handles'[p] = handles[p]
    BY <1>2 DEF CheckCache, LoadThrows, OpenCache, WriteCache, ShortWrite, SaveFails
  <2>2. /\ pc[p] \in Loading /\ pc'[p] \in Loading \cup {"ready"}
        /\ pc'[p] \in Unbuilt => pc[p] \in Unbuilt
    <3>1. CASE OpenCache(p)
      BY <3>1 DEF Types, OpenCache, Loading, Unbuilt
    <3>2. CASE CheckCache(p) \/ LoadThrows(p) \/ WriteCache(p) \/ ShortWrite(p) \/ SaveFails(p)
      BY <3>2 DEF Types, CheckCache, LoadThrows, WriteCache, ShortWrite, SaveFails, Loading, Unbuilt
    <3> QED
      BY <1>2, <3>1, <3>2
  <2>3. /\ OwnedOnce(p)' /\ ModelLedger(p)'
        /\ EngineLedger(p)' /\ ContextLedger(p)' /\ BufferLedger(p)'
    BY <1>1, <2>1, <2>2, InBalance
  <2> QED
    BY <2>3 DEF Ledger
<1>3. CASE ReadCache(p) \/ BuildEngine(p)
  <2>1. /\ loads'[p] = loads[p] /\ handles'[p] = handles[p]
        /\ \A k \in Kinds : live'[p][k] = live[p][k] + One(k = "engine")
        /\ \E e : fields'[p] = [fields[p] EXCEPT !.engine = e]
    <3>1. Alloc(p, "engine") /\ \E e : fields' = [fields EXCEPT ![p].engine = e]
      BY <1>3 DEF ReadCache, BuildEngine
    <3>2. \A k \in Kinds : live'[p][k] = live[p][k] + One(k = "engine")
      BY <3>1, Counted DEF Kinds
    <3>3. loads' = loads /\ handles' = handles
      BY <1>3 DEF ReadCache, BuildEngine
    <3>4. \E e : fields'[p] = [fields[p] EXCEPT !.engine = e]
      BY <3>1 DEF Types
    <3> QED
      BY <3>2, <3>3, <3>4
  <2>2. /\ pc[p] \in Loading /\ pc'[p] \in Loading
        /\ pc[p] \in Unbuilt /\ pc'[p] \notin Unbuilt
    BY <1>3 DEF Types, ReadCache, BuildEngine, Loading, Unbuilt
  <2>3. \A k \in Kinds : live'[p][k] = IF k = "engine" THEN live[p][k] + 1 ELSE live[p][k]
    BY <1>0, <2>1 DEF One
  <2>4. /\ fields'[p].stream = fields[p].stream /\ fields'[p].runtime = fields[p].runtime
        /\ fields'[p].context = fields[p].context /\ fields'[p].buffers = fields[p].buffers
    BY <1>0, <2>1 DEF Fields
  <2>5. EngineLedger(p)'
    BY <2>1, <2>2, <2>3, EngineGained DEF Kinds
  <2>6. OwnedOnce(p)' /\ ModelLedger(p)' /\ ContextLedger(p)' /\ BufferLedger(p)'
    BY <1>1, <2>1, <2>2, <2>3, <2>4, InBalance DEF Kinds
  <2> QED
    BY <2>5, <2>6 DEF Ledger
<1>4. CASE RejectCache(p)
  <2>1. /\ loads'[p] = loads[p] /\ handles'[p] = handles[p] /\ live'[p] = live[p]
        /\ fields'[p] = [fields[p] EXCEPT !.engine = None]
    BY <1>4 DEF RejectCache, Types
  <2>2. pc[p] \in Loading /\ pc'[p] \in Loading /\ pc[p] \in Unbuilt
    BY <1>4 DEF Types, RejectCache, Loading, Unbuilt
  <2>3. /\ fields'[p].stream = fields[p].stream /\ fields'[p].runtime = fields[p].runtime
        /\ fields'[p].context = fields[p].context /\ fields'[p].buffers = fields[p].buffers
        /\ fields'[p].engine = None
    BY <1>0, <2>1 DEF Fields
  <2>4. /\ OwnedOnce(p)' /\ ModelLedger(p)'
        /\ EngineLedger(p)' /\ ContextLedger(p)' /\ BufferLedger(p)'
    BY <1>1, <2>1, <2>2, <2>3, InBalance
  <2> QED
    BY <2>4 DEF Ledger
<1>5. CASE BuildFails(p) \/ ContextFails(p)
  <2>1. /\ loads'[p] = loads[p] /\ handles'[p] = handles[p] /\ pc'[p] = "ready"
        /\ \A k \in Kinds : live'[p][k] = live[p][k] - One(k = "modelImpl")
    BY <1>5, Counted DEF BuildFails, ContextFails, FailLoad, Types, Kinds
  <2>2. /\ pc[p] \in Loading /\ pc'[p] \notin Loading /\ pc'[p] \notin Unbuilt
        /\ pc'[p] \in Loading \cup {"ready"}
    BY <1>5, <2>1 DEF BuildFails, ContextFails, Loading, Unbuilt
  <2>3. \A k \in Kinds : live'[p][k] = IF k = "modelImpl" THEN live[p][k] - 1 ELSE live[p][k]
    BY <1>0, <2>1 DEF One
  <2>4. /\ fields'[p].stream = fields[p].stream /\ fields'[p].runtime = fields[p].runtime
        /\ fields'[p].engine \in {fields[p].engine, None}
        /\ fields'[p].context \in {fields[p].context, None}
        /\ fields'[p].buffers = fields[p].buffers
    <3>1. \/ \E e \in {fields[p].engine, None} : fields'[p] = [fields[p] EXCEPT !.engine = e]
          \/ fields'[p] = [fields[p] EXCEPT !.context = None]
      BY <1>5 DEF BuildFails, ContextFails, Types
    <3> QED
      BY <1>0, <3>1 DEF Fields
  <2>5. ModelLedger(p)'
    BY <2>1, <2>2, <2>3, HandleGivenBack DEF Kinds
  <2>6. OwnedOnce(p)' /\ EngineLedger(p)' /\ ContextLedger(p)' /\ BufferLedger(p)'
    BY <1>1, <2>1, <2>2, <2>3, <2>4, InBalance DEF Kinds
  <2> QED
    BY <2>5, <2>6 DEF Ledger
<1> QED
  BY <1>2, <1>3, <1>4, <1>5

(* The end of a load: the context, and the buffers that were allocated.    *)
LEMMA LedgerPrepare ==
  ASSUME Types, Types', NEW p \in Procs, Place(p), Ledger(p),
         Prepare(p) \/ \E n \in 0..3 : PrepareFails(p, n)
  PROVE  Ledger(p)'
<1> USE DEF Goto, disk
<1>0. /\ fields[p] \in Fields /\ live[p] \in [Kinds -> Nat]
      /\ fields[p].engine \in Networks
  BY DEF Types, Place, Prepare, PrepareFails
<1>1. PICK n \in 0..4 :
        /\ fields'[p] = Prepared(fields[p], n)
        /\ live'[p]["context"] = live[p]["context"] + 1
        /\ live'[p]["buffer"] = live[p]["buffer"] + n
        /\ \A k \in {"engineImpl", "stream", "runtime", "engine"} : live'[p][k] = live[p][k]
  <2>1. CASE Prepare(p)
    <3>1. 4 \in 0..4
      OBVIOUS
    <3> QED
      BY <1>0, <2>1, <3>1 DEF Prepare, Types, Kinds
  <2>2. CASE \E n \in 0..3 : PrepareFails(p, n)
    BY <1>0, <2>2 DEF PrepareFails, Types, Kinds
  <2> QED
    BY <2>1, <2>2
<1>2. /\ pc[p] = "preparing" /\ pc'[p] = "ready" /\ loads'[p] = loads[p]
      /\ pc[p] \in Loading /\ pc'[p] \notin Loading /\ pc[p] # "down"
      /\ pc[p] \notin Unbuilt /\ pc'[p] \notin Unbuilt
  BY DEF Types, Prepare, PrepareFails, Loading, Unbuilt
<1>3. /\ Before(p, Loading) \in Int /\ Before(p, Loading)' = Before(p, Loading) + 1
      /\ Before(p, Unbuilt) <= Before(p, Unbuilt)'
  BY <1>2, PastPlaces
<1>4. /\ fields'[p].stream = fields[p].stream /\ fields'[p].runtime = fields[p].runtime
      /\ fields'[p].engine = fields[p].engine
  BY <1>0, <1>1 DEF Prepared, Fields
<1>5. OwnedOnce(p)' /\ EngineLedger(p)'
  BY <1>1, <1>2, <1>3, <1>4, InBalance
<1>6. ContextLedger(p)'
  <2>1. live[p]["context"] \in Nat /\ live[p]["context"] <= Before(p, Loading)
    BY <1>0, <1>2 DEF Ledger, ContextLedger, Kinds
  <2> QED
    BY <1>1, <1>3, <2>1 DEF ContextLedger, One
<1>7. BufferLedger(p)'
  <2>1. /\ live[p]["buffer"] \in Nat /\ live[p]["buffer"] <= 4 * Before(p, Loading)
        /\ Cardinality(ReachableBuffers(fields[p])) <= live[p]["buffer"]
    BY <1>0, <1>2 DEF Ledger, BufferLedger, Kinds
  <2>2. Cardinality(ReachableBuffers(fields'[p])) <= Cardinality(ReachableBuffers(fields[p])) + n
    BY <1>0, <1>1, PreparedBuffers
  <2>3. /\ Cardinality(ReachableBuffers(fields[p])) \in Nat
        /\ Cardinality(ReachableBuffers(fields'[p])) \in Nat
    BY FiniteBuffers
  <2>4. live[p]["buffer"] + n <= 4 * (Before(p, Loading) + 1)
    BY <1>3, <2>1
  <2> QED
    BY <1>1, <1>3, <2>1, <2>2, <2>3, <2>4 DEF BufferLedger
<1>8. ModelLedger(p)'
  <2>1. CASE Prepare(p)
    <3>1. /\ handles'[p] = handles[p] \cup {path[p]}
          /\ live'[p]["modelImpl"] = live[p]["modelImpl"]
      BY <1>0, <2>1 DEF Prepare, Types, Kinds
    <3>2. ModelLedger(p)
      BY <1>2 DEF Ledger
    <3>6. IsFiniteSet(handles[p]) /\ Cardinality(handles[p]) \in Nat
      BY <3>2, FS_CardinalityType DEF ModelLedger
    <3>7. /\ IsFiniteSet(handles'[p])
          /\ \/ Cardinality(handles'[p]) = Cardinality(handles[p])
             \/ Cardinality(handles'[p]) = Cardinality(handles[p]) + 1
      BY <3>1, <3>6, FS_AddElement
    <3>3. Cardinality(handles'[p]) <= Cardinality(handles[p]) + 1
      BY <3>6, <3>7
    <3>4. live[p]["modelImpl"] \in Nat /\ loads[p] \in Int
      BY <1>0, BoundsAssumption DEF Types, Kinds
    <3>5. One(pc[p] \in Loading) = 1 /\ One(pc'[p] \in Loading) = 0
      BY <1>2 DEF One
    <3> QED
      BY <1>2, <3>1, <3>2, <3>3, <3>4, <3>5, <3>6, <3>7 DEF ModelLedger
  <2>2. CASE \E k \in 0..3 : PrepareFails(p, k)
    <3>1. handles'[p] = handles[p] /\ live'[p]["modelImpl"] = live[p]["modelImpl"] - 1
      BY <1>0, <2>2 DEF PrepareFails, Types, Kinds
    <3> QED
      BY <1>2, <3>1, HandleGivenBack
  <2> QED
    BY <2>1, <2>2
<1> QED
  BY <1>5, <1>6, <1>7, <1>8 DEF Ledger

(* A load begins, a model handle is unloaded. *)
LEMMA LedgerModels ==
  ASSUME Types, Types', NEW p \in Procs, Ledger(p), NEW m \in Models,
         StartLoad(p, m) \/ UnloadModel(p, m)
  PROVE  Ledger(p)'
<1> USE DEF Goto, disk
<1>0. /\ pc[p] = "ready" /\ pc[p] \notin Loading /\ pc[p] \notin Unbuilt /\ pc[p] # "down"
      /\ fields'[p] = fields[p] /\ live[p] \in [Kinds -> Nat] /\ loads[p] \in Int
  BY BoundsAssumption DEF StartLoad, UnloadModel, Types, Loading, Unbuilt
<1>1. ModelLedger(p) /\ Cardinality(handles[p]) \in Nat /\ live[p]["modelImpl"] \in Nat
  BY <1>0, FS_CardinalityType DEF Ledger, ModelLedger, Kinds
<1>2. CASE StartLoad(p, m)
  <2>1. /\ loads'[p] = loads[p] + 1 /\ handles'[p] = handles[p] /\ pc'[p] = "checking"
        /\ \A k \in Kinds : live'[p][k] = live[p][k] + One(k = "modelImpl")
    <3>1. \A k \in Kinds : live'[p][k] = live[p][k] + One(k = "modelImpl")
      BY <1>2, Counted DEF StartLoad, Kinds
    <3> QED
      BY <1>2, <3>1 DEF StartLoad, Types
  <2>2. \A k \in Kinds : live'[p][k] = IF k = "modelImpl" THEN live[p][k] + 1 ELSE live[p][k]
    BY <1>0, <2>1 DEF One
  <2>3. pc'[p] \in Loading /\ pc'[p] \in Unbuilt
    BY <2>1 DEF Loading, Unbuilt
  <2>4. /\ Before(p, Loading)' = Before(p, Loading) /\ Before(p, Unbuilt)' = Before(p, Unbuilt)
        /\ Before(p, Loading) \in Int /\ Before(p, Unbuilt) \in Int
    BY <1>0, <2>1, <2>3, PastPlaces
  <2>5. OwnedOnce(p)' /\ EngineLedger(p)' /\ ContextLedger(p)' /\ BufferLedger(p)'
    BY <1>0, <2>2, <2>4, InBalance DEF Kinds
  <2>6. One(pc[p] \in Loading) = 0 /\ One(pc'[p] \in Loading) = 1
    BY <1>0, <2>3 DEF One
  <2>7. live'[p]["modelImpl"] = live[p]["modelImpl"] + 1
    BY <2>2 DEF Kinds
  <2>8. ModelLedger(p)'
    BY <1>0, <1>1, <2>1, <2>6, <2>7 DEF ModelLedger
  <2> QED
    BY <2>5, <2>8 DEF Ledger
<1>3. CASE UnloadModel(p, m)
  <2>1. /\ loads'[p] = loads[p] /\ handles'[p] = handles[p] \ {m} /\ pc'[p] = pc[p]
        /\ m \in handles[p]
        /\ \A k \in Kinds : live'[p][k] = live[p][k] - One(k = "modelImpl")
    <3>1. \A k \in Kinds : live'[p][k] = live[p][k] - One(k = "modelImpl")
      BY <1>3, Counted DEF UnloadModel, Kinds
    <3> QED
      BY <1>3, <3>1 DEF UnloadModel, Types
  <2>2. \A k \in Kinds : live'[p][k] = IF k = "modelImpl" THEN live[p][k] - 1 ELSE live[p][k]
    BY <1>0, <2>1 DEF One
  <2>4. /\ Before(p, Loading) <= Before(p, Loading)' /\ Before(p, Unbuilt) <= Before(p, Unbuilt)'
    BY <1>0, <2>1, PastPlaces
  <2>5. OwnedOnce(p)' /\ EngineLedger(p)' /\ ContextLedger(p)' /\ BufferLedger(p)'
    BY <1>0, <2>2, <2>4, InBalance DEF Kinds
  <2>6. /\ IsFiniteSet(handles'[p])
        /\ Cardinality(handles'[p]) = Cardinality(handles[p]) - 1
    BY <1>1, <2>1, FS_RemoveElement DEF ModelLedger
  <2>7. live'[p]["modelImpl"] = live[p]["modelImpl"] - 1
    BY <2>2 DEF Kinds
  <2>8. One(pc[p] \in Loading) = 0 /\ One(pc'[p] \in Loading) = 0
    BY <1>0, <2>1 DEF One
  <2>9. ModelLedger(p)'
    BY <1>0, <1>1, <2>1, <2>6, <2>7, <2>8 DEF ModelLedger
  <2> QED
    BY <2>5, <2>9 DEF Ledger
<1> QED
  BY <1>2, <1>3

(* Every step of a process keeps its ledger. *)
LEMMA LedgerStepOf ==
  ASSUME BackendInv, Types', NEW p \in Procs, StepOf(p)
  PROVE  Ledger(p)'
<1>0. Types /\ Place(p) /\ Ledger(p)
  BY DEF BackendInv
<1>1. CASE InitializeFails(p) \/ DestroyEngine(p) \/ Crash(p) \/ Exit(p)
  <2>1. pc'[p] = "down"
    BY <1>0, <1>1 DEF Types, Goto, InitializeFails, DestroyEngine, DeleteEngine, Crash, Exit
  <2> QED
    BY <2>1 DEF Ledger
<1>2. CASE CreateEngine(p) \/ CreateThrows(p) \/ CreateStream(p) \/ CreateRuntime(p)
  BY <1>0, <1>2, LedgerCreate
<1>3. CASE \/ CheckCache(p) \/ ReadCache(p) \/ RejectCache(p) \/ LoadThrows(p)
           \/ BuildEngine(p) \/ BuildFails(p) \/ ContextFails(p)
           \/ OpenCache(p) \/ WriteCache(p) \/ ShortWrite(p) \/ SaveFails(p)
  BY <1>0, <1>3, LedgerLoad
<1>4. CASE Prepare(p) \/ \E n \in 0..3 : PrepareFails(p, n)
  BY <1>0, <1>4, LedgerPrepare
<1>5. CASE \E m \in Models : StartLoad(p, m) \/ UnloadModel(p, m)
  BY <1>0, <1>5, LedgerModels
<1> QED
  BY <1>1, <1>2, <1>3, <1>4, <1>5 DEF StepOf, LoadStep

(* So every process keeps it. *)
LEMMA LedgerStep ==
  ASSUME BackendInv, [Next]_vars, NEW q \in Procs
  PROVE  Ledger(q)'
<1>0. Types /\ Types' /\ Ledger(q)
  BY TypesStep DEF BackendInv
<1>1. CASE \E p \in Procs : StepOf(p)
  BY <1>0, <1>1, OthersUntouched, LedgerStepOf, LedgerKept
<1>2. CASE \E m \in Models : ReplaceModel(m)
  BY <1>0, <1>2, Deployment, LedgerKept
<1>3. CASE UNCHANGED vars
  <2>1. Untouched(q)
    BY <1>3 DEF Untouched, vars
  <2> QED
    BY <1>0, <2>1, LedgerKept
<1> QED
  BY <1>1, <1>2, <1>3, StepCases

(* A step that ends at "down" allocates nothing, and the destructor frees  *)
(* only what the ledger holds: the counts stay within bounds.              *)
LEMMA CountStep ==
  ASSUME BackendInv, [Next]_vars, NEW q \in Procs
  PROVE  live'[q] \in [Kinds -> Count]
<1>0. /\ Types /\ Types' /\ Ledger(q)' /\ live[q] \in [Kinds -> Count]
      /\ live'[q] \in [Kinds -> Nat] /\ MaxLoads \in Nat /\ MaxLoads > 0
      /\ loads'[q] \in 0..MaxLoads
  BY TypesStep, LedgerStep, BoundsAssumption DEF BackendInv, Types
<1>1. ASSUME \A k \in Kinds : live'[q][k] <= live[q][k]
      PROVE  live'[q] \in [Kinds -> Count]
  BY <1>0, <1>1 DEF Count
<1>2. CASE pc'[q] # "down"
  <2>1. /\ Before(q, Unbuilt)' \in Int /\ Before(q, Unbuilt)' <= MaxLoads
        /\ Before(q, Loading)' \in Int /\ Before(q, Loading)' <= MaxLoads
    BY <1>0 DEF Before, One
  <2>2. /\ live'[q]["engineImpl"] <= 1 /\ live'[q]["stream"] <= 1 /\ live'[q]["runtime"] <= 1
    BY <1>2, <1>0 DEF Ledger, OwnedOnce, One
  <2>3. /\ live'[q]["modelImpl"] <= MaxLoads /\ live'[q]["engine"] <= MaxLoads
        /\ live'[q]["context"] <= MaxLoads /\ live'[q]["buffer"] <= 4 * MaxLoads
    <3>1. live'[q]["modelImpl"] <= loads'[q]
      BY <1>0, <1>2 DEF Ledger, ModelLedger
    <3>2. live'[q]["engine"] <= Before(q, Unbuilt)'
      BY <1>0, <1>2 DEF Ledger, EngineLedger
    <3>3. live'[q]["context"] <= Before(q, Loading)'
      BY <1>0, <1>2 DEF Ledger, ContextLedger
    <3>4. live'[q]["buffer"] <= 4 * Before(q, Loading)'
      BY <1>0, <1>2 DEF Ledger, BufferLedger
    <3>5. \A k \in {"modelImpl", "engine", "context", "buffer"} : live'[q][k] \in Nat
      BY <1>0 DEF Kinds
    <3> QED
      BY <1>0, <2>1, <3>1, <3>2, <3>3, <3>4, <3>5
  <2>4. \A k \in Kinds : live'[q][k] <= 4 * MaxLoads
    BY <1>0, <2>2, <2>3 DEF Kinds
  <2> QED
    BY <1>0, <2>4 DEF Count
<1>3. CASE pc'[q] = "down"
  <2>1. CASE Untouched(q)
    BY <1>0, <2>1 DEF Untouched
  <2>2. CASE StepOf(q)
    <3>1. CASE CreateThrows(q)
      BY <1>0, <3>1 DEF CreateThrows
    <3>2. CASE Crash(q) \/ Exit(q)
      BY <1>0, <3>2 DEF Crash, Exit, Types, Nothing, Count
    <3>3. CASE InitializeFails(q) \/ DestroyEngine(q)
      <4>1. live'[q] = [k \in Kinds |-> live[q][k] - Reachable(fields[q])[k]]
        BY <1>0, <3>3 DEF InitializeFails, DestroyEngine, DeleteEngine, Types
      <4>2. Cardinality(ReachableBuffers(fields[q])) \in Nat
        BY FiniteBuffers
      <4>3. \A k \in Kinds : Reachable(fields[q])[k] \in Nat
        BY <4>2 DEF Reachable, Kinds, One
      <4>4. \A k \in Kinds : live[q][k] \in Nat
        BY <1>0 DEF Types
      <4>5. \A k \in Kinds : live'[q][k] <= live[q][k]
        BY <4>1, <4>3, <4>4
      <4> QED
        BY <1>1, <4>5
    <3>4. CASE CreateEngine(q) \/ CreateStream(q) \/ CreateRuntime(q)
      BY <1>0, <1>3, <3>4 DEF CreateEngine, CreateStream, CreateRuntime, Goto, Types
    <3>5. CASE \E m \in Models : StartLoad(q, m) \/ UnloadModel(q, m)
      BY <1>0, <1>3, <3>5 DEF StartLoad, UnloadModel, Goto, Types
    <3>6. CASE LoadStep(q)
      <4>1. CASE \/ CheckCache(q) \/ ReadCache(q) \/ RejectCache(q) \/ LoadThrows(q)
                 \/ BuildEngine(q) \/ BuildFails(q)
        BY <1>0, <1>3, <4>1 DEF Types, Goto, FailLoad, CheckCache, ReadCache, RejectCache, LoadThrows,
           BuildEngine, BuildFails
      <4>2. CASE \/ WriteCache(q) \/ ShortWrite(q) \/ SaveFails(q)
                 \/ ContextFails(q) \/ Prepare(q) \/ \E n \in 0..3 : PrepareFails(q, n)
        BY <1>0, <1>3, <4>2 DEF Types, Goto, FailLoad, WriteCache, ShortWrite, SaveFails,
           ContextFails, Prepare, PrepareFails
      <4>3. CASE OpenCache(q)
        BY <1>0, <1>3, <4>3 DEF Types, OpenCache
      <4> QED
        BY <3>6, <4>1, <4>2, <4>3 DEF LoadStep
    <3> QED
      BY <2>2, <3>1, <3>2, <3>3, <3>4, <3>5, <3>6 DEF StepOf
  <2>3. CASE UNCHANGED vars
    BY <1>0, <2>3 DEF vars
  <2> QED
    BY <1>0, <2>1, <2>2, <2>3, StepCases, OthersUntouched, Deployment
<1> QED
  BY <1>2, <1>3

-----------------------------------------------------------------------------
(* The invariant holds at first. *)
LEMMA BackendInit == Init => BackendInv
<1> SUFFICES ASSUME Init PROVE BackendInv
  OBVIOUS
<1> USE BoundsAssumption DEF Init
<1>1. Types
  <2>1. 1 \in 1..MaxVersion /\ 0 \in 0..MaxLoads
    OBVIOUS
  <2> QED
    BY <2>1, Zeros DEF Types, PCs
<1>2. \A p \in Procs : Place(p) /\ Ledger(p)
  BY DEF Place, Ledger, Loading
<1>3. \A p \in Procs : live[p] \in [Kinds -> Count]
  BY DEF Nothing, Count
<1>4. CacheOfOwnModel
  BY ValuesAssumption DEF CacheOfOwnModel
<1> QED
  BY <1>1, <1>2, <1>3, <1>4 DEF BackendInv

(* BackendInv is an inductive invariant of the backend: each allocation is *)
(* freed at most once, and every engine a load prepares is of its model.   *)
THEOREM BackendInvariant == Spec => []BackendInv
<1>1. BackendInv /\ [Next]_vars => BackendInv'
  BY TypesStep, PlaceStep, LedgerStep, CountStep, CacheStep DEF BackendInv
<1> QED
  BY <1>1, BackendInit, PTL DEF Spec

(* TypeOK: every variable holds a value the code can store; no count falls *)
(* below zero, so ~TensorRTBackend and the deletes of the C API free only  *)
(* what was allocated.                                                     *)
THEOREM TypeCorrect == Spec => []TypeOK
<1>1. BackendInv => TypeOK
  BY DEF BackendInv, Types, TypeOK, Fields, NetworkOrNone
<1> QED
  BY <1>1, BackendInvariant, PTL

(* CacheOfOwnModel: whatever processes share the disk, crash and race in   *)
(* saveEngineToFile, a cache that can be read holds an engine of the model *)
(* it stands beside, of a version that was deployed.                       *)
THEOREM CacheCorrect == Spec => []CacheOfOwnModel
BY BackendInvariant, PTL DEF BackendInv

-----------------------------------------------------------------------------
(* One model at a time: a handle runs its own network. *)

(* The model handle a process holds is that of its last load, and the      *)
(* backend holds everything infer copies from and to for that model.       *)
Loaded(p) ==
  /\ pc[p] # "ready" => handles[p] = {}
  /\ handles[p] # {} => /\ handles[p] = {path[p]}
                        /\ fields[p].engine \in Networks /\ fields[p].engine.model = path[p]
                        /\ fields[p].context = fields[p].engine
                        /\ fields[p].sizes = fields[p].engine
                        /\ \A b \in 1..4 : fields[p].buffers[b] = fields[p].engine

(* A step of a process keeps its handle usable. *)
LEMMA LoadedStepOf ==
  ASSUME OneModel, BackendInv, NEW p \in Procs, Loaded(p), StepOf(p)
  PROVE  Loaded(p)'
<1> USE DEF Goto, disk
<1>0. Types /\ Place(p)
  BY DEF BackendInv
<1>1. CASE handles'[p] = {}
  BY <1>1 DEF Loaded
<1>2. CASE Prepare(p)
  <2>1. /\ handles[p] = {} /\ handles'[p] = handles[p] \cup {path[p]}
        /\ path'[p] = path[p] /\ pc'[p] = "ready"
        /\ fields'[p] = Prepared(fields[p], 4)
        /\ fields[p] \in Fields /\ fields[p].engine \in Networks /\ fields[p].engine.model = path[p]
    BY <1>0, <1>2 DEF Types, Place, Loaded, Prepare
  <2>2. /\ fields'[p].engine = fields[p].engine
        /\ fields'[p].context = fields[p].engine
        /\ fields'[p].sizes = fields[p].engine
        /\ \A b \in 1..4 : fields'[p].buffers[b] = fields[p].engine
    BY <2>1 DEF Prepared, NetworkSizes, Fields
  <2> QED
    BY <2>1, <2>2 DEF Loaded
<1>3. CASE \E m \in Models : UnloadModel(p, m)
  BY <1>0, <1>3 DEF Types, Loaded, UnloadModel
<1>4. ASSUME handles'[p] # {}, ~Prepare(p), ~\E m \in Models : UnloadModel(p, m)
      PROVE  Exit(p) /\ pc[p] = "down"
  <2>1. CASE \/ CreateEngine(p) \/ CreateThrows(p) \/ CreateStream(p)
             \/ CreateRuntime(p) \/ InitializeFails(p) \/ DestroyEngine(p) \/ Crash(p)
    BY <1>0, <1>4, <2>1 DEF Types, Loaded, CreateEngine, CreateThrows, CreateStream,
       CreateRuntime, InitializeFails, DestroyEngine, Crash
  <2>2. CASE \/ CheckCache(p) \/ ReadCache(p) \/ RejectCache(p) \/ LoadThrows(p)
             \/ BuildEngine(p) \/ BuildFails(p) \/ ContextFails(p)
    BY <1>0, <1>4, <2>2 DEF Types, Loaded, CheckCache, ReadCache, RejectCache, LoadThrows,
       BuildEngine, BuildFails, ContextFails
  <2>3. CASE \/ OpenCache(p) \/ WriteCache(p) \/ ShortWrite(p) \/ SaveFails(p)
             \/ \E n \in 0..3 : PrepareFails(p, n)
    BY <1>0, <1>4, <2>3 DEF Types, Loaded, OpenCache, WriteCache, ShortWrite, SaveFails, PrepareFails
  <2>4. CASE \E m \in Models : StartLoad(p, m)
    BY <1>0, <1>4, <2>4 DEF Types, StartLoad
  <2> QED
    BY <1>4, <2>1, <2>2, <2>3, <2>4 DEF StepOf, LoadStep, Exit
<1> QED
  BY <1>0, <1>1, <1>2, <1>3, <1>4 DEF Exit, Loaded

(* HandleUsable, for an application that unloads a model before it loads   *)
(* the next: whatever fails, throws or crashes, and whatever it finds in   *)
(* the cache, a model handle runs the network of its own model.            *)
THEOREM HandleCorrect ==
  ASSUME OneModel = TRUE
  PROVE  Spec => []HandleUsable
<1> DEFINE Inv == \A p \in Procs : Loaded(p)
<1>1. Init => Inv
  BY DEF Init, Loaded
<1>2. ASSUME BackendInv, Inv, [Next]_vars, NEW q \in Procs
      PROVE  Loaded(q)'
  <2>0. Types /\ Loaded(q)
    BY <1>2 DEF BackendInv
  <2>1. CASE Untouched(q)
    BY <2>0, <2>1 DEF Untouched, Loaded
  <2>2. CASE StepOf(q)
    BY <1>2, <2>0, <2>2, OneModel = TRUE, LoadedStepOf
  <2>3. CASE UNCHANGED vars
    BY <2>0, <2>3 DEF Loaded, vars
  <2> QED
    BY <1>2, <2>0, <2>1, <2>2, <2>3, StepCases, OthersUntouched, Deployment
<1>3. BackendInv /\ Inv /\ [Next]_vars => Inv'
  BY <1>2
<1>4. Inv => HandleUsable
  BY DEF Loaded, HandleUsable
<1> QED
  BY <1>1, <1>3, <1>4, BackendInvariant, PTL DEF Spec

-----------------------------------------------------------------------------
(* One load per engine, and an allocator that does not throw: no leak.     *)

(* What is allocated is what the pointers and the handles reach.           *)
Exact(p) ==
  /\ pc[p] = "down" => live[p] = Nothing
  /\ pc[p] # "down" =>
       /\ live[p]["modelImpl"] = Cardinality(handles[p]) + One(pc[p] \in Loading)
       /\ live[p]["engine"] = One(fields[p].engine # None)
       /\ live[p]["context"] = One(fields[p].context # None)
       /\ live[p]["buffer"] = Cardinality(ReachableBuffers(fields[p]))

(* With a single load, a load starts with nothing: the ledger leaves room  *)
(* for no engine before it is built, and no context before it is prepared. *)
LEMMA StartsEmpty ==
  ASSUME MaxLoads = 1, BackendInv, NEW p \in Procs, pc[p] \in Loading
  PROVE  /\ handles[p] = {} /\ live[p]["modelImpl"] = 1
         /\ live[p]["context"] = 0 /\ fields[p].context = None
         /\ live[p]["buffer"] = 0 /\ ReachableBuffers(fields[p]) = {}
         /\ pc[p] \in Unbuilt => live[p]["engine"] = 0 /\ fields[p].engine = None
<1>0. /\ pc[p] # "down" /\ Types /\ Ledger(p) /\ loads[p] \in 0..1
      /\ live[p]["modelImpl"] \in Nat /\ live[p]["engine"] \in Nat
      /\ live[p]["context"] \in Nat /\ live[p]["buffer"] \in Nat
  BY DEF BackendInv, Types, Loading, Kinds
<1>1. /\ OwnedOnce(p) /\ ModelLedger(p)
      /\ EngineLedger(p) /\ ContextLedger(p) /\ BufferLedger(p)
  BY <1>0 DEF Ledger
<1>2. One(pc[p] \in Loading) = 1
  BY DEF One
<1>3. Cardinality(handles[p]) \in Nat /\ IsFiniteSet(handles[p])
  BY <1>1, FS_CardinalityType DEF ModelLedger
<1>4. Cardinality(handles[p]) = 0 /\ live[p]["modelImpl"] = 1
  BY <1>0, <1>1, <1>2, <1>3 DEF ModelLedger
<1>5. handles[p] = {}
  BY <1>3, <1>4, FS_EmptySet
<1>6. Before(p, Loading) <= 0 /\ Before(p, Loading) \in Int
  BY <1>0, <1>2 DEF Before
<1>7. live[p]["context"] = 0 /\ live[p]["buffer"] = 0
  BY <1>0, <1>1, <1>6 DEF ContextLedger, BufferLedger
<1>8. fields[p].context = None
  BY <1>0, <1>1, <1>7 DEF ContextLedger, One
<1>9. ReachableBuffers(fields[p]) = {}
  BY <1>0, <1>1, <1>7, FiniteBuffers, FS_EmptySet DEF BufferLedger
<1>10. ASSUME pc[p] \in Unbuilt
       PROVE  live[p]["engine"] = 0 /\ fields[p].engine = None
  <2>1. One(pc[p] \in Unbuilt) = 1
    BY <1>10 DEF One
  <2>2. Before(p, Unbuilt) <= 0 /\ Before(p, Unbuilt) \in Int
    BY <1>0, <2>1 DEF Before
  <2>3. live[p]["engine"] = 0
    BY <1>0, <1>1, <2>2 DEF EngineLedger
  <2> QED
    BY <1>1, <2>3 DEF EngineLedger, One
<1> QED
  BY <1>4, <1>5, <1>7, <1>8, <1>9, <1>10

(* A process that is not touched stays exact, and so does one whose        *)
(* counts, pointers and handles do not change while its load goes on.      *)
LEMMA ExactKept ==
  ASSUME Types, NEW q \in Procs, Exact(q),
         \/ Untouched(q)
         \/ /\ pc[q] # "down" /\ pc'[q] # "down"
            /\ (pc[q] \in Loading) <=> (pc'[q] \in Loading)
            /\ live'[q] = live[q] /\ handles'[q] = handles[q]
            /\ fields'[q].engine = fields[q].engine /\ fields'[q].context = fields[q].context
            /\ fields'[q].buffers = fields[q].buffers
  PROVE  Exact(q)'
<1>1. /\ (pc[q] = "down") <=> (pc'[q] = "down")
      /\ (pc[q] \in Loading) <=> (pc'[q] \in Loading)
      /\ live'[q] = live[q] /\ handles'[q] = handles[q]
      /\ fields'[q].engine = fields[q].engine /\ fields'[q].context = fields[q].context
      /\ fields'[q].buffers = fields[q].buffers
  BY DEF Untouched, Loading
<1>2. ReachableBuffers(fields'[q]) = ReachableBuffers(fields[q])
  BY <1>1 DEF ReachableBuffers
<1>3. One(pc'[q] \in Loading) = One(pc[q] \in Loading)
  BY <1>1 DEF One
<1> QED
  BY <1>1, <1>2, <1>3 DEF Exact

(* The destructor leaves nothing of what was exactly accounted for. *)
LEMMA NothingLeft ==
  ASSUME Types, NEW p \in Procs, Ledger(p), Exact(p),
         pc[p] # "down", pc[p] \notin Loading, handles[p] = {}, DeleteEngine(p)
  PROVE  Exact(p)'
<1>1. /\ live'[p] = [k \in Kinds |-> live[p][k] - Reachable(fields[p])[k]]
      /\ pc'[p] = "down" /\ live[p] \in [Kinds -> Nat]
  BY DEF DeleteEngine, Types, Goto
<1>2. Cardinality(handles[p]) = 0 /\ One(pc[p] \in Loading) = 0
  BY FS_EmptySet DEF One
<1>3. Cardinality(ReachableBuffers(fields[p])) \in Nat
  BY FiniteBuffers
<1>4. \A k \in Kinds : live[p][k] = Reachable(fields[p])[k]
  BY <1>2 DEF Exact, Ledger, OwnedOnce, Reachable, Kinds
<1>5. \A k \in Kinds : live[p][k] - Reachable(fields[p])[k] = 0
  BY <1>1, <1>4
<1>6. live'[p] = Nothing
  BY <1>1, <1>5 DEF Nothing
<1> QED
  BY <1>1, <1>6 DEF Exact

(* The steps of the only load of an engine. *)
LEMMA ExactLoad ==
  ASSUME MaxLoads = 1, ~Exceptions, BackendInv, NEW p \in Procs, Exact(p), LoadStep(p)
  PROVE  Exact(p)'
<1> USE DEF Goto, disk
<1>0. /\ Types /\ Place(p) /\ Ledger(p) /\ fields[p] \in Fields /\ live[p] \in [Kinds -> Nat]
      /\ pc[p] \in Loading /\ pc[p] # "down"
  BY DEF BackendInv, Types, Loading, LoadStep, CheckCache, ReadCache, RejectCache, LoadThrows,
     BuildEngine, BuildFails, OpenCache, WriteCache, ShortWrite, SaveFails, ContextFails,
     Prepare, PrepareFails
<1>1. /\ handles[p] = {} /\ live[p]["modelImpl"] = 1
      /\ live[p]["context"] = 0 /\ fields[p].context = None
      /\ live[p]["buffer"] = 0 /\ ReachableBuffers(fields[p]) = {}
      /\ pc[p] \in Unbuilt => live[p]["engine"] = 0 /\ fields[p].engine = None
  BY <1>0, StartsEmpty
<1>2. /\ Cardinality({}) = 0 /\ (None # None) = FALSE
      /\ One(TRUE) = 1 /\ One(FALSE) = 0
      /\ live[p]["engine"] = One(fields[p].engine # None)
  BY <1>0, FS_EmptySet DEF One, Exact
<1>3. CASE CheckCache(p) \/ SaveFails(p) \/ WriteCache(p) \/ ShortWrite(p) \/ OpenCache(p)
  <2>1. live'[p] = live[p] /\ handles'[p] = handles[p] /\ fields'[p] = fields[p]
    BY <1>3 DEF CheckCache, SaveFails, WriteCache, ShortWrite, OpenCache
  <2>2. pc'[p] \in Loading /\ pc'[p] # "down"
    <3>1. CASE OpenCache(p)
      BY <1>0, <3>1 DEF Types, OpenCache, Loading
    <3>2. CASE CheckCache(p) \/ SaveFails(p) \/ WriteCache(p) \/ ShortWrite(p)
      BY <1>0, <3>2 DEF Types, CheckCache, SaveFails, WriteCache, ShortWrite, Loading
    <3> QED
      BY <1>3, <3>1, <3>2
  <2> QED
    BY <1>0, <2>1, <2>2, ExactKept
<1>4. CASE ReadCache(p) \/ BuildEngine(p)
  <2>1. /\ pc[p] \in Unbuilt /\ pc'[p] \in Loading /\ pc'[p] # "down"
        /\ handles'[p] = handles[p]
    BY <1>0, <1>4 DEF Types, ReadCache, BuildEngine, Unbuilt, Loading
  <2>2. Alloc(p, "engine") /\ \E e \in Networks : fields' = [fields EXCEPT ![p].engine = e]
    <3>1. CASE ReadCache(p)
      BY <3>1 DEF ReadCache
    <3>2. CASE BuildEngine(p)
      <4>1. path[p] \in Models /\ onnx[path[p]] \in 1..MaxVersion
        BY <1>0 DEF Place, Types
      <4> QED
        BY <3>2, <4>1 DEF BuildEngine, Networks
    <3> QED
      BY <1>4, <3>1, <3>2
  <2>3. \A k \in Kinds : live'[p][k] = live[p][k] + One(k = "engine")
    BY <1>0, <2>2, Counted DEF Kinds
  <2>4. /\ live'[p]["engine"] = 1 /\ live'[p]["modelImpl"] = 1
        /\ live'[p]["context"] = 0 /\ live'[p]["buffer"] = 0
    BY <1>1, <2>1, <2>3 DEF Kinds, One
  <2>5. PICK e \in Networks : fields'[p] = [fields[p] EXCEPT !.engine = e]
    BY <1>0, <2>2 DEF Types
  <2>6. /\ fields'[p].engine # None /\ fields'[p].context = None
        /\ ReachableBuffers(fields'[p]) = {}
    BY <1>0, <1>1, <2>5, ValuesAssumption DEF Fields, ReachableBuffers
  <2>7. One(fields'[p].engine # None) = 1 /\ One(fields'[p].context # None) = 0
    BY <2>6 DEF One
  <2>8. One(pc'[p] \in Loading) = 1
    BY <2>1 DEF One
  <2> QED
    BY <1>1, <1>2, <2>1, <2>4, <2>6, <2>7, <2>8 DEF Exact
<1>5. CASE RejectCache(p)
  <2>1. pc[p] \in Unbuilt /\ fields[p].engine = None
    BY <1>1, <1>5 DEF RejectCache, Unbuilt
  <2>2. fields'[p] = [fields[p] EXCEPT !.engine = None]
    BY <1>0, <1>5 DEF RejectCache, Types
  <2>3. /\ fields'[p].engine = fields[p].engine /\ fields'[p].context = fields[p].context
        /\ fields'[p].buffers = fields[p].buffers
    BY <1>0, <2>1, <2>2 DEF Fields
  <2>4. /\ pc'[p] \in Loading /\ pc'[p] # "down"
        /\ live'[p] = live[p] /\ handles'[p] = handles[p]
    BY <1>0, <1>5 DEF Types, RejectCache, Loading
  <2> QED
    BY <1>0, <2>3, <2>4, ExactKept
<1>6. CASE LoadThrows(p)
  BY <1>6 DEF LoadThrows
<1>7. CASE BuildFails(p) \/ ContextFails(p)
  <2>1. /\ pc'[p] = "ready" /\ handles'[p] = handles[p] /\ FailLoad(p)
    BY <1>0, <1>7 DEF Types, BuildFails, ContextFails, FailLoad
  <2>2. \A k \in Kinds : live'[p][k] = live[p][k] - One(k = "modelImpl")
    BY <1>0, <2>1, Counted DEF FailLoad, Kinds
  <2>8. \A k \in Kinds : live'[p][k] = IF k = "modelImpl" THEN live[p][k] - 1 ELSE live[p][k]
    BY <1>0, <2>2 DEF One
  <2>3. /\ live'[p]["engine"] = live[p]["engine"] /\ live'[p]["modelImpl"] = 0
        /\ live'[p]["context"] = 0 /\ live'[p]["buffer"] = 0
    BY <1>1, <2>8 DEF Kinds
  <2>4. fields'[p] = [fields[p] EXCEPT !.engine = None] \/ fields'[p] = fields[p]
        \/ fields'[p] = [fields[p] EXCEPT !.context = None]
    <3>1. CASE BuildFails(p)
      <4>1. PICK e \in {fields[p].engine, None} : fields'[p] = [fields[p] EXCEPT !.engine = e]
        BY <1>0, <3>1 DEF BuildFails, Types
      <4>2. [fields[p] EXCEPT !.engine = fields[p].engine] = fields[p]
        BY <1>0 DEF Fields
      <4> QED
        BY <4>1, <4>2
    <3>2. CASE ContextFails(p)
      BY <1>0, <3>2 DEF ContextFails, Types
    <3> QED
      BY <1>7, <3>1, <3>2
  <2>5. pc[p] \in Unbuilt \/ fields'[p] = [fields[p] EXCEPT !.context = None]
    BY <1>0, <1>7 DEF BuildFails, ContextFails, Unbuilt, Types
  <2>6. /\ fields'[p].engine = fields[p].engine /\ fields'[p].context = None
        /\ ReachableBuffers(fields'[p]) = {}
    BY <1>0, <1>1, <2>4, <2>5 DEF Fields, ReachableBuffers
  <2>7. One(fields'[p].context # None) = 0 /\ One(pc'[p] \in Loading) = 0
    BY <2>1, <2>6 DEF One, Loading
  <2> QED
    BY <1>1, <1>2, <2>1, <2>3, <2>6, <2>7 DEF Exact
<1>8. CASE Prepare(p) \/ \E n \in 0..3 : PrepareFails(p, n)
  <2>1. fields[p].engine \in Networks
    BY <1>0, <1>8 DEF Place, Prepare, PrepareFails
  <2>2. PICK n \in 0..4 :
          /\ fields'[p] = Prepared(fields[p], n)
          /\ live'[p]["context"] = live[p]["context"] + 1
          /\ live'[p]["buffer"] = live[p]["buffer"] + n
          /\ live'[p]["engine"] = live[p]["engine"]
    <3>1. CASE Prepare(p)
      <4>1. 4 \in 0..4
        OBVIOUS
      <4> QED
        BY <1>0, <3>1, <4>1 DEF Prepare, Types, Kinds
    <3>2. CASE \E n \in 0..3 : PrepareFails(p, n)
      BY <1>0, <3>2 DEF PrepareFails, Types, Kinds
    <3> QED
      BY <1>8, <3>1, <3>2
  <2>3. /\ fields'[p].engine = fields[p].engine /\ fields'[p].context = fields[p].engine
        /\ \A b \in 1..4 : fields'[p].buffers[b] = IF b <= n THEN fields[p].engine
                                                    ELSE fields[p].buffers[b]
    BY <1>0, <2>2 DEF Prepared, NetworkSizes, Fields
  <2>4. ReachableBuffers(fields'[p]) = 1..n
    <3>1. \A b \in 1..4 : fields[p].buffers[b] = None
      BY <1>1 DEF ReachableBuffers
    <3> QED
      BY <2>1, <2>3, <3>1, ValuesAssumption DEF ReachableBuffers
  <2>5. Cardinality(ReachableBuffers(fields'[p])) = n
    BY <2>4, UpTo
  <2>6. /\ live'[p]["context"] = 1 /\ live'[p]["buffer"] = n /\ live'[p]["engine"] = live[p]["engine"]
    BY <1>1, <2>2
  <2>7. /\ One(fields'[p].context # None) = 1
    BY <2>1, <2>3, ValuesAssumption DEF One
  <2>8. pc'[p] = "ready" /\ One(pc'[p] \in Loading) = 0
    BY <1>0, <1>8 DEF Types, Prepare, PrepareFails, One, Loading
  <2>9. live'[p]["modelImpl"] = Cardinality(handles'[p])
    <3>1. CASE Prepare(p)
      <4>1. handles'[p] = {} \cup {path[p]} /\ live'[p]["modelImpl"] = 1
        BY <1>0, <1>1, <3>1 DEF Prepare, Types, Kinds
      <4>2. IsFiniteSet({}) /\ path[p] \notin {}
        BY FS_EmptySet
      <4>3. Cardinality({} \cup {path[p]}) = Cardinality({}) + 1
        BY <4>2, FS_AddElement
      <4> QED
        BY <1>2, <4>1, <4>3
    <3>2. CASE \E k \in 0..3 : PrepareFails(p, k)
      <4>1. handles'[p] = {} /\ live'[p]["modelImpl"] = 0
        BY <1>0, <1>1, <3>2 DEF PrepareFails, Types, Kinds
      <4> QED
        BY <1>2, <4>1
    <3> QED
      BY <1>8, <3>1, <3>2
  <2>10. Cardinality(handles'[p]) \in Nat
    <3>1. IsFiniteSet({} \cup {path[p]})
      BY FS_EmptySet, FS_AddElement
    <3>2. handles'[p] = {} \cup {path[p]} \/ handles'[p] = {}
      BY <1>0, <1>1, <1>8 DEF Prepare, PrepareFails, Types
    <3> QED
      BY <3>1, <3>2, FS_EmptySet, FS_CardinalityType
  <2> QED
    BY <1>2, <2>3, <2>5, <2>6, <2>7, <2>8, <2>9, <2>10 DEF Exact
<1> QED
  BY <1>3, <1>4, <1>5, <1>6, <1>7, <1>8 DEF LoadStep

(* Every step of a process keeps what it has allocated exact. *)
LEMMA ExactStepOf ==
  ASSUME MaxLoads = 1, ~Exceptions, BackendInv, NEW p \in Procs, Exact(p), StepOf(p)
  PROVE  Exact(p)'
<1> USE DEF Goto, disk
<1>0. /\ Types /\ Types' /\ Place(p) /\ Ledger(p) /\ Ledger(p)'
      /\ fields[p] \in Fields /\ live[p] \in [Kinds -> Nat] /\ live'[p] \in [Kinds -> Nat]
  <2>1. [Next]_vars
    BY DEF Next, StepOf
  <2> QED
    BY <2>1, TypesStep, LedgerStep DEF BackendInv, Types
<1>1. CASE CreateEngine(p) \/ CreateStream(p) \/ CreateRuntime(p)
  <2>1. PICK kind \in {"engineImpl", "stream", "runtime"} : Alloc(p, kind)
    BY <1>1 DEF CreateEngine, CreateStream, CreateRuntime
  <2>2. \A k \in {"modelImpl", "engine", "context", "buffer"} : live'[p][k] = live[p][k]
    <3>1. \A k \in Kinds : live'[p][k] = live[p][k] + One(k = kind)
      BY <1>0, <2>1, Counted DEF Kinds
    <3> QED
      BY <1>0, <3>1 DEF Kinds, One
  <2>3. /\ handles'[p] = {} /\ handles[p] = {}
        /\ pc[p] \notin Loading /\ pc'[p] \notin Loading /\ pc'[p] # "down"
        /\ fields'[p].engine = fields[p].engine /\ fields'[p].context = fields[p].context
        /\ fields'[p].buffers = fields[p].buffers
    BY <1>0, <1>1 DEF Types, Fields, Place, CreateEngine, CreateStream, CreateRuntime, Loading
  <2>4. ReachableBuffers(fields'[p]) = ReachableBuffers(fields[p])
    BY <2>3 DEF ReachableBuffers
  <2>5. One(pc[p] \in Loading) = 0 /\ One(pc'[p] \in Loading) = 0 /\ Cardinality({}) = 0
    BY <2>3, FS_EmptySet DEF One
  <2>6. CASE CreateEngine(p)
    <3>1. fields[p] = NoFields /\ live[p] = Nothing
      BY <1>0, <2>6 DEF CreateEngine, Place
    <3>2. /\ live[p]["modelImpl"] = 0 /\ live[p]["engine"] = 0
          /\ live[p]["context"] = 0 /\ live[p]["buffer"] = 0
          /\ fields[p].engine = None /\ fields[p].context = None
          /\ ReachableBuffers(fields[p]) = {}
      BY <3>1 DEF NoFields, Nothing, Kinds, ReachableBuffers
    <3>3. One(fields[p].engine # None) = 0 /\ One(fields[p].context # None) = 0
      BY <3>2 DEF One
    <3> QED
      BY <2>2, <2>3, <2>4, <2>5, <3>2, <3>3 DEF Exact
  <2>7. CASE CreateStream(p) \/ CreateRuntime(p)
    <3>1. pc[p] # "down"
      BY <2>7 DEF CreateStream, CreateRuntime
    <3> QED
      BY <2>2, <2>3, <2>4, <2>5, <3>1 DEF Exact
  <2> QED
    BY <1>1, <2>6, <2>7
<1>2. CASE CreateThrows(p)
  BY <1>2 DEF CreateThrows
<1>3. CASE InitializeFails(p) \/ DestroyEngine(p)
  <2>1. /\ pc[p] # "down" /\ pc[p] \notin Loading /\ handles[p] = {} /\ DeleteEngine(p)
    BY <1>0, <1>3 DEF InitializeFails, DestroyEngine, Place, Loading
  <2> QED
    BY <1>0, <2>1, NothingLeft
<1>4. CASE Crash(p) \/ Exit(p)
  BY <1>0, <1>4 DEF Types, Crash, Exit, Exact
<1>5. CASE LoadStep(p)
  BY <1>5, ExactLoad
<1>6. CASE \E m \in Models : StartLoad(p, m) \/ UnloadModel(p, m)
  <2>1. PICK m \in Models : StartLoad(p, m) \/ UnloadModel(p, m)
    BY <1>6
  <2>2. /\ pc[p] = "ready" /\ pc[p] \notin Loading /\ pc[p] # "down" /\ pc'[p] # "down"
        /\ fields'[p] = fields[p]
    BY <1>0, <2>1 DEF Types, StartLoad, UnloadModel, Loading
  <2>3. One(pc[p] \in Loading) = 0
    BY <2>2 DEF One
  <2>4. IsFiniteSet(handles[p]) /\ Cardinality(handles[p]) \in Nat
    BY <1>0, <2>2, FS_CardinalityType DEF Ledger, ModelLedger
  <2>5. CASE StartLoad(p, m)
    <3>1. \A k \in Kinds : live'[p][k] = live[p][k] + One(k = "modelImpl")
      BY <1>0, <2>5, Counted DEF StartLoad, Kinds
    <3>2. /\ handles'[p] = handles[p] /\ One(pc'[p] \in Loading) = 1
      BY <1>0, <2>5 DEF Types, StartLoad, Loading, One
    <3>3. \A k \in Kinds : live'[p][k] = IF k = "modelImpl" THEN live[p][k] + 1 ELSE live[p][k]
      BY <1>0, <3>1 DEF One
    <3>4. /\ live'[p]["modelImpl"] = live[p]["modelImpl"] + 1
          /\ \A k \in {"engine", "context", "buffer"} : live'[p][k] = live[p][k]
      BY <3>3 DEF Kinds
    <3> QED
      BY <2>2, <2>3, <2>4, <3>2, <3>4 DEF Exact
  <2>6. CASE UnloadModel(p, m)
    <3>1. \A k \in Kinds : live'[p][k] = live[p][k] - One(k = "modelImpl")
      BY <1>0, <2>6, Counted DEF UnloadModel, Kinds
    <3>2. /\ handles'[p] = handles[p] \ {m} /\ m \in handles[p] /\ pc'[p] = pc[p]
      BY <1>0, <2>6 DEF Types, UnloadModel
    <3>3. \A k \in Kinds : live'[p][k] = IF k = "modelImpl" THEN live[p][k] - 1 ELSE live[p][k]
      BY <1>0, <3>1 DEF One
    <3>4. /\ live'[p]["modelImpl"] = live[p]["modelImpl"] - 1
          /\ \A k \in {"engine", "context", "buffer"} : live'[p][k] = live[p][k]
      BY <3>3 DEF Kinds
    <3>5. Cardinality(handles'[p]) = Cardinality(handles[p]) - 1
      BY <2>4, <3>2, FS_RemoveElement
    <3> QED
      BY <2>2, <2>3, <2>4, <3>2, <3>4, <3>5 DEF Exact
  <2> QED
    BY <2>1, <2>5, <2>6
<1> QED
  BY <1>1, <1>2, <1>3, <1>4, <1>5, <1>6 DEF StepOf

(* NoLeak, for an application that loads one model per engine and an       *)
(* allocator that does not throw: whatever step of the creation or of the  *)
(* load fails, destroying the engine frees all that was allocated.         *)
THEOREM LeakFree ==
  ASSUME MaxLoads = 1, ~Exceptions
  PROVE  Spec => []NoLeak
<1> DEFINE Inv == \A p \in Procs : Exact(p)
<1>1. Init => Inv
  BY DEF Init, Exact
<1>2. ASSUME BackendInv, Inv, [Next]_vars, NEW q \in Procs
      PROVE  Exact(q)'
  <2>0. Types /\ Exact(q)
    BY <1>2 DEF BackendInv
  <2>1. CASE Untouched(q)
    BY <2>0, <2>1, ExactKept
  <2>2. CASE StepOf(q)
    BY <1>2, <2>0, <2>2, ExactStepOf
  <2>3. CASE UNCHANGED vars
    <3>1. Untouched(q)
      BY <2>3 DEF Untouched, vars
    <3> QED
      BY <2>0, <3>1, ExactKept
  <2> QED
    BY <1>2, <2>0, <2>1, <2>2, <2>3, StepCases, OthersUntouched, Deployment
<1>3. BackendInv /\ Inv /\ [Next]_vars => Inv'
  BY <1>2
<1>4. Inv => NoLeak
  BY DEF Exact, NoLeak
<1> QED
  BY <1>1, <1>3, <1>4, BackendInvariant, PTL DEF Spec
=============================================================================
