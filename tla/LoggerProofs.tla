---------------------------- MODULE LoggerProofs ----------------------------
(***************************************************************************)
(* Proofs about Logger, for any threads, paths, levels, sizes and number   *)
(* of messages.                                                            *)
(***************************************************************************)
EXTENDS Logger, SequenceTheorems, TLAPS

Ids == 1..MaxMessages
Contents == [Paths -> Seq(Ids)]

LogOps    == [name : {"log"}, level : Levels, module : Modules, id : Ids]
LevelOps  == [name : {"setLevel"}, level : Levels]
FilterOps == [name : {"setFilter"}, module : Modules, off : BOOLEAN]
FileOps   == [name : {"setLogFile"}, path : Paths]
ConfigOps == [name : {"setConfig"}, level : Levels, enable : BOOLEAN, path : Paths]
Ops == LogOps \cup LevelOps \cup FilterOps \cup FileOps \cup ConfigOps \cup {NoOp}

(* TypeOK but for the bound on the size, which a rename that fails or a    *)
(* close beside a write can break, and with what the operations are on.    *)
Types == /\ holder \in Threads \cup {None}
         /\ pc \in [Threads -> PCs]
         /\ op \in [Threads -> Ops]
         /\ config \in [level : Levels, enable : BOOLEAN, path : Paths \cup {EmptyPath}]
         /\ disabled \subseteq Modules
         /\ file \in Openable \cup {None}
         /\ size \in Nat
         /\ active \in Contents /\ old \in Contents /\ written \in Contents
         /\ count \in 0..MaxMessages
         /\ shut \in BOOLEAN

(* The mutex is held by the thread that is in the critical section.        *)
Critical == {"inside", "writing", "rotating", "renaming", "reopening", "opening"}
MutexHeld == \A t \in Threads : pc[t] \in Critical <=> holder = t

(* What a thread is doing at each place. *)
Doing(t) == /\ pc[t] \in {"idle", "closing"} => op[t] = NoOp
            /\ pc[t] \in {"writing", "rotating", "renaming", "reopening"} => op[t].name = "log"
            /\ pc[t] = "opening" => op[t].name \in {"setLogFile", "setConfig"}

LoggerInv == /\ Types
             /\ MutexHeld
             /\ \A t \in Threads : Doing(t)
             /\ RetainedIsSuffix

-----------------------------------------------------------------------------
(* When closeLogFile runs beside no other call. *)

(* A log file that was closed stays closed: nobody is about to open one.   *)
ShutInv == shut => /\ file = None
                   /\ \A u \in Threads : /\ pc[u] \in {"idle", "waiting", "inside", "closing"}
                                         /\ op[u].name \notin {"setLogFile", "setConfig"}

(* The stream, the configuration and the place in the code agree.          *)
ClosesAlone == \A t \in Threads : pc[t] = "closing" => \A u \in Threads \ {t} : pc[u] = "idle"

StreamAt(t) ==
  /\ pc[t] \in {"opening", "renaming", "reopening", "closing"} => file = None
  /\ pc[t] \in {"writing", "rotating"} => config.enable /\ file # None
  /\ pc[t] \in {"renaming", "reopening"} => config.path \in Openable
  /\ pc[t] = "opening" /\ op[t].name = "setConfig" => config.path = op[t].path

FileInv == /\ ClosesAlone
           /\ \A t \in Threads : StreamAt(t)
           /\ config.enable /\ file # None => file = config.path

(* Only the file that is being rotated has reached max_file_size.          *)
Full(p) == Len(active[p]) >= MaxSize

SizeAt(t) == /\ pc[t] = "rotating" => size = MaxSize
             /\ pc[t] = "reopening" => active[config.path] = <<>>

SizeInv ==
  /\ size \in 0..MaxSize
  /\ file # None => size = Len(active[file])
  /\ \A p \in Paths : Full(p) => /\ p = config.path
                                 /\ \E t \in Threads : pc[t] \in {"rotating", "renaming"}
  /\ \A t \in Threads : SizeAt(t)

-----------------------------------------------------------------------------
(* Files are suffixes of what was written to them. *)

(* A suffix agrees with the end of the sequence, element by element. *)
LEMMA SuffixByElement ==
  ASSUME NEW S, NEW s \in Seq(S), NEW t \in Seq(S)
  PROVE  IsSuffix(s, t) <=> /\ Len(s) <= Len(t)
                            /\ \A i \in 1..Len(s) : s[i] = t[Len(t) - Len(s) + i]
<1>1. Len(s) \in Nat /\ Len(t) \in Nat
  OBVIOUS
<1>2. ASSUME Len(s) <= Len(t)
      PROVE  /\ SubSeq(t, Len(t) - Len(s) + 1, Len(t)) \in Seq(S)
             /\ Len(SubSeq(t, Len(t) - Len(s) + 1, Len(t))) = Len(s)
             /\ \A i \in 1..Len(s) : SubSeq(t, Len(t) - Len(s) + 1, Len(t))[i] = t[Len(t) - Len(s) + i]
  BY <1>1, <1>2
<1>3. ASSUME Len(s) <= Len(t), \A i \in 1..Len(s) : s[i] = t[Len(t) - Len(s) + i]
      PROVE  s = SubSeq(t, Len(t) - Len(s) + 1, Len(t))
  BY <1>2, <1>3, SeqEqual
<1> QED
  BY <1>2, <1>3 DEF IsSuffix

(* Appending the same message to the file and to the history. *)
LEMMA SuffixAppend ==
  ASSUME NEW S, NEW a \in Seq(S), NEW b \in Seq(S), NEW w \in Seq(S), NEW e \in S,
         IsSuffix(a \o b, w)
  PROVE  IsSuffix(a \o Append(b, e), Append(w, e))
<1>1. /\ a \o b \in Seq(S) /\ Len(a \o b) = Len(a) + Len(b)
      /\ a \o Append(b, e) \in Seq(S) /\ Append(w, e) \in Seq(S)
      /\ Len(a \o Append(b, e)) = Len(a) + Len(b) + 1 /\ Len(Append(w, e)) = Len(w) + 1
      /\ Len(a) \in Nat /\ Len(b) \in Nat /\ Len(w) \in Nat
  OBVIOUS
<1>2. /\ Len(a \o b) <= Len(w)
      /\ \A i \in 1..Len(a \o b) : (a \o b)[i] = w[Len(w) - Len(a \o b) + i]
  BY <1>1, SuffixByElement
<1>3. \A i \in 1..(Len(a) + Len(b)) : (a \o Append(b, e))[i] = (a \o b)[i]
  BY <1>1
<1>4. (a \o Append(b, e))[Len(a) + Len(b) + 1] = e /\ Append(w, e)[Len(w) + 1] = e
  BY <1>1
<1>5. \A i \in 1..Len(w) : Append(w, e)[i] = w[i]
  BY <1>1
<1>6. ASSUME NEW i \in 1..(Len(a) + Len(b) + 1)
      PROVE  (a \o Append(b, e))[i] = Append(w, e)[Len(w) - Len(a \o b) + i]
  <2>1. CASE i = Len(a) + Len(b) + 1
    BY <1>1, <1>4, <2>1
  <2>2. CASE i \in 1..(Len(a) + Len(b))
    <3>1. Len(w) - Len(a \o b) + i \in 1..Len(w)
      BY <1>1, <1>2, <2>2
    <3> QED
      BY <1>1, <1>2, <1>3, <1>5, <2>2, <3>1
  <2>3. Len(a) + Len(b) \in Nat
    BY <1>1
  <2>4. i = Len(a) + Len(b) + 1 \/ i \in 1..(Len(a) + Len(b))
    BY <2>3
  <2> QED
    BY <2>1, <2>2, <2>4
<1>7. Len(Append(w, e)) - Len(a \o Append(b, e)) = Len(w) - Len(a \o b)
  BY <1>1
<1>8. \A i \in 1..Len(a \o Append(b, e)) :
        (a \o Append(b, e))[i] = Append(w, e)[Len(Append(w, e)) - Len(a \o Append(b, e)) + i]
  BY <1>1, <1>6, <1>7
<1>9. Len(a \o Append(b, e)) <= Len(Append(w, e))
  BY <1>1, <1>2
<1> QED
  BY <1>1, <1>8, <1>9, SuffixByElement

(* Dropping what was in the .old before. *)
LEMMA SuffixDrop ==
  ASSUME NEW S, NEW a \in Seq(S), NEW b \in Seq(S), NEW w \in Seq(S),
         IsSuffix(a \o b, w)
  PROVE  IsSuffix(b \o <<>>, w)
<1>1. /\ a \o b \in Seq(S) /\ Len(a \o b) = Len(a) + Len(b)
      /\ b \o <<>> = b /\ <<>> \in Seq(S)
      /\ Len(a) \in Nat /\ Len(b) \in Nat /\ Len(w) \in Nat
  OBVIOUS
<1>2. /\ Len(a \o b) <= Len(w)
      /\ \A i \in 1..Len(a \o b) : (a \o b)[i] = w[Len(w) - Len(a \o b) + i]
  BY <1>1, SuffixByElement
<1>3. ASSUME NEW i \in 1..Len(b)
      PROVE  b[i] = w[Len(w) - Len(b) + i]
  <2>1. (a \o b)[Len(a) + i] = b[i] /\ Len(a) + i \in 1..(Len(a) + Len(b))
    BY <1>1
  <2>2. Len(w) - (Len(a) + Len(b)) + (Len(a) + i) = Len(w) - Len(b) + i
    BY <1>1
  <2> QED
    BY <1>1, <1>2, <2>1, <2>2
<1> QED
  BY <1>1, <1>2, <1>3, SuffixByElement

-----------------------------------------------------------------------------
(* Types. *)

(* What an operation is on. *)
LEMMA OpParts ==
  ASSUME NEW o \in Ops
  PROVE  /\ o.name = "log" => o.id \in Ids
         /\ o.name = "setLevel" => o.level \in Levels
         /\ o.name = "setFilter" => o.module \in Modules
         /\ o.name \in {"setLogFile", "setConfig"} => o.path \in Paths
         /\ o.name = "setConfig" => o.level \in Levels /\ o.enable \in BOOLEAN
BY DEF Ops, LogOps, LevelOps, FilterOps, FileOps, ConfigOps, NoOp

(* The calls that wait for the mutex, and closeLogFile. *)
NewOp(t, o) == /\ Begin(t, o)
               /\ count' \in 0..MaxMessages
               /\ shut' = (shut /\ o.name \notin {"setLogFile", "setConfig"})

(* A new call is one of these. *)
LEMMA Calls ==
  ASSUME Types, NEW t \in Threads, NewCall(t)
  PROVE  CloseLogFile(t) \/ \E o \in Ops : NewOp(t, o)
<1>0. shut \in BOOLEAN /\ count \in 0..MaxMessages /\ MaxMessages \in Nat
  BY BoundsAssumption DEF Types
<1>1. ASSUME NEW l \in Levels, NEW m \in Modules, Log(t, l, m)
      PROVE  \E o \in Ops : NewOp(t, o)
  <2>1. LogOp(l, m, count + 1) \in Ops /\ LogOp(l, m, count + 1).name = "log"
    BY <1>0, <1>1 DEF Log, LogOp, Ops, LogOps, Ids
  <2>2. NewOp(t, LogOp(l, m, count + 1))
    BY <1>0, <1>1, <2>1 DEF Log, NewOp
  <2> QED
    BY <2>1, <2>2
<1>2. ASSUME NEW l \in Levels, SetLevel(t, l)
      PROVE  \E o \in Ops : NewOp(t, o)
  <2>1. LevelOp(l) \in Ops /\ LevelOp(l).name = "setLevel"
    BY DEF LevelOp, Ops, LevelOps
  <2>2. NewOp(t, LevelOp(l))
    BY <1>0, <1>2, <2>1 DEF SetLevel, NewOp
  <2> QED
    BY <2>1, <2>2
<1>3. ASSUME NEW m \in Modules, NEW off \in BOOLEAN, SetFilter(t, m, off)
      PROVE  \E o \in Ops : NewOp(t, o)
  <2>1. FilterOp(m, off) \in Ops /\ FilterOp(m, off).name = "setFilter"
    BY DEF FilterOp, Ops, FilterOps
  <2>2. NewOp(t, FilterOp(m, off))
    BY <1>0, <1>3, <2>1 DEF SetFilter, NewOp
  <2> QED
    BY <2>1, <2>2
<1>4. ASSUME NEW p \in Paths, SetLogFile(t, p)
      PROVE  \E o \in Ops : NewOp(t, o)
  <2>1. FileOp(p) \in Ops /\ FileOp(p).name = "setLogFile"
    BY DEF FileOp, Ops, FileOps
  <2>2. NewOp(t, FileOp(p))
    BY <1>0, <1>4, <2>1 DEF SetLogFile, NewOp
  <2> QED
    BY <2>1, <2>2
<1>5. ASSUME NEW l \in Levels, NEW e \in BOOLEAN, NEW p \in Paths, SetConfig(t, l, e, p)
      PROVE  \E o \in Ops : NewOp(t, o)
  <2>1. ConfigOp(l, e, p) \in Ops /\ ConfigOp(l, e, p).name = "setConfig"
    BY DEF ConfigOp, Ops, ConfigOps
  <2>2. NewOp(t, ConfigOp(l, e, p))
    BY <1>0, <1>5, <2>1 DEF SetConfig, NewOp
  <2> QED
    BY <2>1, <2>2
<1> QED
  BY <1>1, <1>2, <1>3, <1>4, <1>5 DEF NewCall

(* Moving on, inside or out of the critical section. *)
LEMMA MoveType ==
  ASSUME Types, NEW t \in Threads, Release(t) \/ \E label \in PCs : Keep(t, label)
  PROVE  holder' \in Threads \cup {None} /\ pc' \in [Threads -> PCs] /\ op' \in [Threads -> Ops]
BY DEF Types, Release, Keep, Goto, PCs, Ops

(* Appending a message to the open file, if there is one. *)
LEMMA AppendType ==
  ASSUME NEW files \in Contents, NEW f \in Openable \cup {None}, NEW id \in Ids
  PROVE  /\ AppendTo(files, f, id) \in Contents
         /\ \A p \in Paths : AppendTo(files, f, id)[p] =
                IF f # None /\ p = f THEN Append(files[p], id) ELSE files[p]
<1>1. f # None => f \in Paths
  BY PathsAssumption
<1>2. \A p \in Paths : files[p] \in Seq(Ids) /\ Append(files[p], id) \in Seq(Ids)
  BY DEF Contents
<1> QED
  BY <1>1, <1>2 DEF AppendTo, Contents

(* No step leaves the types. *)
LEMMA TypesStep ==
  ASSUME LoggerInv, [Next]_vars
  PROVE  Types'
<1> USE PathsAssumption, BoundsAssumption DEF disk
<1>0. Types /\ \A t \in Threads : Doing(t)
  BY DEF LoggerInv
<1>1. ASSUME NEW t \in Threads, NEW o \in Ops, NewOp(t, o)
      PROVE  Types'
  <2>1. pc' \in [Threads -> PCs] /\ op' \in [Threads -> Ops] /\ shut' \in BOOLEAN
    BY <1>0, <1>1 DEF NewOp, Begin, Goto, Types, PCs
  <2> QED
    BY <1>0, <1>1, <2>1 DEF NewOp, Begin, Types
<1>2. ASSUME NEW t \in Threads, CloseLogFile(t)
      PROVE  Types'
  BY <1>0, <1>2 DEF CloseLogFile, CloseStream, NoOneOpening, Goto, Types, PCs
<1>3. ASSUME NEW t \in Threads, Acquire(t)
      PROVE  Types'
  BY <1>0, <1>3 DEF Acquire, Goto, Types, PCs
<1>4. ASSUME NEW t \in Threads, CheckFile(t) \/ Rotate(t) \/ Reopen(t)
      PROVE  Types'
  <2>1. Release(t) \/ \E label \in PCs : Keep(t, label)
    BY <1>4 DEF CheckFile, Rotate, Reopen, PCs
  <2>2. holder' \in Threads \cup {None} /\ pc' \in [Threads -> PCs] /\ op' \in [Threads -> Ops]
    BY <1>0, <2>1, MoveType
  <2> QED
    BY <1>0, <1>4, <2>2 DEF CheckFile, Rotate, Reopen, Types
<1>5. ASSUME NEW t \in Threads, Write(t)
      PROVE  Types'
  <2>1. Release(t) \/ \E label \in PCs : Keep(t, label)
    BY <1>5 DEF Write, PCs
  <2>2. holder' \in Threads \cup {None} /\ pc' \in [Threads -> PCs] /\ op' \in [Threads -> Ops]
    BY <1>0, <2>1, MoveType
  <2>3. op[t].id \in Ids
    BY <1>0, <1>5, OpParts DEF Write, Doing, Types
  <2>4. active' \in Contents /\ written' \in Contents
    BY <1>0, <1>5, <2>3, AppendType DEF Write, Types
  <2> QED
    BY <1>0, <1>5, <2>2, <2>4 DEF Write, Types
<1>6. ASSUME NEW t \in Threads, Rename(t)
      PROVE  Types'
  <2>1. Keep(t, "reopening") /\ "reopening" \in PCs
    BY <1>6 DEF Rename, PCs
  <2>2. holder' \in Threads \cup {None} /\ pc' \in [Threads -> PCs] /\ op' \in [Threads -> Ops]
    BY <1>0, <2>1, MoveType
  <2>3. active' \in Contents /\ old' \in Contents
    <3>1. CASE config.path \in Openable /\ MoveToOld(config.path)
      <4>1. config.path \in Paths /\ <<>> \in Seq(Ids) /\ active[config.path] \in Seq(Ids)
        BY <1>0, <3>1 DEF Types, Contents
      <4> QED
        BY <1>0, <3>1, <4>1 DEF MoveToOld, Types, Contents
    <3>2. CASE UNCHANGED disk
      BY <1>0, <3>2 DEF Types
    <3> QED
      BY <1>6, <3>1, <3>2 DEF Rename
  <2> QED
    BY <1>0, <1>6, <2>2, <2>3 DEF Rename, Types
<1>7. ASSUME NEW t \in Threads, ChangeLevel(t) \/ ChangeFilter(t)
      PROVE  Types'
  <2>1. holder' \in Threads \cup {None} /\ pc' \in [Threads -> PCs] /\ op' \in [Threads -> Ops]
    BY <1>0, <1>7, MoveType DEF ChangeLevel, ChangeFilter
  <2>2. config' \in [level : Levels, enable : BOOLEAN, path : Paths \cup {EmptyPath}]
    BY <1>0, <1>7, OpParts DEF ChangeLevel, ChangeFilter, Types
  <2>3. disabled' \subseteq Modules
    BY <1>0, <1>7, OpParts DEF ChangeLevel, ChangeFilter, Types
  <2> QED
    BY <1>0, <1>7, <2>1, <2>2, <2>3 DEF ChangeLevel, ChangeFilter, Types
<1>8. ASSUME NEW t \in Threads, StartLogFile(t) \/ ChangeConfig(t)
      PROVE  Types'
  <2>1. Release(t) \/ \E label \in PCs : Keep(t, label)
    BY <1>8 DEF StartLogFile, ChangeConfig, PCs
  <2>2. holder' \in Threads \cup {None} /\ pc' \in [Threads -> PCs] /\ op' \in [Threads -> Ops]
    BY <1>0, <2>1, MoveType
  <2>3. config' \in [level : Levels, enable : BOOLEAN, path : Paths \cup {EmptyPath}]
    <3>1. CASE StartLogFile(t)
      BY <1>0, <3>1 DEF StartLogFile, Types
    <3>2. CASE ChangeConfig(t)
      <4>1. op[t].level \in Levels /\ op[t].enable \in BOOLEAN /\ op[t].path \in Paths
        BY <1>0, <3>2, OpParts DEF ChangeConfig, Types
      <4> QED
        BY <3>2, <4>1 DEF ChangeConfig
    <3> QED
      BY <1>8, <3>1, <3>2
  <2> QED
    BY <1>0, <1>8, <2>2, <2>3 DEF StartLogFile, ChangeConfig, CloseInside, Types
<1>9. ASSUME NEW t \in Threads, OpenFile(t)
      PROVE  Types'
  <2>1. holder' \in Threads \cup {None} /\ pc' \in [Threads -> PCs] /\ op' \in [Threads -> Ops]
    BY <1>0, <1>9, MoveType DEF OpenFile
  <2>2. op[t].path \in Paths
    BY <1>0, <1>9, OpParts DEF OpenFile, Doing, Types
  <2>3. Len(active[op[t].path]) \in Nat
    BY <1>0, <2>2 DEF Types, Contents
  <2>4. config' \in [level : Levels, enable : BOOLEAN, path : Paths \cup {EmptyPath}]
    BY <1>0, <1>9, <2>2 DEF OpenFile, EnabledOn, Types
  <2> QED
    BY <1>0, <1>9, <2>1, <2>2, <2>3, <2>4 DEF OpenFile, SizeOnDisk, Types
<1>10. ASSUME NEW t \in Threads, CloseReturns(t)
       PROVE  Types'
  BY <1>0, <1>10 DEF CloseReturns, Goto, Types, PCs
<1>11. CASE UNCHANGED vars
  BY <1>0, <1>11 DEF Types, vars
<1> QED
  BY <1>0, <1>1, <1>2, <1>3, <1>4, <1>5, <1>6, <1>7, <1>8, <1>9, <1>10, <1>11, Calls
  DEF Next, Proceed

-----------------------------------------------------------------------------
(* Mutual exclusion. *)

(* A step moves one thread; what the others do stays as it is.             *)
LEMMA OneMoves ==
  ASSUME Types, NEW t \in Threads, NewCall(t) \/ Acquire(t) \/ Proceed(t)
  PROVE  \A u \in Threads \ {t} : pc'[u] = pc[u] /\ op'[u] = op[u]
<1>1. CASE \E o \in Ops : NewOp(t, o)
  BY <1>1 DEF NewOp, Begin, Goto, Types
<1>2. CASE CloseLogFile(t) \/ Acquire(t) \/ CloseReturns(t)
  BY <1>2 DEF CloseLogFile, Acquire, CloseReturns, Goto, Types
<1>3. ASSUME Release(t) \/ \E label \in PCs : Keep(t, label)
      PROVE  \A u \in Threads \ {t} : pc'[u] = pc[u] /\ op'[u] = op[u]
  BY <1>3 DEF Release, Keep, Goto, Types
<1>4. CASE Proceed(t) /\ ~CloseReturns(t)
  <2>1. Release(t) \/ \E label \in PCs : Keep(t, label)
    BY <1>4 DEF Proceed, CheckFile, Write, Rotate, Rename, Reopen, ChangeLevel, ChangeFilter,
       StartLogFile, ChangeConfig, OpenFile, PCs
  <2> QED
    BY <1>3, <2>1
<1> QED
  BY <1>1, <1>2, <1>4, Calls

(* How a thread goes through the critical section: what a step does to its *)
(* place, to the mutex and to the operation.                               *)
LEMMA Inside ==
  ASSUME Types, NEW t \in Threads, Proceed(t), ~CloseReturns(t)
  PROVE  /\ pc[t] \in Critical
         /\ \/ pc'[t] = "idle" /\ holder' = None /\ op'[t] = NoOp
            \/ /\ holder' = holder /\ op'[t] = op[t]
               /\ \/ pc'[t] \in {"writing", "rotating", "renaming", "reopening"}
                     /\ (pc[t] = "inside" => op[t].name = "log") /\ pc[t] # "opening"
                  \/ pc'[t] = "opening" /\ op[t].name \in {"setLogFile", "setConfig"}
<1> USE DEF Release, Keep, Goto
<1>1. CASE CheckFile(t) \/ Write(t) \/ Rotate(t) \/ Rename(t) \/ Reopen(t)
  BY <1>1 DEF CheckFile, Write, Rotate, Rename, Reopen, Types, Critical
<1>2. CASE ChangeLevel(t) \/ ChangeFilter(t) \/ StartLogFile(t) \/ ChangeConfig(t) \/ OpenFile(t)
  BY <1>2 DEF ChangeLevel, ChangeFilter, StartLogFile, ChangeConfig, OpenFile, Types, Critical
<1> QED
  BY <1>1, <1>2 DEF Proceed

(* The thread in the critical section is the one that holds the mutex.     *)
LEMMA MutexStep ==
  ASSUME LoggerInv, [Next]_vars
  PROVE  MutexHeld'
<1>0. Types /\ MutexHeld
  BY DEF LoggerInv
<1>1. ASSUME NEW t \in Threads, NewCall(t) \/ CloseReturns(t)
      PROVE  MutexHeld'
  <2>1. holder' = holder /\ pc[t] \notin Critical /\ pc'[t] \notin Critical
    <3>1. CASE \E o \in Ops : NewOp(t, o)
      BY <1>0, <3>1 DEF NewOp, Begin, Goto, Types, Critical
    <3>2. CASE CloseLogFile(t) \/ CloseReturns(t)
      BY <1>0, <3>2 DEF CloseLogFile, CloseReturns, Goto, Types, Critical
    <3> QED
      BY <1>0, <1>1, <3>1, <3>2, Calls
  <2>2. \A u \in Threads \ {t} : pc'[u] = pc[u]
    BY <1>0, <1>1, OneMoves DEF Proceed
  <2> QED
    BY <1>0, <2>1, <2>2 DEF MutexHeld
<1>2. ASSUME NEW t \in Threads, Acquire(t)
      PROVE  MutexHeld'
  <2>1. holder = None /\ holder' = t /\ pc'[t] \in Critical
    BY <1>0, <1>2 DEF Acquire, Goto, Types, Critical
  <2>2. \A u \in Threads \ {t} : pc'[u] = pc[u] /\ u # None
    BY <1>0, <1>2, OneMoves, NoneAssumption
  <2> QED
    BY <1>0, <2>1, <2>2 DEF MutexHeld
<1>3. ASSUME NEW t \in Threads, Proceed(t), ~CloseReturns(t)
      PROVE  MutexHeld'
  <2>1. holder = t
    BY <1>0, <1>3, Inside DEF MutexHeld
  <2>2. \A u \in Threads \ {t} : pc'[u] = pc[u] /\ u # None
    BY <1>0, <1>3, OneMoves, NoneAssumption
  <2>3. \/ pc'[t] \notin Critical /\ holder' = None
        \/ pc'[t] \in Critical /\ holder' = t
    BY <1>0, <1>3, <2>1, Inside DEF Critical
  <2> QED
    BY <1>0, <2>1, <2>2, <2>3, NoneAssumption DEF MutexHeld
<1>4. CASE UNCHANGED vars
  BY <1>0, <1>4 DEF MutexHeld, vars
<1> QED
  BY <1>1, <1>2, <1>3, <1>4 DEF Next

(* Every thread does what its place says. *)
LEMMA DoingStep ==
  ASSUME LoggerInv, [Next]_vars, NEW u \in Threads
  PROVE  Doing(u)'
<1>0. Types /\ Doing(u)
  BY DEF LoggerInv
<1>1. CASE UNCHANGED <<pc, op>>
  BY <1>0, <1>1 DEF Doing
<1>2. ASSUME NEW t \in Threads, NewCall(t) \/ Acquire(t) \/ Proceed(t), u # t
      PROVE  Doing(u)'
  BY <1>0, <1>2, OneMoves DEF Doing
<1>3. CASE NewCall(u)
  <2>1. CASE \E o \in Ops : NewOp(u, o)
    BY <1>0, <2>1 DEF NewOp, Begin, Goto, Types, Doing
  <2>2. CASE CloseLogFile(u)
    BY <1>0, <2>2 DEF CloseLogFile, Goto, Types, Doing
  <2> QED
    BY <1>0, <1>3, <2>1, <2>2, Calls
<1>4. CASE Acquire(u) \/ CloseReturns(u)
  BY <1>0, <1>4 DEF Acquire, CloseReturns, Goto, Types, Doing
<1>5. CASE Proceed(u) /\ ~CloseReturns(u)
  BY <1>0, <1>5, Inside DEF Doing, Critical
<1> QED
  BY <1>1, <1>2, <1>3, <1>4, <1>5 DEF Next, vars

-----------------------------------------------------------------------------
(* What the files retain. *)

(* Only writing and renaming touch a file. *)
LEMMA FilesUntouched ==
  ASSUME NEW t \in Threads, NewCall(t) \/ Acquire(t) \/ Proceed(t), ~Write(t), ~Rename(t)
  PROVE  UNCHANGED <<active, old, written>>
<1> USE DEF disk
<1>1. CASE NewCall(t)
  BY <1>1 DEF NewCall, Log, SetLevel, SetFilter, SetLogFile, SetConfig, Begin, CloseLogFile
<1>2. CASE Acquire(t) \/ Proceed(t)
  BY <1>2 DEF Acquire, Proceed, CheckFile, Rotate, Reopen, ChangeLevel, ChangeFilter,
     StartLogFile, ChangeConfig, OpenFile, CloseReturns
<1> QED
  BY <1>1, <1>2

(* A rotation drops what was in the .old, a write appends to file and      *)
(* history alike.                                                          *)
LEMMA RetainedStep ==
  ASSUME LoggerInv, [Next]_vars
  PROVE  RetainedIsSuffix'
<1>0. /\ Types /\ RetainedIsSuffix /\ \A t \in Threads : Doing(t)
      /\ \A p \in Paths : active[p] \in Seq(Ids) /\ old[p] \in Seq(Ids) /\ written[p] \in Seq(Ids)
  BY DEF LoggerInv, Types, Contents
<1>1. ASSUME UNCHANGED <<active, old, written>>
      PROVE  RetainedIsSuffix'
  BY <1>0, <1>1 DEF RetainedIsSuffix
<1>2. ASSUME NEW t \in Threads, Write(t)
      PROVE  RetainedIsSuffix'
  <2>1. op[t].id \in Ids
    BY <1>0, <1>2, OpParts DEF Write, Doing, Types
  <2>2. /\ \A p \in Paths : /\ active'[p] = IF file # None /\ p = file THEN Append(active[p], op[t].id)
                                             ELSE active[p]
                            /\ written'[p] = IF file # None /\ p = file THEN Append(written[p], op[t].id)
                                             ELSE written[p]
        /\ old' = old
    <3>1. /\ active' = AppendTo(active, file, op[t].id) /\ written' = AppendTo(written, file, op[t].id)
          /\ old' = old
      BY <1>2 DEF Write
    <3>2. active \in Contents /\ written \in Contents /\ file \in Openable \cup {None}
      BY <1>0 DEF Types
    <3>3. \A p \in Paths : /\ AppendTo(active, file, op[t].id)[p] =
                              IF file # None /\ p = file THEN Append(active[p], op[t].id) ELSE active[p]
                           /\ AppendTo(written, file, op[t].id)[p] =
                              IF file # None /\ p = file THEN Append(written[p], op[t].id) ELSE written[p]
      BY <2>1, <3>2, AppendType
    <3> QED
      BY <3>1, <3>3
  <2>3. ASSUME NEW p \in Paths
        PROVE  IsSuffix(old'[p] \o active'[p], written'[p])
    <3>1. IsSuffix(old[p] \o active[p], written[p])
      BY <1>0 DEF RetainedIsSuffix
    <3>2. IsSuffix(old[p] \o Append(active[p], op[t].id), Append(written[p], op[t].id))
      BY <1>0, <2>1, <3>1, SuffixAppend
    <3> QED
      BY <2>2, <3>1, <3>2
  <2> QED
    BY <2>3 DEF RetainedIsSuffix
<1>3. ASSUME NEW t \in Threads, Rename(t)
      PROVE  RetainedIsSuffix'
  <2>1. CASE config.path \in Openable /\ MoveToOld(config.path)
    <3>1. config.path \in Paths /\ written' = written
      BY <1>3, <2>1, PathsAssumption DEF Rename
    <3>2. \A p \in Paths : /\ old'[p] = IF p = config.path THEN active[p] ELSE old[p]
                           /\ active'[p] = IF p = config.path THEN <<>> ELSE active[p]
      BY <1>0, <2>1, <3>1 DEF MoveToOld, Types, Contents
    <3>3. ASSUME NEW p \in Paths
          PROVE  IsSuffix(old'[p] \o active'[p], written'[p])
      <4>1. IsSuffix(old[p] \o active[p], written[p])
        BY <1>0 DEF RetainedIsSuffix
      <4>2. IsSuffix(active[p] \o <<>>, written[p])
        BY <1>0, <4>1, SuffixDrop
      <4> QED
        BY <3>1, <3>2, <4>1, <4>2
    <3> QED
      BY <3>3 DEF RetainedIsSuffix
  <2>2. CASE UNCHANGED disk
    BY <1>1, <1>3, <2>2 DEF Rename, disk
  <2> QED
    BY <1>3, <2>1, <2>2 DEF Rename
<1>4. CASE UNCHANGED vars
  BY <1>1, <1>4 DEF vars, disk
<1> QED
  BY <1>1, <1>2, <1>3, <1>4, FilesUntouched DEF Next

-----------------------------------------------------------------------------
(* The invariant holds at first. *)
LEMMA LoggerInit == Init => LoggerInv
<1> SUFFICES ASSUME Init PROVE LoggerInv
  OBVIOUS
<1> USE DEF Init
<1>1. Types
  <2>1. <<>> \in Seq(Ids) /\ 0 \in 0..MaxMessages
    BY BoundsAssumption
  <2> QED
    BY <2>1 DEF Types, Contents, PCs, Ops
<1>2. MutexHeld /\ \A t \in Threads : Doing(t)
  BY NoneAssumption DEF MutexHeld, Doing, Critical
<1>3. RetainedIsSuffix
  <2>1. <<>> \in Seq(Ids) /\ Len(<<>>) = 0
    OBVIOUS
  <2>2. <<>> \o <<>> = <<>>
    BY <2>1
  <2>3. ASSUME NEW s \in Seq(Ids), Len(s) = 0
        PROVE  IsSuffix(s, s)
    <3>1. Len(s) <= Len(s) /\ \A i \in 1..Len(s) : s[i] = s[Len(s) - Len(s) + i]
      BY <2>3
    <3>2. IsSuffix(s, s) <=> /\ Len(s) <= Len(s)
                             /\ \A i \in 1..Len(s) : s[i] = s[Len(s) - Len(s) + i]
      BY SuffixByElement
    <3> QED
      BY <3>1, <3>2
  <2>4. IsSuffix(<<>>, <<>>)
    BY <2>1, <2>3
  <2> QED
    BY <2>2, <2>4 DEF RetainedIsSuffix
<1> QED
  BY <1>1, <1>2, <1>3 DEF LoggerInv

(* LoggerInv is an inductive invariant, whatever closeLogFile runs beside  *)
(* and whatever rename() does.                                             *)
THEOREM LoggerInvariant == Spec => []LoggerInv
<1>1. LoggerInv /\ [Next]_vars => LoggerInv'
  BY TypesStep, MutexStep, DoingStep, RetainedStep DEF LoggerInv
<1> QED
  BY <1>1, LoggerInit, PTL DEF Spec

(* RetainedIsSuffix: the file and its .old hold the last messages written  *)
(* to the path, in order and without a gap or a repetition, through every  *)
(* rotation, reopening, failed rename and unlocked close.                  *)
THEOREM RetainedCorrect == Spec => []RetainedIsSuffix
BY LoggerInvariant, PTL DEF LoggerInv

(* At most one thread is in the critical section. *)
Exclusion == \A t, u \in Threads : pc[t] \in Critical /\ pc[u] \in Critical => t = u

(* The unlocked closeLogFile does not disturb the mutex. *)
THEOREM MutualExclusion == Spec => []Exclusion
<1>1. LoggerInv => Exclusion
  BY DEF LoggerInv, MutexHeld, Exclusion
<1> QED
  BY <1>1, LoggerInvariant, PTL

-----------------------------------------------------------------------------
(* closeLogFile beside no other call. *)

(* Once closed, a log file stays closed until a file is asked for. *)
LEMMA ShutStep ==
  ASSUME ~CloseRaces, LoggerInv, ShutInv, [Next]_vars
  PROVE  ShutInv'
<1>0. Types /\ \A t \in Threads : Doing(t)
  BY DEF LoggerInv
<1>1. ASSUME NEW t \in Threads, NEW o \in Ops, NewOp(t, o)
      PROVE  ShutInv'
  <2>1. /\ file' = file /\ pc'[t] = "waiting" /\ op'[t] = o
        /\ shut' = (shut /\ o.name \notin {"setLogFile", "setConfig"})
        /\ \A u \in Threads \ {t} : pc'[u] = pc[u] /\ op'[u] = op[u]
    BY <1>0, <1>1 DEF NewOp, Begin, Goto, Types
  <2> QED
    BY <2>1 DEF ShutInv
<1>2. ASSUME NEW t \in Threads, CloseLogFile(t)
      PROVE  ShutInv'
  <2>1. /\ file' = None /\ op' = op /\ shut' = NoOneOpening
        /\ \A u \in Threads : pc'[u] \in {"idle", "closing"}
    BY <1>0, <1>2 DEF CloseLogFile, CloseStream, Goto, Types
  <2> QED
    BY <2>1 DEF ShutInv, NoOneOpening
<1>3. ASSUME NEW t \in Threads, Acquire(t) \/ CloseReturns(t)
      PROVE  ShutInv'
  <2>1. /\ file' = file /\ shut' = shut /\ op' = op /\ pc'[t] \in {"idle", "inside"}
        /\ \A u \in Threads \ {t} : pc'[u] = pc[u]
    BY <1>0, <1>3 DEF Acquire, CloseReturns, Goto, Types
  <2> QED
    BY <2>1 DEF ShutInv
<1>4. ASSUME NEW t \in Threads, Proceed(t), ~CloseReturns(t), shut
      PROVE  ShutInv'
  <2>1. pc[t] = "inside" /\ op[t].name \notin {"setLogFile", "setConfig"} /\ file = None
    BY <1>0, <1>4, Inside DEF ShutInv, Critical
  <2>2. CheckFile(t) \/ ChangeLevel(t) \/ ChangeFilter(t)
    BY <1>4, <2>1 DEF Proceed, Write, Rotate, Rename, Reopen, StartLogFile, ChangeConfig, OpenFile
  <2>3. file' = None /\ Release(t)
    BY <2>1, <2>2 DEF CheckFile, ChangeLevel, ChangeFilter
  <2>4. \A u \in Threads : /\ pc'[u] = IF u = t THEN "idle" ELSE pc[u]
                           /\ op'[u] = IF u = t THEN NoOp ELSE op[u]
    BY <1>0, <2>3 DEF Release, Goto, Types
  <2> QED
    BY <1>4, <2>3, <2>4 DEF ShutInv, NoOp
<1>5. ASSUME NEW t \in Threads, Proceed(t), ~CloseReturns(t)
      PROVE  shut' = shut
  BY <1>5 DEF Proceed, CheckFile, Write, Rotate, Rename, Reopen, ChangeLevel, ChangeFilter,
     StartLogFile, ChangeConfig, OpenFile
<1>6. CASE UNCHANGED vars
  BY <1>6 DEF ShutInv, vars
<1>7. CASE ~shut'
  BY <1>7 DEF ShutInv
<1> QED
  BY <1>0, <1>1, <1>2, <1>3, <1>4, <1>5, <1>6, <1>7, Calls DEF Next

(* ClosedStaysClosed, for an application that closes the log file beside   *)
(* no other call: after closeLogFile nothing is written until somebody     *)
(* asks for a file again.  (With calls beside it, TLC finds the race.)     *)
THEOREM ClosedCorrect ==
  ASSUME ~CloseRaces
  PROVE  Spec => []ClosedStaysClosed
<1>1. Init => ShutInv
  BY DEF Init, ShutInv
<1>2. LoggerInv /\ ShutInv /\ [Next]_vars => ShutInv'
  BY ShutStep
<1>3. ShutInv => ClosedStaysClosed
  BY DEF ShutInv, ClosedStaysClosed
<1> QED
  BY <1>1, <1>2, <1>3, LoggerInvariant, PTL DEF Spec

-----------------------------------------------------------------------------
(* The open file is the configured one. *)

(* While a thread is in the critical section the others are not in the     *)
(* logger at all, or wait for the mutex.                                   *)
LEMMA OthersWait ==
  ASSUME LoggerInv, ClosesAlone, NEW t \in Threads, pc[t] \in Critical
  PROVE  \A u \in Threads \ {t} : pc[u] \in {"idle", "waiting"}
BY DEF LoggerInv, Types, MutexHeld, ClosesAlone, Critical, PCs

(* A step outside of the critical section, when closeLogFile runs alone.   *)
LEMMA Outside ==
  ASSUME ~CloseRaces, Types, ClosesAlone, NEW t \in Threads,
         NewCall(t) \/ Acquire(t) \/ CloseReturns(t)
  PROVE  \/ /\ UNCHANGED <<config, file, size, active>>
            /\ pc[t] \in {"idle", "waiting"} /\ pc'[t] \in {"waiting", "inside"}
            /\ \A u \in Threads \ {t} : pc[u] # "closing"
         \/ /\ UNCHANGED <<config, size, active>> /\ file' = None
            /\ pc'[t] = "closing" /\ \A u \in Threads : pc[u] = "idle"
         \/ /\ UNCHANGED <<file, active>> /\ size' = 0 /\ config' = [config EXCEPT !.enable = FALSE]
            /\ pc[t] = "closing" /\ pc'[t] = "idle" /\ \A u \in Threads \ {t} : pc[u] = "idle"
<1> USE DEF Goto, disk
<1>1. CASE \E o \in Ops : NewOp(t, o)
  BY <1>1 DEF NewOp, Begin, Types
<1>2. CASE CloseLogFile(t)
  BY <1>2 DEF CloseLogFile, CloseStream, Types
<1>3. CASE Acquire(t)
  BY <1>3 DEF Acquire, Types, ClosesAlone
<1>4. CASE CloseReturns(t)
  BY <1>4 DEF CloseReturns, Types, ClosesAlone
<1> QED
  BY <1>1, <1>2, <1>3, <1>4, Calls

(* The steps outside keep the stream and the configuration together. *)
LEMMA FileOutside ==
  ASSUME ~CloseRaces, LoggerInv, FileInv, NEW t \in Threads,
         NewCall(t) \/ Acquire(t) \/ CloseReturns(t)
  PROVE  FileInv'
<1>0. /\ Types /\ ClosesAlone
      /\ \A u \in Threads \ {t} : pc'[u] = pc[u] /\ op'[u] = op[u]
  BY OneMoves DEF LoggerInv, FileInv, Proceed
<1>1. ASSUME UNCHANGED <<config, file>>,
             pc[t] \in {"idle", "waiting"}, pc'[t] \in {"waiting", "inside"},
             \A u \in Threads \ {t} : pc[u] # "closing"
      PROVE  FileInv'
  BY <1>0, <1>1 DEF FileInv, ClosesAlone, StreamAt
<1>2. ASSUME file' = None, pc'[t] = "closing", \A u \in Threads : pc[u] = "idle"
      PROVE  FileInv'
  BY <1>0, <1>2 DEF FileInv, ClosesAlone, StreamAt
<1>3. ASSUME UNCHANGED file, config' = [config EXCEPT !.enable = FALSE],
             pc[t] = "closing", pc'[t] = "idle", \A u \in Threads \ {t} : pc[u] = "idle"
      PROVE  FileInv'
  BY <1>0, <1>3 DEF FileInv, ClosesAlone, StreamAt
<1> QED
  BY <1>0, <1>1, <1>2, <1>3, Outside

(* So do those inside. *)
LEMMA FileInside ==
  ASSUME EmptyPath \notin Paths, LoggerInv, FileInv, NEW t \in Threads,
         Proceed(t), ~CloseReturns(t)
  PROVE  FileInv'
<1> USE DEF Release, Keep, Goto
<1>0. /\ Types /\ Doing(t) /\ StreamAt(t) /\ pc[t] \in Critical
      /\ config.enable /\ file # None => file = config.path
      /\ None \notin Openable
  BY Inside, PathsAssumption, NoneAssumption DEF LoggerInv, FileInv
<1>1. \A u \in Threads \ {t} : pc'[u] \in {"idle", "waiting"}
  BY <1>0, OthersWait, OneMoves DEF FileInv
<1>2. pc'[t] # "closing"
  BY <1>0, Inside
<1>3. ASSUME StreamAt(t)', config'.enable /\ file' # None => file' = config'.path
      PROVE  FileInv'
  BY <1>1, <1>2, <1>3 DEF FileInv, ClosesAlone, StreamAt
<1>4. CASE CheckFile(t) \/ Write(t) \/ Rename(t) \/ Reopen(t)
  BY <1>0, <1>3, <1>4 DEF CheckFile, Write, Rename, Reopen, Types, StreamAt
<1>5. CASE Rotate(t)
  BY <1>0, <1>3, <1>5 DEF Rotate, Types, StreamAt
<1>6. CASE ChangeLevel(t)
  BY <1>0, <1>3, <1>6 DEF ChangeLevel, Types, StreamAt
<1>7. CASE ChangeFilter(t)
  BY <1>0, <1>3, <1>7 DEF ChangeFilter, Types, StreamAt
<1>8. CASE StartLogFile(t)
  BY <1>0, <1>3, <1>8 DEF StartLogFile, CloseInside, Types, StreamAt
<1>9. CASE ChangeConfig(t)
  <2>1. op[t].path \in Paths /\ op[t].enable \in BOOLEAN
    BY <1>0, <1>9, OpParts DEF ChangeConfig, Types
  <2>2. config'.enable = op[t].enable /\ config'.path = op[t].path
    BY <1>9 DEF ChangeConfig
  <2>3. CASE op[t].enable
    <3>1. file' = None /\ pc'[t] = "opening" /\ op'[t] = op[t]
      BY <1>0, <1>9, <2>1, <2>3 DEF ChangeConfig, Types
    <3> QED
      BY <1>3, <2>2, <3>1 DEF StreamAt
  <2>4. CASE ~op[t].enable
    <3>1. pc'[t] = "idle"
      BY <1>0, <1>9, <2>4 DEF ChangeConfig, Types
    <3> QED
      BY <1>3, <2>2, <2>4, <3>1 DEF StreamAt
  <2> QED
    BY <2>3, <2>4
<1>10. CASE OpenFile(t)
  <2>1. pc'[t] = "idle" /\ op[t].path \in Paths /\ file = None
    BY <1>0, <1>10, OpParts DEF OpenFile, Types, Doing, StreamAt
  <2>2. ASSUME op[t].path \in Openable
        PROVE  file' = op[t].path /\ config'.path = op[t].path
    BY <1>0, <1>10, <2>2 DEF OpenFile, EnabledOn, Types, StreamAt
  <2>3. ASSUME op[t].path \notin Openable
        PROVE  file' = None
    BY <1>10, <2>1, <2>3 DEF OpenFile
  <2> QED
    BY <1>3, <2>1, <2>2, <2>3 DEF StreamAt
<1> QED
  BY <1>4, <1>5, <1>6, <1>7, <1>8, <1>9, <1>10 DEF Proceed

(* FileInv is inductive. *)
LEMMA FileStep ==
  ASSUME ~CloseRaces, EmptyPath \notin Paths, LoggerInv, FileInv, [Next]_vars
  PROVE  FileInv'
<1>1. CASE UNCHANGED vars
  BY <1>1 DEF FileInv, ClosesAlone, StreamAt, vars
<1> QED
  BY <1>1, FileOutside, FileInside DEF Next

(* It holds at first. *)
LEMMA FileInit == Init => FileInv
BY DEF Init, FileInv, ClosesAlone, StreamAt

(* FileMatchesConfig, for an application that closes the log file beside   *)
(* no other call and gives no empty path: the file that is written is the  *)
(* one the configuration names, which is the one a rotation renames.       *)
THEOREM FileCorrect ==
  ASSUME ~CloseRaces, EmptyPath \notin Paths
  PROVE  Spec => []FileMatchesConfig
<1>1. LoggerInv /\ FileInv /\ [Next]_vars => FileInv'
  BY FileStep
<1>2. FileInv => FileMatchesConfig
  BY DEF FileInv, FileMatchesConfig
<1> QED
  BY <1>1, <1>2, FileInit, LoggerInvariant, PTL DEF Spec

(* RotationReopens, for the same applications: whether rename() worked or  *)
(* not, a rotation opens the configured file again.                        *)
THEOREM RotationCorrect ==
  ASSUME ~CloseRaces, EmptyPath \notin Paths
  PROVE  Spec => RotationReopens
<1> DEFINE Reopened == \A t \in Threads : pc[t] = "reopening" /\ pc'[t] = "idle" => file' # None
<1>1. LoggerInv /\ FileInv /\ [Next]_vars => FileInv'
  BY FileStep
<1>2. ASSUME LoggerInv, FileInv, [Next]_vars, NEW t \in Threads,
             pc[t] = "reopening", pc'[t] = "idle"
      PROVE  file' # None
  <2>1. PICK u \in Threads : NewCall(u) \/ Acquire(u) \/ Proceed(u)
    BY <1>2 DEF Next, vars
  <2>2. Types /\ StreamAt(t) /\ config.path \in Openable
    BY <1>2 DEF LoggerInv, FileInv, StreamAt
  <2>3. u = t
    BY <1>2, <2>1, <2>2, OneMoves
  <2>4. Proceed(t) /\ ~CloseReturns(t)
    <3>1. ~CloseReturns(t) /\ ~Acquire(t) /\ ~CloseLogFile(t) /\ ~\E o \in Ops : NewOp(t, o)
      BY <1>2 DEF CloseReturns, Acquire, CloseLogFile, NewOp, Begin
    <3> QED
      BY <2>1, <2>2, <2>3, <3>1, Calls
  <2>5. Reopen(t)
    BY <1>2, <2>4 DEF Proceed, CheckFile, Write, Rotate, Rename, ChangeLevel, ChangeFilter,
       StartLogFile, ChangeConfig, OpenFile
  <2> QED
    BY <2>2, <2>5, PathsAssumption, NoneAssumption DEF Reopen
<1>3. LoggerInv /\ FileInv /\ [Next]_vars => [Reopened]_vars
  BY <1>2
<1> QED
  BY <1>1, <1>3, FileInit, LoggerInvariant, PTL DEF Spec, RotationReopens

-----------------------------------------------------------------------------
(* The counter that decides the rotation is the size of the file. *)

(* A path that is in use can be looked up. *)
LEMMA SizesKnown ==
  ASSUME Types
  PROVE  /\ \A p \in Paths : active[p] \in Seq(Ids) /\ Len(active[p]) \in Nat
         /\ MaxSize \in Nat /\ MaxSize > 0 /\ size \in Nat
         /\ Openable \subseteq Paths /\ None \notin Paths
         /\ <<>> \in Seq(Ids) /\ Len(<<>>) = 0
BY PathsAssumption, NoneAssumption, BoundsAssumption DEF Types, Contents

(* The steps outside do not reach a file. *)
LEMMA SizeOutside ==
  ASSUME ~CloseRaces, LoggerInv, FileInv, SizeInv, NEW t \in Threads,
         NewCall(t) \/ Acquire(t) \/ CloseReturns(t)
  PROVE  SizeInv'
<1>0. /\ Types /\ ClosesAlone /\ StreamAt(t)
      /\ \A u \in Threads \ {t} : pc'[u] = pc[u]
      /\ MaxSize \in Nat
  BY OneMoves, SizesKnown DEF LoggerInv, FileInv, Proceed
<1>1. ASSUME UNCHANGED <<config, file, size, active>>,
             pc[t] \in {"idle", "waiting"}, pc'[t] \in {"waiting", "inside"}
      PROVE  SizeInv'
  BY <1>0, <1>1 DEF SizeInv, Full, SizeAt
<1>2. ASSUME UNCHANGED <<config, size, active>>, file' = None,
             pc'[t] = "closing", \A u \in Threads : pc[u] = "idle"
      PROVE  SizeInv'
  BY <1>0, <1>2 DEF SizeInv, Full, SizeAt
<1>3. ASSUME UNCHANGED <<file, active>>, size' = 0, config' = [config EXCEPT !.enable = FALSE],
             pc[t] = "closing", pc'[t] = "idle", \A u \in Threads \ {t} : pc[u] = "idle"
      PROVE  SizeInv'
  BY <1>0, <1>3 DEF SizeInv, Full, SizeAt, StreamAt
<1> QED
  BY <1>0, <1>1, <1>2, <1>3, Outside

(* The steps inside keep the counter and the file together. *)
LEMMA SizeInside ==
  ASSUME ~RenameFails, EmptyPath \notin Paths, LoggerInv, FileInv, SizeInv, NEW t \in Threads,
         Proceed(t), ~CloseReturns(t)
  PROVE  SizeInv'
<1> USE DEF Release, Keep, Goto
<1>0. /\ Types /\ Doing(t) /\ StreamAt(t) /\ SizeAt(t) /\ pc[t] \in Critical
      /\ config.enable /\ file # None => file = config.path
      /\ file \in Openable \cup {None}
  BY Inside DEF LoggerInv, FileInv, SizeInv, Types
<1>1. \A u \in Threads \ {t} : pc[u] \in {"idle", "waiting"} /\ pc'[u] = pc[u]
  BY <1>0, OthersWait, OneMoves DEF FileInv
<1>2. /\ \A p \in Paths : active[p] \in Seq(Ids) /\ Len(active[p]) \in Nat
      /\ MaxSize \in Nat /\ MaxSize > 0 /\ size \in 0..MaxSize
      /\ Openable \subseteq Paths /\ None \notin Paths
      /\ <<>> \in Seq(Ids) /\ Len(<<>>) = 0
  BY <1>0, SizesKnown DEF SizeInv
<1>3. /\ \A p \in Paths : Full(p) => p = config.path /\ pc[t] \in {"rotating", "renaming"}
      /\ file # None => size = Len(active[file])
  BY <1>1 DEF SizeInv
<1>4. ASSUME size' \in 0..MaxSize, file' # None => size' = Len(active'[file']),
             \A p \in Paths : Full(p)' => p = config'.path /\ pc'[t] \in {"rotating", "renaming"},
             SizeAt(t)'
      PROVE  SizeInv'
  BY <1>1, <1>4 DEF SizeInv, SizeAt
<1>5. CASE CheckFile(t) \/ ChangeLevel(t) \/ ChangeFilter(t)
  <2>1. /\ pc[t] = "inside" /\ pc'[t] \in {"idle", "writing"}
        /\ active' = active /\ size' = size /\ file' = file
    BY <1>0, <1>5 DEF CheckFile, ChangeLevel, ChangeFilter, Types, disk
  <2> QED
    BY <1>2, <1>3, <1>4, <2>1 DEF Full, SizeAt
<1>6. CASE Write(t)
  <2>1. /\ pc[t] = "writing" /\ file # None /\ config.enable
        /\ file \in Paths /\ file = config.path
    BY <1>0, <1>2, <1>6 DEF Write, StreamAt
  <2>2. \A p \in Paths : ~Full(p)
    BY <1>3, <2>1
  <2>3. op[t].id \in Ids
    BY <1>0, <1>6, OpParts DEF Write, Doing, Types
  <2>4. /\ active' = [active EXCEPT ![file] = Append(active[file], op[t].id)]
        /\ size' = size + 1 /\ file' = file /\ config' = config
        /\ pc'[t] = IF size + 1 >= MaxSize THEN "rotating" ELSE "idle"
    BY <1>0, <1>6, <2>1 DEF Write, AppendTo, NeedsRotation, Types
  <2>5. /\ Len(active'[file]) = size + 1 /\ size + 1 <= MaxSize
        /\ \A p \in Paths \ {file} : active'[p] = active[p]
    <3>1. active \in Contents
      BY <1>0 DEF Types
    <3>2. Len(Append(active[file], op[t].id)) = Len(active[file]) + 1
      BY <1>2, <2>1, <2>3
    <3>3. active'[file] = Append(active[file], op[t].id)
      BY <2>1, <2>4, <3>1 DEF Contents
    <3>4. size = Len(active[file]) /\ size < MaxSize
      BY <1>2, <1>3, <2>1, <2>2 DEF Full
    <3> QED
      BY <1>2, <2>1, <2>4, <3>1, <3>2, <3>3, <3>4 DEF Contents
  <2>6. CASE size + 1 >= MaxSize
    <3>1. pc'[t] = "rotating" /\ size' = MaxSize
      BY <1>2, <2>4, <2>5, <2>6
    <3>2. \A p \in Paths : Full(p)' => p = config'.path
      BY <2>1, <2>2, <2>4, <2>5 DEF Full
    <3> QED
      BY <1>2, <1>4, <2>1, <2>4, <2>5, <3>1, <3>2 DEF SizeAt
  <2>7. CASE ~(size + 1 >= MaxSize)
    <3>1. pc'[t] = "idle"
      BY <2>4, <2>7
    <3>2. \A p \in Paths : ~Full(p)'
      BY <1>2, <2>1, <2>2, <2>5, <2>7 DEF Full
    <3>3. size' \in 0..MaxSize
      BY <1>2, <2>4, <2>5
    <3> QED
      BY <1>4, <2>1, <2>4, <2>5, <3>1, <3>2, <3>3 DEF SizeAt
  <2> QED
    BY <2>6, <2>7
<1>7. CASE Rotate(t)
  <2>1. /\ file # None /\ size = MaxSize /\ pc[t] = "rotating"
    BY <1>0, <1>7 DEF Rotate, StreamAt, SizeAt
  <2>2. /\ pc'[t] = "renaming" /\ file' = None
        /\ active' = active /\ size' = size /\ config' = config
    BY <1>0, <1>2, <1>7, <2>1 DEF Rotate, NeedsRotation, Types, disk
  <2> QED
    BY <1>2, <1>3, <1>4, <2>2 DEF Full, SizeAt
<1>8. CASE Rename(t)
  <2>1. config.path \in Openable /\ pc[t] = "renaming" /\ file = None
    BY <1>0, <1>8 DEF Rename, StreamAt
  <2>2. /\ active' = [active EXCEPT ![config.path] = <<>>]
        /\ pc'[t] = "reopening" /\ file' = None /\ size' = size /\ config' = config
    BY <1>0, <1>8, <2>1 DEF Rename, MoveToOld, Types
  <2>3. /\ active'[config.path] = <<>>
        /\ \A p \in Paths \ {config.path} : active'[p] = active[p]
    BY <1>0, <1>2, <2>1, <2>2 DEF Types, Contents
  <2>4. \A p \in Paths : ~Full(p)'
    BY <1>2, <1>3, <2>3 DEF Full
  <2> QED
    BY <1>2, <1>4, <2>2, <2>3, <2>4 DEF SizeAt
<1>9. CASE Reopen(t)
  <2>1. /\ config.path \in Openable /\ pc[t] = "reopening" /\ active[config.path] = <<>>
    BY <1>0, <1>9 DEF Reopen, StreamAt, SizeAt
  <2>2. /\ file' = config.path /\ size' = 0 /\ active' = active /\ pc'[t] = "idle"
    BY <1>0, <1>9, <2>1 DEF Reopen, Types, disk
  <2> QED
    BY <1>2, <1>3, <1>4, <2>1, <2>2 DEF Full, SizeAt
<1>10. CASE StartLogFile(t) \/ ChangeConfig(t)
  <2>1. /\ pc[t] = "inside" /\ pc'[t] \in {"idle", "opening"} /\ active' = active
        /\ \/ file' = None /\ size' \in {0, size}
           \/ file' = file /\ size' = size
    BY <1>0, <1>10 DEF StartLogFile, CloseInside, ChangeConfig, Types, disk
  <2> QED
    BY <1>2, <1>3, <1>4, <2>1 DEF Full, SizeAt
<1>11. CASE OpenFile(t)
  <2>1. /\ pc[t] = "opening" /\ pc'[t] = "idle" /\ active' = active /\ file = None
        /\ op[t].path \in Paths
    BY <1>0, <1>11, OpParts DEF OpenFile, Types, Doing, StreamAt, disk
  <2>2. CASE op[t].path \in Openable
    <3>1. file' = op[t].path /\ size' = Len(active[op[t].path])
      BY <1>11, <2>2 DEF OpenFile, SizeOnDisk
    <3>2. ~Full(op[t].path)
      BY <1>3, <2>1
    <3> QED
      BY <1>2, <1>3, <1>4, <2>1, <3>1, <3>2 DEF Full, SizeAt
  <2>3. CASE op[t].path \notin Openable
    <3>1. file' = None /\ size' \in {MaxSize, size}
      BY <1>11, <2>1, <2>3 DEF OpenFile
    <3> QED
      BY <1>2, <1>3, <1>4, <2>1, <3>1 DEF Full, SizeAt
  <2> QED
    BY <2>2, <2>3
<1> QED
  BY <1>5, <1>6, <1>7, <1>8, <1>9, <1>10, <1>11 DEF Proceed

(* SizeInv is inductive. *)
LEMMA SizeStep ==
  ASSUME ~CloseRaces, ~RenameFails, EmptyPath \notin Paths,
         LoggerInv, FileInv, SizeInv, [Next]_vars
  PROVE  SizeInv'
<1>1. CASE UNCHANGED vars
  BY <1>1 DEF SizeInv, Full, SizeAt, vars, disk
<1> QED
  BY <1>1, SizeOutside, SizeInside DEF Next

(* It holds at first. *)
LEMMA SizeInit == Init => SizeInv
<1> SUFFICES ASSUME Init PROVE SizeInv
  OBVIOUS
<1>1. Types /\ MaxSize \in Nat /\ MaxSize > 0 /\ Len(<<>>) = 0
  BY LoggerInit, SizesKnown DEF LoggerInv
<1> QED
  BY <1>1 DEF Init, SizeInv, Full, SizeAt

(* SizeIsTracked, when closeLogFile runs beside no other call, no path is  *)
(* empty and rename() works: outside of a call current_file_size_ is the   *)
(* size of the open file, and no file is left that is due for rotation.    *)
THEOREM SizeCorrect ==
  ASSUME ~CloseRaces, ~RenameFails, EmptyPath \notin Paths
  PROVE  Spec => []SizeIsTracked
<1>1. LoggerInv /\ FileInv /\ [Next]_vars => FileInv'
  BY FileStep
<1>2. LoggerInv /\ FileInv /\ SizeInv /\ [Next]_vars => SizeInv'
  BY SizeStep
<1>3. LoggerInv /\ FileInv /\ SizeInv => SizeIsTracked
  <2> SUFFICES ASSUME LoggerInv, FileInv, SizeInv, holder = None, file # None
               PROVE  size = Len(active[file]) /\ size < MaxSize
    BY DEF SizeIsTracked
  <2>1. Types /\ \A t \in Threads : pc[t] \notin Critical
    BY NoneAssumption DEF LoggerInv, MutexHeld
  <2>2. file \in Paths /\ ~Full(file)
    BY <2>1, SizesKnown DEF SizeInv, Types, Critical
  <2> QED
    BY <2>1, <2>2, SizesKnown DEF SizeInv, Full
<1> QED
  BY <1>1, <1>2, <1>3, FileInit, SizeInit, LoggerInvariant, PTL DEF Spec

(* TypeOK, on the same conditions: every variable holds a value the code   *)
(* can store, and the size never exceeds max_file_size.                    *)
THEOREM TypeCorrect ==
  ASSUME ~CloseRaces, ~RenameFails, EmptyPath \notin Paths
  PROVE  Spec => []TypeOK
<1>1. LoggerInv /\ FileInv /\ [Next]_vars => FileInv'
  BY FileStep
<1>2. LoggerInv /\ FileInv /\ SizeInv /\ [Next]_vars => SizeInv'
  BY SizeStep
<1>3. LoggerInv /\ SizeInv => TypeOK
  BY DEF LoggerInv, Types, SizeInv, TypeOK, Contents, Ids
<1> QED
  BY <1>1, <1>2, <1>3, FileInit, SizeInit, LoggerInvariant, PTL DEF Spec
=============================================================================
