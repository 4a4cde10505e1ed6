------------------------------- MODULE Logger -------------------------------
(***************************************************************************)
(* The logger every part of the library writes to: one singleton, one      *)
(* mutex, one output file that is rotated to <path>.old when it is full.   *)
(* Every public operation takes the mutex except closeLogFile, which takes *)
(* none (setLogFile calls it with the mutex held), and the level and       *)
(* module test of log(), which runs before the mutex is taken.             *)
(*                                                                         *)
(* A message is its number in the order log() accepted it; a file is the   *)
(* sequence of its messages and its size their count.  Console output and  *)
(* the look of a line are left out.                                        *)
(***************************************************************************)
EXTENDS Naturals, Sequences

CONSTANTS Threads,      \* threads of the application
          Levels,       \* log levels, numbers
          Modules,      \* log modules
          Paths,        \* paths given to setLogFile and setConfig
          EmptyPath,    \* the empty path, a member of Paths or not
          Openable,     \* paths that can be opened for appending
          None,         \* no thread, no file
          MaxSize,      \* max_file_size, in messages
          MaxMessages,  \* bound: messages accepted
          CloseRaces,   \* TRUE iff closeLogFile runs beside other calls
          RenameFails   \* TRUE iff rename() may fail during a rotation

ASSUME LevelsAssumption == Levels \subseteq Nat /\ Levels # {}
ASSUME PathsAssumption  == Openable \subseteq Paths \ {EmptyPath}
ASSUME NoneAssumption   == None \notin Paths \cup Threads
ASSUME BoundsAssumption == MaxSize \in Nat \ {0} /\ MaxMessages \in Nat
ASSUME FlagsAssumption  == CloseRaces \in BOOLEAN /\ RenameFails \in BOOLEAN

VARIABLES holder,    \* the thread that holds mutex_
          pc, op,    \* what each thread does in the logger, and on what
          config,    \* config_: level, enable_file, log_file_path
          disabled,  \* disabled_modules_
          file,      \* the path log_file_ is open on
          size,      \* current_file_size_
          active,    \* content of the file at each path
          old,       \* content of <path>.old
          written,   \* history: every message written to each path
          count,     \* messages accepted so far
          shut       \* history: closeLogFile ran, beside no request to open
                     \* a file, and there was none since

disk == <<active, old>>
vars == <<holder, pc, op, config, disabled, file, size, disk, written, count, shut>>

PCs == {"idle", "waiting", "inside", "writing", "rotating", "renaming", "reopening",
        "opening", "closing"}

LogOp(l, m, n)     == [name |-> "log", level |-> l, module |-> m, id |-> n]
LevelOp(l)         == [name |-> "setLevel", level |-> l]
FilterOp(m, off)   == [name |-> "setFilter", module |-> m, off |-> off]
FileOp(p)          == [name |-> "setLogFile", path |-> p]
ConfigOp(l, e, p)  == [name |-> "setConfig", level |-> l, enable |-> e, path |-> p]
NoOp               == [name |-> "none"]

Init == /\ holder   = None
        /\ pc       = [t \in Threads |-> "idle"]
        /\ op       = [t \in Threads |-> NoOp]
        /\ config  \in [level : Levels, enable : {FALSE}, path : {EmptyPath}]
        /\ disabled = {}
        /\ file = None /\ size = 0
        /\ active   = [p \in Paths |-> <<>>]
        /\ old      = [p \in Paths |-> <<>>]
        /\ written  = [p \in Paths |-> <<>>]
        /\ count = 0 /\ shut = FALSE

Goto(t, label) == pc' = [pc EXCEPT ![t] = label]

(* Definitions whose name begins with Bug_ are not the code: each is a     *)
(* plausible mistake in the definition that follows it, and a property of  *)
(* this module must fail when it takes that definition's place.            *)

-----------------------------------------------------------------------------
(* Entering and leaving. *)

Begin(t, o) == /\ pc[t] = "idle"
               /\ CloseRaces \/ \A u \in Threads : pc[u] # "closing"
               /\ op' = [op EXCEPT ![t] = o]
               /\ Goto(t, "waiting")
               /\ UNCHANGED <<holder, config, disabled, file, size, disk, written>>

(* shouldLog reads the level and the module filter without the mutex: what *)
(* it answers while a thread changes the filter is anybody's guess.        *)
FilterChanging == \E u \in Threads : pc[u] = "inside" /\ op[u].name = "setFilter"
ShouldLog(l, m) == l >= config.level /\ (m \notin disabled \/ FilterChanging)

Log(t, l, m) == /\ count < MaxMessages
                /\ ShouldLog(l, m)
                /\ count' = count + 1
                /\ Begin(t, LogOp(l, m, count + 1))
                /\ UNCHANGED shut

SetLevel(t, l) == Begin(t, LevelOp(l)) /\ UNCHANGED <<count, shut>>

(* enableModule, disableModule (and the two that replace the whole filter). *)
SetFilter(t, m, off) == Begin(t, FilterOp(m, off)) /\ UNCHANGED <<count, shut>>

SetLogFile(t, p) == Begin(t, FileOp(p)) /\ shut' = FALSE /\ UNCHANGED count

SetConfig(t, l, e, p) == Begin(t, ConfigOp(l, e, p)) /\ shut' = FALSE /\ UNCHANGED count

Acquire(t) == /\ pc[t] = "waiting"
              /\ holder = None
              /\ holder' = t
              /\ Goto(t, "inside")
              /\ UNCHANGED <<op, config, disabled, file, size, disk, written, count, shut>>

Release(t) == holder' = None /\ Goto(t, "idle") /\ op' = [op EXCEPT ![t] = NoOp]
Keep(t, label) == Goto(t, label) /\ UNCHANGED <<holder, op>>

-----------------------------------------------------------------------------
(* log(), writeToFile() and rotateLogFile(). *)

CheckFile(t) == /\ pc[t] = "inside" /\ op[t].name = "log"
                /\ IF config.enable /\ file # None THEN Keep(t, "writing") ELSE Release(t)
                /\ UNCHANGED <<config, disabled, file, size, disk, written, count, shut>>

(* The stream may have been closed since the check: the line is lost, but  *)
(* its length is counted.                                                  *)
AppendTo(files, p, id) == IF p = None THEN files ELSE [files EXCEPT ![p] = Append(@, id)]

Bug_RotatesLate(n) == n > MaxSize
NeedsRotation(n) == n >= MaxSize

Write(t) == /\ pc[t] = "writing"
            /\ active'  = AppendTo(active, file, op[t].id)
            /\ written' = AppendTo(written, file, op[t].id)
            /\ size' = size + 1
            /\ IF NeedsRotation(size + 1) THEN Keep(t, "rotating") ELSE Release(t)
            /\ UNCHANGED <<config, disabled, file, old, count, shut>>

Rotate(t) == /\ pc[t] = "rotating"
             /\ IF file = None \/ ~NeedsRotation(size)
                THEN Release(t) /\ UNCHANGED file
                ELSE Keep(t, "renaming") /\ file' = None
             /\ UNCHANGED <<config, disabled, size, disk, written, count, shut>>

(* The file is copied, and appended to after the rotation. *)
Bug_CopyToOld(p) == old' = [old EXCEPT ![p] = active[p]] /\ UNCHANGED active

(* rename(path, path + ".old"): its result is ignored. *)
MoveToOld(p) == /\ old'    = [old EXCEPT ![p] = active[p]]
                /\ active' = [active EXCEPT ![p] = <<>>]

Rename(t) == /\ pc[t] = "renaming"
             /\ \/ config.path \in Openable /\ MoveToOld(config.path)
                \/ (RenameFails \/ config.path \notin Openable) /\ UNCHANGED disk
             /\ Keep(t, "reopening")
             /\ UNCHANGED <<config, disabled, file, size, written, count, shut>>

Reopen(t) == /\ pc[t] = "reopening"
             /\ file' = IF config.path \in Openable THEN config.path ELSE None
             /\ size' = 0
             /\ Release(t)
             /\ UNCHANGED <<config, disabled, disk, written, count, shut>>

-----------------------------------------------------------------------------
(* Configuration. *)

ChangeLevel(t) == /\ pc[t] = "inside" /\ op[t].name = "setLevel"
                  /\ config' = [config EXCEPT !.level = op[t].level]
                  /\ Release(t)
                  /\ UNCHANGED <<disabled, file, size, disk, written, count, shut>>

ChangeFilter(t) == /\ pc[t] = "inside" /\ op[t].name = "setFilter"
                   /\ disabled' = IF op[t].off THEN disabled \cup {op[t].module}
                                               ELSE disabled \ {op[t].module}
                   /\ Release(t)
                   /\ UNCHANGED <<config, file, size, disk, written, count, shut>>

(* closeLogFile takes the mutex, like every other operation. *)
Bug_CloseLocks(t) == holder = None /\ file' = None /\ size' = 0

(* closeLogFile, called by setLogFile with the mutex held. *)
CloseInside(t) == file' = None /\ size' = 0

StartLogFile(t) == /\ pc[t] = "inside" /\ op[t].name = "setLogFile"
                   /\ CloseInside(t)
                   /\ config' = [config EXCEPT !.enable = FALSE]
                   /\ Keep(t, "opening")
                   /\ UNCHANGED <<disabled, disk, written, count, shut>>

(* A configuration without a file leaves the stream as it is. *)
ChangeConfig(t) ==
  LET o == op[t]
  IN /\ pc[t] = "inside" /\ o.name = "setConfig"
     /\ config' = [level |-> o.level, enable |-> o.enable, path |-> o.path]
     /\ IF o.enable /\ o.path # EmptyPath
        THEN Keep(t, "opening") /\ file' = None
        ELSE Release(t) /\ UNCHANGED file
     /\ UNCHANGED <<disabled, size, disk, written, count, shut>>

(* open() for appending, and the size from tellp(), which is the largest   *)
(* size_t when setConfig's open failed.  Only setLogFile looks at is_open. *)
Bug_SizeZero(p) == 0
SizeOnDisk(p) == Len(active[p])

Bug_PathForgotten(p) == [config EXCEPT !.enable = TRUE]
EnabledOn(p) == [config EXCEPT !.enable = TRUE, !.path = p]

OpenFile(t) ==
  LET p == op[t].path
  IN /\ pc[t] = "opening"
     /\ IF p \in Openable
        THEN /\ file' = p /\ size' = SizeOnDisk(p)
             /\ config' = IF op[t].name = "setConfig" THEN config
                          ELSE EnabledOn(p)
        ELSE /\ size' = IF op[t].name = "setConfig" THEN MaxSize ELSE size
             /\ UNCHANGED <<file, config>>
     /\ Release(t)
     /\ UNCHANGED <<disabled, disk, written, count, shut>>

-----------------------------------------------------------------------------
(* closeLogFile from crkit_set_log_file(NULL): no mutex. *)

NoOneOpening == \A u \in Threads : op[u].name \notin {"setLogFile", "setConfig"}

Bug_CloseIfEnabled == file' = IF config.enable THEN None ELSE file
CloseStream == file' = None

CloseLogFile(t) == /\ pc[t] = "idle"
                   /\ CloseRaces \/ \A u \in Threads : pc[u] = "idle"
                   /\ CloseStream
                   /\ shut' = NoOneOpening
                   /\ Goto(t, "closing")
                   /\ UNCHANGED <<holder, op, config, disabled, size, disk, written, count>>

CloseReturns(t) == /\ pc[t] = "closing"
                   /\ config' = [config EXCEPT !.enable = FALSE]
                   /\ size' = 0
                   /\ Goto(t, "idle")
                   /\ UNCHANGED <<holder, op, disabled, file, disk, written, count, shut>>

-----------------------------------------------------------------------------
(* What the thread that is inside, or closing, does next. *)
Proceed(t) == \/ CheckFile(t) \/ Write(t) \/ Rotate(t) \/ Rename(t) \/ Reopen(t)
              \/ ChangeLevel(t) \/ ChangeFilter(t)
              \/ StartLogFile(t) \/ ChangeConfig(t) \/ OpenFile(t)
              \/ CloseReturns(t)

NewCall(t) == \/ \E l \in Levels, m \in Modules : Log(t, l, m)
              \/ \E l \in Levels : SetLevel(t, l)
              \/ \E m \in Modules, off \in BOOLEAN : SetFilter(t, m, off)
              \/ \E p \in Paths : SetLogFile(t, p)
              \/ \E l \in Levels, e \in BOOLEAN, p \in Paths : SetConfig(t, l, e, p)
              \/ CloseLogFile(t)

Next == \E t \in Threads : NewCall(t) \/ Acquire(t) \/ Proceed(t)

Spec == Init /\ [][Next]_vars

(* A thread that holds the mutex, or closes, keeps running. *)
FairSpec == Spec /\ \A t \in Threads : WF_vars(Proceed(t))

-----------------------------------------------------------------------------
(* Every variable holds a value the code can store in it. *)
TypeOK == /\ holder \in Threads \cup {None}
          /\ pc \in [Threads -> PCs]
          /\ config \in [level : Levels, enable : BOOLEAN, path : Paths \cup {EmptyPath}]
          /\ disabled \subseteq Modules
          /\ file \in Openable \cup {None}
          /\ size \in 0..MaxSize
          /\ active \in [Paths -> Seq(1..MaxMessages)]
          /\ old \in [Paths -> Seq(1..MaxMessages)]
          /\ written \in [Paths -> Seq(1..MaxMessages)]
          /\ count \in 0..MaxMessages
          /\ shut \in BOOLEAN

(* The file and its .old hold, in order, the last messages written to the  *)
(* path: rotation drops only what was in the .old before, and nothing is   *)
(* written twice (rotateLogFile, and every way of reopening a file).       *)
IsSuffix(s, t) == Len(s) <= Len(t) /\ s = SubSeq(t, Len(t) - Len(s) + 1, Len(t))
RetainedIsSuffix == \A p \in Paths : IsSuffix(old[p] \o active[p], written[p])

(* While nobody is in the logger, the open file is below max_file_size and *)
(* the counter that decides the next rotation is its real size.            *)
SizeIsTracked ==
  holder = None /\ file # None => size = Len(active[file]) /\ size < MaxSize

(* While nobody is in the logger, what is written goes to the path the     *)
(* configuration names (that is the path rotateLogFile renames).           *)
FileMatchesConfig ==
  holder = None /\ config.enable /\ file # None => file = config.path

(* After closeLogFile has returned, and until somebody asks for a file     *)
(* again, the log file is closed.                                          *)
ClosedStaysClosed ==
  shut /\ (\A t \in Threads : pc[t] # "closing") => file = None

(* A rotation ends with a log file open again (docs/LOGGER_SYSTEM.md: a    *)
(* new log file is created), if setConfig is never given an empty path:    *)
(* with one, rotateLogFile renames and reopens "" and the file is gone.    *)
RotationReopens ==
  [][\A t \in Threads : pc[t] = "reopening" /\ pc'[t] = "idle" => file' # None]_vars

(* The mutex is never held for ever. *)
MutexReleased == \A t \in Threads : holder = t ~> holder # t
=============================================================================
