-------------------------------- MODULE Log --------------------------------
(***************************************************************************)
(* The log (src/core/log.c).  Every mounted image is a process of its own, *)
(* and all of them append to the same default file.  The threads of a      *)
(* process share its g_log under one mutex, which nothing extends to the   *)
(* other processes: another one may append to the file, or cut it, between *)
(* any two system calls of this one.  A process may be killed at any time  *)
(* and started again; the file stays.                                      *)
(*                                                                         *)
(* A file is its size in bytes and a line its length.                      *)
(***************************************************************************)
EXTENDS Integers, FiniteSets, FiniteSetsExt

CONSTANTS
  Threads, Procs,
  ProcOf,            \* [Threads -> Procs]
  Paths,             \* names of files
  DEFAULT_PATH,      \* SQFS_LOG_DEFAULT_PATH
  DEFAULT_MAX_SIZE,  \* SQFS_LOG_DEFAULT_MAX_SIZE
  LOG_LEVEL,         \* SQFS_LOG_LEVEL, the level that is compiled in
  Levels,
  Configs,           \* [path, max_size, level]: the arguments of sqfs_log_init
  BufSizes,          \* sizes of the line buffers of sqfs_log and sqfs_log_data
  Lengths,           \* lengths of a formatted line
  FileSizes,         \* sizes of the files that are found
  MaxCalls           \* bound: number of calls

None == "none"       \* NULL: no path, no file, no thread

ASSUME LogConstants ==
  /\ ProcOf \in [Threads -> Procs]
  /\ DEFAULT_PATH \in Paths /\ None \notin Paths \union Threads
  /\ DEFAULT_MAX_SIZE \in Nat \ {0} /\ LOG_LEVEL \in Nat /\ Levels \subseteq Nat
  /\ Configs \subseteq [path : Paths \union {None}, max_size : Nat, level : Nat]
  /\ BufSizes \subseteq Nat /\ Lengths \subseteq Nat \ {0}
  /\ \E n \in Lengths, size \in BufSizes : n < size
  /\ IsFiniteSet(Procs) /\ IsFiniteSet(Configs) /\ IsFiniteSet(BufSizes)
  /\ FileSizes \subseteq Nat /\ MaxCalls \in Nat

VARIABLES
  disk,     \* [Paths -> size]
  g,        \* g_log of each process
  mutex,    \* who holds g_log.mutex
  pc,       \* "idle", "wait", "locked", "stat", "rotate", "write", "return"
  call,     \* [op, config, level] of the call each thread is in
  calls,    \* number of calls made
  mine,     \* history: bytes in the file that came through the handle of a process
  excused   \* history: sizes are off, by a fault or an open without fstat

vars == <<disk, g, mutex, pc, call, calls, mine, excused>>

\* The static initialiser.
Fresh ==
  [file |-> None, path |-> None, max_size |-> DEFAULT_MAX_SIZE, current_size |-> 0,
   level |-> LOG_LEVEL, initialized |-> FALSE]

NoConfig == [path |-> None, max_size |-> 0, level |-> LOG_LEVEL]

NoCall == [op |-> None, config |-> NoConfig, level |-> 0]

Calls ==
  [op : {"init"}, config : Configs, level : {0}]
    \union [op : {"destroy", "flush"}, config : {NoConfig}, level : {0}]
    \union [op : {"log"}, config : {NoConfig}, level : Levels]

Init ==
  /\ disk \in [Paths -> FileSizes]
  /\ g = [p \in Procs |-> Fresh]
  /\ mutex = [p \in Procs |-> None]
  /\ pc = [t \in Threads |-> "idle"]
  /\ call = [t \in Threads |-> NoCall]
  /\ calls = 0
  /\ mine = [p \in Procs |-> 0]
  /\ excused = FALSE

G(t) == g[ProcOf[t]]

Goto(t, l) == pc' = [pc EXCEPT ![t] = l]

\* The thread's process assigns its g_log.
Set(t, log) == g' = [g EXCEPT ![ProcOf[t]] = log]

-----------------------------------------------------------------------------
\* A call enters; a line above the level that is compiled in is not one.
Call(t, c) ==
  /\ pc[t] = "idle" /\ calls < MaxCalls
  /\ c.op = "log" => c.level <= LOG_LEVEL
  /\ call' = [call EXCEPT ![t] = c]
  /\ calls' = calls + 1
  /\ Goto(t, "wait")
  /\ UNCHANGED <<disk, g, mutex, mine, excused>>

Lock(t) ==
  /\ pc[t] = "wait" /\ mutex[ProcOf[t]] = None
  /\ mutex' = [mutex EXCEPT ![ProcOf[t]] = t]
  /\ Goto(t, "locked")
  /\ UNCHANGED <<disk, g, call, calls, mine, excused>>

\* Mutant: an exit that keeps the lock.
KeepLock(t) == mutex

Unlocked(t) == [mutex EXCEPT ![ProcOf[t]] = None]

\* pthread_mutex_unlock and return, the end of every path.
Return(t) ==
  /\ Goto(t, "idle")
  /\ mutex' = Unlocked(t)
  /\ call' = [call EXCEPT ![t] = NoCall]
  /\ UNCHANGED calls

-----------------------------------------------------------------------------
(***************************************************************************)
(* sqfs_log_init                                                           *)
(***************************************************************************)
InitAgain(t) ==
  /\ pc[t] = "locked" /\ call[t].op = "init" /\ G(t).initialized
  /\ Return(t)
  /\ UNCHANGED <<disk, g, mine, excused>>

LeastLevel(a, b) == IF a <= b THEN a ELSE b

\* What the configuration sets once its path is copied.
Configured(t) ==
  LET c == call[t].config IN
  [G(t) EXCEPT !.max_size = IF c.max_size > 0 THEN c.max_size ELSE @,
               !.level = LeastLevel(c.level, LOG_LEVEL)]

\* The path cannot be copied: before the configuration is used, or after it if
\* the default is taken.
InitNoMemory(t) ==
  /\ pc[t] = "locked" /\ call[t].op = "init" /\ ~G(t).initialized
  /\ IF call[t].config.path # None THEN UNCHANGED g ELSE Set(t, Configured(t))
  /\ Return(t)
  /\ UNCHANGED <<disk, mine, excused>>

InitOpen(t) ==
  LET path == IF call[t].config.path # None THEN call[t].config.path ELSE DEFAULT_PATH
  IN
  /\ pc[t] = "locked" /\ call[t].op = "init" /\ ~G(t).initialized
  /\ \/ /\ Set(t, [Configured(t) EXCEPT !.path = path, !.file = path])
        /\ Goto(t, "stat")
        /\ UNCHANGED <<mutex, call, calls>>
     \/ /\ Set(t, Configured(t))     \* fopen fails: the path is freed
        /\ Return(t)
  /\ UNCHANGED <<disk, mine, excused>>

\* Mutant: the bytes that are there are not counted.
FromZero(t) == 0

\* The size that fstat reports.
Found(t) == disk[G(t).file]

InitStat(t) ==
  /\ pc[t] = "stat"
  /\ \/ Set(t, [G(t) EXCEPT !.current_size = Found(t), !.initialized = TRUE]) /\ UNCHANGED excused
     \/ Set(t, [G(t) EXCEPT !.current_size = 0, !.initialized = TRUE]) /\ excused' = TRUE
  /\ Return(t)
  /\ UNCHANGED <<disk, mine>>

-----------------------------------------------------------------------------
(***************************************************************************)
(* sqfs_log_destroy, sqfs_log_flush                                        *)
(***************************************************************************)
\* max_size and level stay as they are.
Destroy(t) ==
  /\ pc[t] = "locked" /\ call[t].op = "destroy"
  /\ IF G(t).initialized
       THEN /\ Set(t, [G(t) EXCEPT !.file = None, !.path = None, !.current_size = 0,
                                 !.initialized = FALSE])
            /\ mine' = [mine EXCEPT ![ProcOf[t]] = 0]
       ELSE UNCHANGED <<g, mine>>
  /\ Return(t)
  /\ UNCHANGED <<disk, excused>>

\* Lines are written as they end, so that nothing is left to flush.
Flush(t) ==
  /\ pc[t] = "locked" /\ call[t].op = "flush"
  /\ Return(t)
  /\ UNCHANGED <<disk, g, mine, excused>>

-----------------------------------------------------------------------------
(***************************************************************************)
(* sqfs_log, and sqfs_log_data, which differs in its line and its buffer   *)
(***************************************************************************)
TooDetailed(t) ==
  /\ pc[t] = "locked" /\ call[t].op = "log" /\ call[t].level > G(t).level
  /\ Return(t)
  /\ UNCHANGED <<disk, g, mine, excused>>

\* The log is open, or the default file is opened, with the counter as it is and
\* a path that may be missing; without a file the line is dropped.
Begin(t) ==
  /\ pc[t] = "locked" /\ call[t].op = "log" /\ call[t].level <= G(t).level
  /\ \/ /\ G(t).initialized
        /\ Goto(t, "rotate")
        /\ UNCHANGED <<g, mine, excused, mutex, call, calls>>
     \/ /\ ~G(t).initialized
        /\ \E path \in {DEFAULT_PATH, None} :
             Set(t, [G(t) EXCEPT !.file = DEFAULT_PATH, !.path = path, !.initialized = TRUE])
        /\ excused' = TRUE
        /\ Goto(t, "rotate")
        /\ UNCHANGED <<mine, mutex, call, calls>>
     \/ /\ ~G(t).initialized
        /\ Return(t)
        /\ UNCHANGED <<g, mine, excused>>
  /\ UNCHANGED disk

Full(t) == G(t).current_size >= G(t).max_size

\* Mutant: the counter is reset whether or not the file was cut.
ForgetCount(t) == 0

\* The counter when ftruncate fails.
CountAfterFailure(t) == G(t).current_size

\* check_and_rotate
Rotate(t) ==
  /\ pc[t] = "rotate"
  /\ \/ ~Full(t) /\ UNCHANGED <<disk, g, mine, excused>>
     \/ /\ Full(t)
        /\ disk' = [disk EXCEPT ![G(t).file] = 0]
        /\ Set(t, [G(t) EXCEPT !.current_size = 0])
        /\ mine' = [p \in Procs |-> IF g[p].file = G(t).file THEN 0 ELSE mine[p]]
        /\ UNCHANGED excused
     \/ /\ Full(t)
        /\ Set(t, [G(t) EXCEPT !.current_size = CountAfterFailure(t)])
        /\ excused' = TRUE
        /\ UNCHANGED <<disk, mine>>
  /\ Goto(t, "write")
  /\ UNCHANGED <<mutex, call, calls>>

\* The line is formatted and written.  One that does not fit the buffer is
\* dropped, and a write may fail; neither is counted.
Write(t) ==
  /\ pc[t] = "write"
  /\ \/ \E n \in Lengths, size \in BufSizes :
          /\ n < size
          /\ disk' = [disk EXCEPT ![G(t).file] = @ + n]
          /\ mine' = [mine EXCEPT ![ProcOf[t]] = @ + n]
          /\ Set(t, [G(t) EXCEPT !.current_size = @ + n])
     \/ UNCHANGED <<disk, mine, g>>
  /\ Return(t)
  /\ UNCHANGED excused

-----------------------------------------------------------------------------
\* A process is killed, or ends; one started later begins anew.
Kill(p) ==
  /\ \E t \in Threads : ProcOf[t] = p /\ (pc[t] # "idle" \/ g[p] # Fresh)
  /\ g' = [g EXCEPT ![p] = Fresh]
  /\ mutex' = [mutex EXCEPT ![p] = None]
  /\ pc' = [t \in Threads |-> IF ProcOf[t] = p THEN "idle" ELSE pc[t]]
  /\ call' = [t \in Threads |-> IF ProcOf[t] = p THEN NoCall ELSE call[t]]
  /\ mine' = [mine EXCEPT ![p] = 0]
  /\ UNCHANGED <<disk, calls, excused>>

Step(t) ==
  \/ Lock(t)
  \/ InitAgain(t) \/ InitNoMemory(t) \/ InitOpen(t) \/ InitStat(t)
  \/ Destroy(t) \/ Flush(t)
  \/ TooDetailed(t) \/ Begin(t) \/ Rotate(t) \/ Write(t)

Next ==
  \/ \E t \in Threads : Step(t) \/ \E c \in Calls : Call(t, c)
  \/ \E p \in Procs : Kill(p)

\* A thread that can go on does; the number of calls is bounded, so that the
\* mutex is not kept from a thread by others for ever.
Fairness == \A t \in Threads : WF_vars(Step(t))

Spec == Init /\ [][Next]_vars /\ Fairness

-----------------------------------------------------------------------------
MaxLine == Max({n \in Lengths : \E size \in BufSizes : n < size})
MaxSize == Max({DEFAULT_MAX_SIZE} \union {c.max_size : c \in Configs})

\* What a process can have added to the file before it cuts it.
Quota == MaxSize - 1 + MaxLine

\* Unless a system call failed or a file was opened without looking at its size,
\* a log shared by several processes stays within one limit and one line for
\* each of them, however they append, cut, die and come back, and one that was
\* found larger does not grow: the counters of sqfs_log_init and check_and_rotate
\* never lose sight of the bytes in the file.
LogBounded ==
  ~excused => \A f \in Paths :
    disk[f] <= Cardinality(Procs) * Quota \/ disk[f] \in FileSizes

\* A process never counts less than what it has in the file, so that after a
\* truncation that failed (check_and_rotate) the next line tries again, and a
\* line that another process cut off may be counted but never the reverse.
CountCovers ==
  \A p \in Procs :
    g[p].initialized => mine[p] <= g[p].current_size /\ mine[p] <= disk[g[p].file]

\* Every call returns, through whichever exit of log.c: none keeps the mutex
\* from the other workers, who log while they serve requests.
EveryLogCallReturns == \A t \in Threads : pc[t] # "idle" ~> pc[t] = "idle"

\* The same bound with no exception for a log that opens itself.
\* (The code does not keep this: README, section 6.)
LogAlwaysBounded ==
  \A f \in Paths : disk[f] <= Cardinality(Procs) * Quota \/ disk[f] \in FileSizes

=============================================================================
