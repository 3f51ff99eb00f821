----------------------------- MODULE LogProofs -----------------------------
(***************************************************************************)
(* Proofs about Log, for any number of processes and threads, any limits   *)
(* and any number of calls.  The bound on the file is a budget: a process  *)
(* may still add what is missing from its count to Quota.  The budget and  *)
(* the bytes in the file together never exceed a Quota per process.        *)
(***************************************************************************)
EXTENDS Log, TLAPS, FiniteSetTheorems, WellFoundedInduction

Logs ==
  [file : Paths \union {None}, path : Paths \union {None}, max_size : Nat,
   current_size : Nat, level : Nat, initialized : BOOLEAN]

Holding == {"locked", "stat", "rotate", "write"}

\* The variables have their types.
TypeOK ==
  /\ disk \in [Paths -> Nat]
  /\ g \in [Procs -> Logs]
  /\ mutex \in [Procs -> Threads \union {None}]
  /\ pc \in [Threads -> {"idle", "wait"} \union Holding]
  /\ call \in [Threads -> [op : {"init", "destroy", "flush", "log", None},
                           config : Configs \union {NoConfig}, level : Nat]]
  /\ mine \in [Procs -> Nat]
  /\ excused \in BOOLEAN

\* g_log.mutex is held by the thread that is between lock and unlock.
MutexHeld == \A t \in Threads : pc[t] \in Holding <=> mutex[ProcOf[t]] = t

\* A file is open while the log is initialized, and from fopen to fstat.
FilesOpen ==
  /\ \A p \in Procs : g[p].initialized => g[p].file \in Paths
  /\ \A p \in Procs : ~g[p].initialized => mine[p] = 0
  /\ \A t \in Threads : pc[t] = "stat" => ~G(t).initialized /\ G(t).file \in Paths
  /\ \A t \in Threads : pc[t] \in {"rotate", "write"} => G(t).initialized

CountInv == TypeOK /\ MutexHeld /\ FilesOpen /\ CountCovers

\* A line is written only below the limit.
WritesBelow ==
  /\ \A p \in Procs : g[p].max_size \in 1 .. MaxSize
  /\ \A t \in Threads : ~excused /\ pc[t] = "write" => G(t).current_size < G(t).max_size

Least(m, n) == IF m <= n THEN m ELSE n

\* The bytes of file f that a process has counted, or would count if it opened it.
Seen(p, f) ==
  IF g[p].initialized /\ g[p].file = f THEN Least(g[p].current_size, disk[f]) ELSE disk[f]

\* What the processes may still add to f, one element for each byte.
Budget(f) == {s \in Procs \X (0 .. Quota - 1) : s[2] >= Seen(s[1], f)}

WithinBudget ==
  ~excused => \A f \in Paths :
    \/ disk[f] + Cardinality(Budget(f)) <= Cardinality(Procs) * Quota
    \/ disk[f] \in FileSizes /\ Budget(f) = {}

BoundInv == CountInv /\ WritesBelow /\ WithinBudget

-----------------------------------------------------------------------------
(***************************************************************************)
(* The counts                                                              *)
(***************************************************************************)
\* What the calls of a thread are.
LEMMA CallTypes ==
  ASSUME NEW c \in Calls
  PROVE  c \in [op : {"init", "destroy", "flush", "log", None},
                config : Configs \union {NoConfig}, level : Nat]
  <1>1. CASE c \in [op : {"init"}, config : Configs, level : {0}]
    BY <1>1
  <1>2. CASE c \in [op : {"destroy", "flush"}, config : {NoConfig}, level : {0}]
    BY <1>2
  <1>3. CASE c \in [op : {"log"}, config : {NoConfig}, level : Levels]
    BY <1>3, LogConstants
  <1> QED
    BY <1>1, <1>2, <1>3 DEF Calls

\* The configuration leaves the file and its counts alone.
LEMMA ConfiguredFacts ==
  ASSUME TypeOK, NEW t \in Threads
  PROVE  /\ G(t) \in Logs /\ ProcOf[t] \in Procs
         /\ Configured(t) \in Logs
         /\ Configured(t).file = G(t).file
         /\ Configured(t).current_size = G(t).current_size
         /\ Configured(t).initialized = G(t).initialized
  <1>1. G(t) \in Logs /\ ProcOf[t] \in Procs
    BY LogConstants DEF TypeOK, G
  <1>2. call[t].config \in [path : Paths \union {None}, max_size : Nat, level : Nat]
    BY LogConstants DEF TypeOK, NoConfig
  <1> QED
    BY <1>1, <1>2, LogConstants DEF Configured, LeastLevel, Logs

\* A step of a thread that has the mutex, or gives it back, to label l.
LEMMA CallStep ==
  ASSUME CountInv, NEW t \in Threads, NEW c \in Calls, Call(t, c)
  PROVE  CountInv'
  <1>1. TypeOK'
    BY CallTypes DEF CountInv, TypeOK, Call, Goto, Holding
  <1>2. MutexHeld'
    BY DEF CountInv, TypeOK, MutexHeld, Call, Goto, Holding
  <1>3. FilesOpen' /\ CountCovers'
    BY DEF CountInv, TypeOK, FilesOpen, CountCovers, Call, Goto, G
  <1> QED BY <1>1, <1>2, <1>3 DEF CountInv

LEMMA LockStep ==
  ASSUME CountInv, NEW t \in Threads, Lock(t)
  PROVE  CountInv'
  <1>0. ProcOf[t] \in Procs /\ \A u \in Threads : ProcOf[u] \in Procs /\ u # None
    BY LogConstants
  <1>1. TypeOK'
    BY DEF CountInv, TypeOK, Lock, Goto, Holding
  <1>2. MutexHeld'
    BY <1>0 DEF CountInv, TypeOK, MutexHeld, Lock, Goto, Holding
  <1>3. FilesOpen' /\ CountCovers'
    BY DEF CountInv, TypeOK, FilesOpen, CountCovers, Lock, Goto, G
  <1> QED BY <1>1, <1>2, <1>3 DEF CountInv
\* The end of a call gives the mutex back, and no other thread has it.
LEMMA ReturnFacts ==
  ASSUME TypeOK, MutexHeld, NEW t \in Threads, pc[t] \in Holding, Return(t)
  PROVE  /\ mutex' \in [Procs -> Threads \union {None}]
         /\ pc' \in [Threads -> {"idle", "wait"} \union Holding]
         /\ call' \in [Threads -> [op : {"init", "destroy", "flush", "log", None},
                                   config : Configs \union {NoConfig}, level : Nat]]
         /\ MutexHeld'
         /\ pc'[t] = "idle" /\ \A u \in Threads : u # t => pc'[u] = pc[u]
  <1>0. ProcOf[t] \in Procs /\ \A u \in Threads : ProcOf[u] \in Procs /\ u # None
    BY LogConstants
  <1>1. MutexHeld'
    BY <1>0 DEF TypeOK, MutexHeld, Return, Goto, Unlocked, Holding
  <1>2. NoCall \in [op : {"init", "destroy", "flush", "log", None},
                    config : Configs \union {NoConfig}, level : Nat]
    BY DEF NoCall
  <1> QED
    BY <1>1, <1>2 DEF TypeOK, Return, Goto, Unlocked, Holding

\* Only one thread of a process is between lock and unlock.
LEMMA Alone ==
  ASSUME MutexHeld, NEW t \in Threads, NEW u \in Threads, ProcOf[t] = ProcOf[u],
         pc[t] \in Holding, pc[u] \in Holding
  PROVE  t = u
  BY DEF MutexHeld

\* The exits that change nothing but the lock.
LEMMA BareReturn ==
  ASSUME CountInv, NEW t \in Threads, pc[t] \in Holding, Return(t),
         UNCHANGED <<disk, g, mine, excused>>
  PROVE  CountInv'
  <1>1. TypeOK' /\ MutexHeld'
    BY ReturnFacts DEF CountInv, TypeOK
  <1>2. FilesOpen' /\ CountCovers'
    BY ReturnFacts DEF CountInv, FilesOpen, CountCovers, G
  <1> QED BY <1>1, <1>2 DEF CountInv

\* A thread that has the mutex assigns a g_log that keeps the file, the count
\* and whether it is open, and returns.
LEMMA ConfigureReturn ==
  ASSUME CountInv, NEW t \in Threads, pc[t] = "locked", Return(t),
         Set(t, Configured(t)), UNCHANGED <<disk, mine, excused>>
  PROVE  CountInv'
  <1>0. /\ TypeOK /\ MutexHeld /\ FilesOpen /\ CountCovers /\ pc[t] \in Holding
        /\ ProcOf \in [Threads -> Procs]
    BY LogConstants DEF CountInv, Holding
  <1>1. TypeOK' /\ MutexHeld'
    BY <1>0, ReturnFacts, ConfiguredFacts DEF TypeOK, Set
  <1>2. \A p \in Procs : /\ g'[p].file = g[p].file
                         /\ g'[p].current_size = g[p].current_size
                         /\ g'[p].initialized = g[p].initialized
    BY <1>0, ConfiguredFacts DEF TypeOK, Set, G
  <1>3. FilesOpen' /\ CountCovers'
    BY <1>0, <1>2, ReturnFacts DEF FilesOpen, CountCovers, G
  <1> QED BY <1>1, <1>3 DEF CountInv

\* fopen succeeds: the file is there, the log not yet initialized.
LEMMA InitOpenStep ==
  ASSUME CountInv, NEW t \in Threads, InitOpen(t)
  PROVE  CountInv'
  <1> DEFINE path == IF call[t].config.path # None THEN call[t].config.path ELSE DEFAULT_PATH
             log == [Configured(t) EXCEPT !.path = path, !.file = path]
  <1>0. /\ TypeOK /\ MutexHeld /\ FilesOpen /\ CountCovers /\ pc[t] = "locked"
        /\ pc[t] \in Holding /\ ProcOf \in [Threads -> Procs] /\ ~G(t).initialized
    BY LogConstants DEF CountInv, Holding, InitOpen
  <1>1. CASE Set(t, Configured(t)) /\ Return(t)
    BY <1>0, <1>1, ConfigureReturn DEF InitOpen
  <1>2. CASE Set(t, log) /\ Goto(t, "stat") /\ UNCHANGED <<mutex, call, calls>>
    <2>1. path \in Paths
      BY <1>0, LogConstants DEF TypeOK, NoConfig
    <2>2. /\ log \in Logs /\ log.file \in Paths
          /\ log.current_size = G(t).current_size /\ ~log.initialized
      BY <1>0, <2>1, ConfiguredFacts DEF Logs
    <2> HIDE DEF log
    <2>3. TypeOK'
      BY <1>0, <1>2, <2>2 DEF TypeOK, Set, Goto, Holding, InitOpen
    <2>4. MutexHeld'
      BY <1>0, <1>2 DEF TypeOK, MutexHeld, Goto, Holding
    <2>5. \A p \in Procs : p # ProcOf[t] => g'[p] = g[p]
      BY <1>0, <1>2 DEF TypeOK, Set
    <2>6. g'[ProcOf[t]] = log /\ ~g[ProcOf[t]].initialized
      BY <1>0, <1>2 DEF TypeOK, Set, G
    <2>7. \A u \in Threads : u # t /\ ProcOf[u] = ProcOf[t] => pc[u] \notin Holding
      BY <1>0, Alone
    <2>8. FilesOpen'
      BY <1>0, <1>2, <2>2, <2>5, <2>6, <2>7 DEF FilesOpen, G, Goto, Holding, InitOpen, TypeOK
    <2>9. CountCovers'
      BY <1>0, <1>2, <2>2, <2>5, <2>6 DEF CountCovers, InitOpen
    <2> QED BY <2>3, <2>4, <2>8, <2>9 DEF CountInv
  <1> QED
    BY <1>1, <1>2 DEF InitOpen
\* fstat, the size it gives or none: the log is open, with nothing of its own in
\* the file.
LEMMA InitStatStep ==
  ASSUME CountInv, NEW t \in Threads, InitStat(t)
  PROVE  CountInv'
  <1>0. /\ TypeOK /\ MutexHeld /\ FilesOpen /\ CountCovers /\ pc[t] = "stat"
        /\ pc[t] \in Holding /\ ProcOf \in [Threads -> Procs] /\ Return(t)
        /\ UNCHANGED <<disk, mine>> /\ excused' \in BOOLEAN
    BY LogConstants DEF CountInv, Holding, InitStat, TypeOK
  <1>1. PICK n \in Nat : Set(t, [G(t) EXCEPT !.current_size = n, !.initialized = TRUE])
    <2>1. Found(t) \in Nat
      BY <1>0 DEF TypeOK, FilesOpen, Found
    <2> QED BY <2>1 DEF InitStat
  <1> DEFINE log == [G(t) EXCEPT !.current_size = n, !.initialized = TRUE]
  <1>2. G(t) \in Logs /\ G(t) = g[ProcOf[t]]
    BY <1>0 DEF TypeOK, G
  <1>3. /\ log \in Logs /\ log.file = G(t).file /\ log.initialized
        /\ log.current_size = n
    BY <1>2 DEF Logs
  <1> HIDE DEF log
  <1>4. TypeOK' /\ MutexHeld'
    BY <1>0, <1>1, <1>3, ReturnFacts DEF TypeOK, Set, log
  <1>5. \A p \in Procs : p # ProcOf[t] => g'[p] = g[p]
    BY <1>0, <1>1 DEF TypeOK, Set
  <1>6. g'[ProcOf[t]] = log
    BY <1>0, <1>1 DEF TypeOK, Set, log
  <1>7. \A u \in Threads : u # t /\ ProcOf[u] = ProcOf[t] => pc[u] \notin Holding
    BY <1>0, Alone
  <1>8. G(t).file \in Paths /\ ~G(t).initialized /\ mine[ProcOf[t]] = 0
    BY <1>0, <1>2 DEF FilesOpen
  <1>9. FilesOpen'
    BY <1>0, <1>2, <1>3, <1>5, <1>6, <1>7, <1>8, ReturnFacts DEF FilesOpen, G, Holding
  <1>10. CountCovers'
    BY <1>0, <1>2, <1>3, <1>5, <1>6, <1>8 DEF CountCovers, TypeOK
  <1> QED BY <1>4, <1>9, <1>10 DEF CountInv

LEMMA DestroyStep ==
  ASSUME CountInv, NEW t \in Threads, Destroy(t)
  PROVE  CountInv'
  <1>0. /\ TypeOK /\ MutexHeld /\ FilesOpen /\ CountCovers /\ pc[t] = "locked"
        /\ pc[t] \in Holding /\ ProcOf \in [Threads -> Procs] /\ Return(t)
        /\ UNCHANGED <<disk, excused>>
    BY LogConstants DEF CountInv, Holding, Destroy
  <1>1. CASE ~G(t).initialized
    BY <1>0, <1>1, BareReturn DEF Destroy
  <1>2. CASE G(t).initialized
    <2> DEFINE log == [G(t) EXCEPT !.file = None, !.path = None, !.current_size = 0,
                                   !.initialized = FALSE]
    <2>1. Set(t, log) /\ mine' = [mine EXCEPT ![ProcOf[t]] = 0]
      BY <1>2 DEF Destroy
    <2>2. G(t) \in Logs
      BY <1>0 DEF TypeOK, G
    <2>3. log \in Logs /\ ~log.initialized
      BY <2>2 DEF Logs
    <2> HIDE DEF log
    <2>4. TypeOK' /\ MutexHeld'
      BY <1>0, <2>1, <2>3, ReturnFacts DEF TypeOK, Set
    <2>5. \A p \in Procs : p # ProcOf[t] => g'[p] = g[p] /\ mine'[p] = mine[p]
      BY <1>0, <2>1 DEF TypeOK, Set
    <2>6. g'[ProcOf[t]] = log /\ mine'[ProcOf[t]] = 0
      BY <1>0, <2>1 DEF TypeOK, Set
    <2>7. \A u \in Threads : u # t /\ ProcOf[u] = ProcOf[t] => pc[u] \notin Holding
      BY <1>0, Alone
    <2>8. FilesOpen'
      BY <1>0, <2>3, <2>5, <2>6, <2>7, ReturnFacts DEF FilesOpen, G, Holding
    <2>9. CountCovers'
      BY <1>0, <2>3, <2>5, <2>6 DEF CountCovers
    <2> QED BY <2>4, <2>8, <2>9 DEF CountInv
  <1> QED BY <1>1, <1>2

\* A line finds the log open, or opens the default file, in which it has nothing.
LEMMA BeginStep ==
  ASSUME CountInv, NEW t \in Threads, Begin(t)
  PROVE  CountInv'
  <1>0. /\ TypeOK /\ MutexHeld /\ FilesOpen /\ CountCovers /\ pc[t] = "locked"
        /\ pc[t] \in Holding /\ ProcOf \in [Threads -> Procs] /\ UNCHANGED disk
    BY LogConstants DEF CountInv, Holding, Begin
  <1>1. CASE ~G(t).initialized /\ Return(t) /\ UNCHANGED <<g, mine, excused>>
    BY <1>0, <1>1, BareReturn
  <1>2. CASE /\ G(t).initialized /\ Goto(t, "rotate")
             /\ UNCHANGED <<g, mine, excused, mutex, call, calls>>
    <2>1. TypeOK' /\ MutexHeld'
      BY <1>0, <1>2 DEF TypeOK, MutexHeld, Goto, Holding
    <2>2. FilesOpen' /\ CountCovers'
      BY <1>0, <1>2 DEF FilesOpen, CountCovers, Goto, G, TypeOK
    <2> QED BY <2>1, <2>2 DEF CountInv
  <1>3. CASE /\ ~G(t).initialized /\ Goto(t, "rotate") /\ excused' = TRUE
             /\ UNCHANGED <<mine, mutex, call, calls>>
             /\ \E path \in {DEFAULT_PATH, None} :
                  Set(t, [G(t) EXCEPT !.file = DEFAULT_PATH, !.path = path, !.initialized = TRUE])
    <2>1. PICK path \in {DEFAULT_PATH, None} :
            Set(t, [G(t) EXCEPT !.file = DEFAULT_PATH, !.path = path, !.initialized = TRUE])
      BY <1>3
    <2> DEFINE log == [G(t) EXCEPT !.file = DEFAULT_PATH, !.path = path, !.initialized = TRUE]
    <2>2. G(t) \in Logs /\ G(t) = g[ProcOf[t]] /\ DEFAULT_PATH \in Paths
      BY <1>0, LogConstants DEF TypeOK, G
    <2>3. log \in Logs /\ log.initialized /\ log.file \in Paths /\ log.current_size \in Nat
      BY <2>2 DEF Logs
    <2> HIDE DEF log
    <2>4. TypeOK'
      BY <1>0, <1>3, <2>1, <2>3 DEF TypeOK, Set, Goto, Holding, log
    <2>5. MutexHeld'
      BY <1>0, <1>3 DEF TypeOK, MutexHeld, Goto, Holding
    <2>6. \A p \in Procs : p # ProcOf[t] => g'[p] = g[p]
      BY <1>0, <2>1 DEF TypeOK, Set
    <2>7. g'[ProcOf[t]] = log
      BY <1>0, <2>1 DEF TypeOK, Set, log
    <2>8. \A u \in Threads : u # t /\ ProcOf[u] = ProcOf[t] => pc[u] \notin Holding
      BY <1>0, Alone
    <2>9. mine[ProcOf[t]] = 0
      BY <1>0, <1>3, <2>2 DEF FilesOpen
    <2>10. FilesOpen'
      BY <1>0, <1>3, <2>3, <2>6, <2>7, <2>8 DEF FilesOpen, G, Goto, Holding, TypeOK
    <2>11. CountCovers'
      BY <1>0, <1>3, <2>3, <2>6, <2>7, <2>9 DEF CountCovers, TypeOK
    <2> QED BY <2>4, <2>5, <2>10, <2>11 DEF CountInv
  <1> QED
    BY <1>1, <1>2, <1>3 DEF Begin
\* The file is cut: the counts of every process that has it open start anew.
LEMMA CutFacts ==
  ASSUME CountInv, NEW t \in Threads, pc[t] = "rotate",
         disk' = [disk EXCEPT ![G(t).file] = 0],
         Set(t, [G(t) EXCEPT !.current_size = 0]),
         mine' = [p \in Procs |-> IF g[p].file = G(t).file THEN 0 ELSE mine[p]]
  PROVE  /\ G(t).file \in Paths /\ disk' \in [Paths -> Nat] /\ disk'[G(t).file] = 0
         /\ \A f \in Paths : f # G(t).file => disk'[f] = disk[f]
         /\ g' \in [Procs -> Logs] /\ ProcOf[t] \in Procs
         /\ \A p \in Procs : p # ProcOf[t] => g'[p] = g[p]
         /\ \A p \in Procs : /\ g'[p].file = g[p].file /\ g'[p].max_size = g[p].max_size
                             /\ g'[p].initialized = g[p].initialized
         /\ g'[ProcOf[t]].current_size = 0
         /\ mine' \in [Procs -> Nat]
  <1>0. TypeOK /\ FilesOpen /\ ProcOf \in [Threads -> Procs]
    BY LogConstants DEF CountInv
  <1>1. G(t) \in Logs /\ G(t) = g[ProcOf[t]] /\ G(t).file \in Paths
    BY <1>0 DEF TypeOK, FilesOpen, G
  <1> DEFINE log == [G(t) EXCEPT !.current_size = 0]
  <1>2. /\ log \in Logs /\ log.file = G(t).file /\ log.max_size = G(t).max_size
        /\ log.initialized = G(t).initialized /\ log.current_size = 0
    BY <1>1 DEF Logs
  <1> HIDE DEF log
  <1>3. /\ g' \in [Procs -> Logs] /\ g'[ProcOf[t]] = log
        /\ \A p \in Procs : p # ProcOf[t] => g'[p] = g[p]
    BY <1>0, <1>2 DEF TypeOK, Set, log
  <1>4. disk' \in [Paths -> Nat] /\ mine' \in [Procs -> Nat]
    BY <1>0, <1>1 DEF TypeOK
  <1> QED
    BY <1>0, <1>1, <1>2, <1>3, <1>4 DEF TypeOK

LEMMA RotateStep ==
  ASSUME CountInv, NEW t \in Threads, Rotate(t)
  PROVE  CountInv'
  <1>0. /\ TypeOK /\ MutexHeld /\ FilesOpen /\ CountCovers /\ pc[t] = "rotate"
        /\ pc[t] \in Holding /\ ProcOf \in [Threads -> Procs]
        /\ Goto(t, "write") /\ UNCHANGED <<mutex, call, calls>>
    BY LogConstants DEF CountInv, Holding, Rotate
  <1>1. /\ mutex' \in [Procs -> Threads \union {None}]
        /\ pc' \in [Threads -> {"idle", "wait"} \union Holding]
        /\ call' = call /\ MutexHeld'
        /\ pc'[t] = "write" /\ \A u \in Threads : u # t => pc'[u] = pc[u]
    BY <1>0 DEF TypeOK, MutexHeld, Goto, Holding
  <1>2. CASE g' = g /\ excused' \in BOOLEAN /\ UNCHANGED <<disk, mine>>
    <2>1. TypeOK'
      BY <1>0, <1>1, <1>2 DEF TypeOK
    <2>2. FilesOpen' /\ CountCovers'
      BY <1>0, <1>1, <1>2 DEF FilesOpen, CountCovers, G
    <2> QED BY <1>1, <2>1, <2>2 DEF CountInv
  <1>3. CASE /\ disk' = [disk EXCEPT ![G(t).file] = 0]
             /\ Set(t, [G(t) EXCEPT !.current_size = 0])
             /\ mine' = [p \in Procs |-> IF g[p].file = G(t).file THEN 0 ELSE mine[p]]
             /\ UNCHANGED excused
    <2>1. TypeOK'
      BY <1>0, <1>1, <1>3, CutFacts DEF TypeOK
    <2>2. FilesOpen'
      BY <1>0, <1>1, <1>3, CutFacts DEF FilesOpen, G
    <2>3. ASSUME NEW p \in Procs, g'[p].initialized
          PROVE  mine'[p] <= g'[p].current_size /\ mine'[p] <= disk'[g'[p].file]
      <3>1. /\ g[p].initialized /\ g'[p].file = g[p].file /\ g[p].file \in Paths
            /\ g'[p].current_size \in Nat /\ disk'[g[p].file] \in Nat
        BY <1>0, <1>3, <2>1, <2>3, CutFacts DEF FilesOpen, TypeOK, Logs
      <3>2. CASE g[p].file = G(t).file
        BY <1>3, <3>1, <3>2
      <3>3. CASE g[p].file # G(t).file
        <4>1. p # ProcOf[t]
          BY <3>3 DEF G
        <4>2. g'[p] = g[p] /\ disk'[g[p].file] = disk[g[p].file] /\ mine'[p] = mine[p]
          BY <1>0, <1>3, <3>1, <3>3, <4>1, CutFacts
        <4> QED
          BY <1>0, <3>1, <4>2 DEF CountCovers
      <3> QED BY <3>2, <3>3
    <2> QED BY <1>1, <2>1, <2>2, <2>3 DEF CountInv, CountCovers
  <1>4. G(t) \in Logs
    BY <1>0 DEF TypeOK, G
  <1>5. Set(t, [G(t) EXCEPT !.current_size = CountAfterFailure(t)]) => g' = g
    BY <1>0, <1>4 DEF TypeOK, Set, G, CountAfterFailure, Logs
  <1> QED
    BY <1>0, <1>2, <1>3, <1>5 DEF Rotate, TypeOK

\* The thread has written a line of n bytes.
Wrote(t, n) ==
  /\ disk' = [disk EXCEPT ![G(t).file] = @ + n]
  /\ mine' = [mine EXCEPT ![ProcOf[t]] = @ + n]
  /\ Set(t, [G(t) EXCEPT !.current_size = @ + n])

\* The line is in the file and on the count of the process.
LEMMA WriteFacts ==
  ASSUME CountInv, NEW t \in Threads, pc[t] = "write", NEW n \in Nat, Wrote(t, n)
  PROVE  /\ G(t).file \in Paths /\ disk' \in [Paths -> Nat]
         /\ disk'[G(t).file] = disk[G(t).file] + n
         /\ \A f \in Paths : f # G(t).file => disk'[f] = disk[f]
         /\ g' \in [Procs -> Logs] /\ ProcOf[t] \in Procs
         /\ \A p \in Procs : p # ProcOf[t] => g'[p] = g[p] /\ mine'[p] = mine[p]
         /\ \A p \in Procs : /\ g'[p].file = g[p].file /\ g'[p].max_size = g[p].max_size
                             /\ g'[p].initialized = g[p].initialized
         /\ g'[ProcOf[t]].current_size = G(t).current_size + n
         /\ mine'[ProcOf[t]] = mine[ProcOf[t]] + n
         /\ mine' \in [Procs -> Nat]
         /\ G(t).initialized
  <1>0. TypeOK /\ FilesOpen /\ ProcOf \in [Threads -> Procs]
    BY LogConstants DEF CountInv
  <1>1. /\ G(t) \in Logs /\ G(t) = g[ProcOf[t]] /\ G(t).file \in Paths /\ G(t).initialized
        /\ ProcOf[t] \in Procs
    BY <1>0 DEF TypeOK, FilesOpen, G
  <1> DEFINE log == [G(t) EXCEPT !.current_size = @ + n]
  <1>2. /\ log \in Logs /\ log.file = G(t).file /\ log.max_size = G(t).max_size
        /\ log.initialized = G(t).initialized /\ log.current_size = G(t).current_size + n
    <2>1. G(t).current_size + n \in Nat
      BY <1>1 DEF Logs
    <2> QED BY <1>1, <2>1 DEF Logs
  <1> HIDE DEF log
  <1>3. /\ g' \in [Procs -> Logs] /\ g'[ProcOf[t]] = log
        /\ \A p \in Procs : p # ProcOf[t] => g'[p] = g[p]
    BY <1>0, <1>2 DEF TypeOK, Set, log, Wrote
  <1>4. /\ disk' \in [Paths -> Nat] /\ disk'[G(t).file] = disk[G(t).file] + n
        /\ \A f \in Paths : f # G(t).file => disk'[f] = disk[f]
    BY <1>0, <1>1 DEF TypeOK, Wrote
  <1>5. /\ mine' \in [Procs -> Nat] /\ mine'[ProcOf[t]] = mine[ProcOf[t]] + n
        /\ \A p \in Procs : p # ProcOf[t] => mine'[p] = mine[p]
    BY <1>0, <1>1 DEF TypeOK, Wrote
  <1> QED
    BY <1>1, <1>2, <1>3, <1>4, <1>5

LEMMA WriteStep ==
  ASSUME CountInv, NEW t \in Threads, Write(t)
  PROVE  CountInv'
  <1>0. /\ TypeOK /\ MutexHeld /\ FilesOpen /\ CountCovers /\ pc[t] = "write"
        /\ pc[t] \in Holding /\ ProcOf \in [Threads -> Procs] /\ Return(t)
        /\ UNCHANGED excused
    BY LogConstants DEF CountInv, Holding, Write
  <1>1. CASE UNCHANGED <<disk, mine, g>>
    BY <1>0, <1>1, BareReturn
  <1>2. ASSUME NEW n \in Lengths, Wrote(t, n)
        PROVE  CountInv'
    <2>0. n \in Nat
      BY LogConstants
    <2>1. TypeOK' /\ MutexHeld'
      BY <1>0, <1>2, <2>0, WriteFacts, ReturnFacts DEF TypeOK
    <2>2. FilesOpen'
      <3>1. \A p \in Procs : /\ g'[p].file = g[p].file
                             /\ g'[p].initialized = g[p].initialized
        BY <1>0, <1>2, <2>0, WriteFacts
      <3>2. \A p \in Procs : ~g[p].initialized => mine'[p] = mine[p]
        BY <1>0, <1>2, <2>0, WriteFacts DEF G
      <3> QED
        BY <1>0, <3>1, <3>2, ReturnFacts DEF FilesOpen, G
    <2>3. ASSUME NEW p \in Procs, g'[p].initialized
          PROVE  mine'[p] <= g'[p].current_size /\ mine'[p] <= disk'[g'[p].file]
      <3>1. /\ g[p].initialized /\ g'[p].file = g[p].file /\ g[p].file \in Paths
            /\ g[p].current_size \in Nat /\ mine[p] \in Nat
            /\ disk[g[p].file] \in Nat /\ disk'[g[p].file] \in Nat
            /\ disk'[g[p].file] >= disk[g[p].file]
            /\ mine[p] <= g[p].current_size /\ mine[p] <= disk[g[p].file]
        BY <1>0, <1>2, <2>0, <2>3, WriteFacts DEF FilesOpen, TypeOK, Logs, CountCovers
      <3>2. CASE p = ProcOf[t]
        BY <1>0, <1>2, <2>0, <3>1, <3>2, WriteFacts DEF G
      <3>3. CASE p # ProcOf[t]
        BY <1>0, <1>2, <2>0, <3>1, <3>3, WriteFacts
      <3> QED BY <3>2, <3>3
    <2> QED BY <2>1, <2>2, <2>3 DEF CountInv, CountCovers
  <1> QED
    BY <1>1, <1>2 DEF Write, Wrote

LEMMA KillStep ==
  ASSUME CountInv, NEW q \in Procs, Kill(q)
  PROVE  CountInv'
  <1>0. /\ TypeOK /\ MutexHeld /\ FilesOpen /\ CountCovers
        /\ ProcOf \in [Threads -> Procs] /\ \A t \in Threads : t # None
    BY LogConstants DEF CountInv
  <1>1. Fresh \in Logs /\ ~Fresh.initialized
    BY LogConstants DEF Fresh, Logs
  <1>2. NoCall \in [op : {"init", "destroy", "flush", "log", None},
                    config : Configs \union {NoConfig}, level : Nat]
    BY DEF NoCall
  <1>3. TypeOK'
    BY <1>0, <1>1, <1>2 DEF TypeOK, Kill, Holding
  <1>4. MutexHeld'
    BY <1>0 DEF TypeOK, MutexHeld, Kill, Holding
  <1>5. FilesOpen'
    BY <1>0, <1>1 DEF TypeOK, FilesOpen, Kill, G
  <1>6. CountCovers'
    BY <1>0, <1>1 DEF TypeOK, CountCovers, Kill
  <1> QED BY <1>3, <1>4, <1>5, <1>6 DEF CountInv

LEMMA CountInit == Init => CountInv
  <1> SUFFICES ASSUME Init PROVE CountInv
    OBVIOUS
  <1>1. Fresh \in Logs /\ ~Fresh.initialized
    BY LogConstants DEF Fresh, Logs
  <1>2. TypeOK
    BY <1>1, LogConstants DEF TypeOK, Init, Holding, NoCall
  <1>3. MutexHeld
    BY LogConstants DEF MutexHeld, Init, Holding
  <1>4. FilesOpen /\ CountCovers
    BY <1>1, LogConstants DEF FilesOpen, CountCovers, Init
  <1> QED BY <1>2, <1>3, <1>4 DEF CountInv

LEMMA CountNext == CountInv /\ [Next]_vars => CountInv'
  <1> SUFFICES ASSUME CountInv, [Next]_vars PROVE CountInv'
    OBVIOUS
  <1>1. CASE UNCHANGED vars
    BY <1>1 DEF vars, CountInv, TypeOK, MutexHeld, FilesOpen, CountCovers, G
  <1>2. ASSUME NEW t \in Threads, NEW c \in Calls, Call(t, c) PROVE CountInv'
    BY <1>2, CallStep
  <1>3. ASSUME NEW p \in Procs, Kill(p) PROVE CountInv'
    BY <1>3, KillStep
  <1>4. ASSUME NEW t \in Threads, Step(t) PROVE CountInv'
    <2>1. CASE Lock(t)
      BY <2>1, LockStep
    <2>2. CASE InitAgain(t) \/ Flush(t) \/ TooDetailed(t)
      BY <2>2, BareReturn DEF InitAgain, Flush, TooDetailed, Holding
    <2>3. CASE InitNoMemory(t)
      <3>1. pc[t] = "locked" /\ pc[t] \in Holding /\ Return(t) /\ UNCHANGED <<disk, mine, excused>>
        BY <2>3 DEF InitNoMemory, Holding
      <3> QED BY <2>3, <3>1, BareReturn, ConfigureReturn DEF InitNoMemory
    <2>4. CASE InitOpen(t)
      BY <2>4, InitOpenStep
    <2>5. CASE InitStat(t)
      BY <2>5, InitStatStep
    <2>6. CASE Destroy(t)
      BY <2>6, DestroyStep
    <2>7. CASE Begin(t)
      BY <2>7, BeginStep
    <2>8. CASE Rotate(t)
      BY <2>8, RotateStep
    <2>9. CASE Write(t)
      BY <2>9, WriteStep
    <2> QED BY <1>4, <2>1, <2>2, <2>3, <2>4, <2>5, <2>6, <2>7, <2>8, <2>9 DEF Step
  <1> QED BY <1>1, <1>2, <1>3, <1>4 DEF Next

\* A process never counts less than what it has in the file, whatever the other
\* processes append and cut and whenever they die (check_and_rotate, sqfs_log).
THEOREM CountCorrect == Spec => []CountCovers
  <1>1. Spec => []CountInv
    BY CountInit, CountNext, PTL DEF Spec
  <1> QED BY <1>1, PTL DEF CountInv
-----------------------------------------------------------------------------
(***************************************************************************)
(* The bound                                                               *)
(***************************************************************************)
\* A set of numbers has a least one.
LEMMA LeastNat ==
  ASSUME NEW T, T \subseteq Nat, T # {}
  PROVE  \E x \in T : \A y \in T : x <= y
  <1> DEFINE R == OpToRel(<, Nat)
  <1>1. IsWellFoundedOn(R, Nat)
    BY NatLessThanWellFounded
  <1>2. \A x, y \in Nat : x < y => <<x, y>> \in R
    BY DEF OpToRel
  <1> HIDE DEF R
  <1>3. PICK x \in T : \A y \in T : ~(<<y, x>> \in R)
    BY <1>1, WFMin
  <1>4. ASSUME NEW y \in T PROVE x <= y
    <2>1. x \in Nat /\ y \in Nat /\ ~(y < x)
      BY <1>2, <1>3
    <2> QED BY <2>1
  <1> QED BY <1>4

\* A finite set of numbers has a largest one: otherwise there would be none with
\* the fewest above it.
LEMMA MaxOfFinite ==
  ASSUME NEW S, S \subseteq Nat, S # {}, IsFiniteSet(S)
  PROVE  Max(S) \in S /\ \A y \in S : y <= Max(S)
  <1> SUFFICES \E x \in S : \A y \in S : x >= y
    BY DEF Max
  <1> SUFFICES ASSUME \A x \in S : \E y \in S : y > x PROVE FALSE
    OBVIOUS
  <1> DEFINE Above(x) == {y \in S : y > x}
  <1> DEFINE C == {Cardinality(Above(x)) : x \in S}
  <1>1. \A x \in S : Cardinality(Above(x)) \in Nat
    BY FS_Subset, FS_CardinalityType
  <1>2. C \subseteq Nat /\ C # {}
    BY <1>1
  <1>3. PICK x \in S : \A y \in S : Cardinality(Above(x)) <= Cardinality(Above(y))
    <2> HIDE DEF Above
    <2>1. PICK c \in C : \A d \in C : c <= d
      <3> HIDE DEF C
      <3> QED BY <1>2, LeastNat
    <2> QED BY <2>1
  <1>4. PICK y \in S : y > x
    OBVIOUS
  <1>5. x \in Nat /\ y \in Nat /\ \A z \in S : z \in Nat
    OBVIOUS
  <1>6. Above(y) \subseteq Above(x) /\ y \in Above(x) /\ y \notin Above(y)
    <2>1. ASSUME NEW z \in S, z > y PROVE z > x
      BY <1>4, <1>5, <2>1
    <2>2. ~(y > y)
      BY <1>5
    <2> QED BY <1>4, <2>1, <2>2
  <1>7. IsFiniteSet(Above(x))
    BY FS_Subset
  <1>8. Cardinality(Above(y)) < Cardinality(Above(x))
    BY <1>1, <1>6, <1>7, FS_Subset
  <1>9. /\ Cardinality(Above(x)) <= Cardinality(Above(y))
        /\ Cardinality(Above(x)) \in Nat /\ Cardinality(Above(y)) \in Nat
    BY <1>1, <1>3
  <1> HIDE DEF Above
  <1> QED BY <1>8, <1>9

\* The limits are numbers, and no limit and no line exceeds its maximum.
LEMMA QuotaFacts ==
  /\ MaxSize \in Nat \ {0} /\ DEFAULT_MAX_SIZE <= MaxSize
  /\ \A c \in Configs : c.max_size <= MaxSize
  /\ MaxLine \in Nat
  /\ \A n \in Lengths, size \in BufSizes : n < size => n <= MaxLine
  /\ Quota \in Nat
  <1> DEFINE T == {c.max_size : c \in Configs}
             S == {DEFAULT_MAX_SIZE} \union T
             L == {n \in Lengths : \E size \in BufSizes : n < size}
  <1>1. T \subseteq Nat /\ S \subseteq Nat
    BY LogConstants
  <1>2. IsFiniteSet(T)
    <2> DEFINE f == [c \in Configs |-> c.max_size]
    <2>1. f \in Surjection(Configs, T)
      BY DEF Surjection
    <2> QED BY <2>1, LogConstants, FS_Surjection
  <1>3. IsFiniteSet(S)
    BY <1>2, FS_Singleton, FS_Union
  <1>4. MaxSize \in S /\ \A y \in S : y <= MaxSize
    <2> HIDE DEF T
    <2> QED BY <1>1, <1>3, MaxOfFinite DEF MaxSize, T
  <1>5. BufSizes # {} /\ BufSizes \subseteq Nat /\ IsFiniteSet(BufSizes)
    BY LogConstants
  <1>6. Max(BufSizes) \in Nat /\ \A size \in BufSizes : size <= Max(BufSizes)
    BY <1>5, MaxOfFinite
  <1>7. L \subseteq Nat /\ L # {}
    BY LogConstants
  <1>8. \A n \in L : n <= Max(BufSizes)
    BY <1>5, <1>6, <1>7
  <1>9. IsFiniteSet(L)
    <2> HIDE DEF L
    <2> QED BY <1>6, <1>7, <1>8, FS_BoundedSetOfNaturals
  <1>10. MaxLine \in L /\ \A y \in L : y <= MaxLine
    <2> HIDE DEF L
    <2> QED BY <1>7, <1>9, MaxOfFinite DEF MaxLine, L
  <1>11. MaxSize \in Nat /\ DEFAULT_MAX_SIZE <= MaxSize /\ DEFAULT_MAX_SIZE > 0
    BY <1>1, <1>4, LogConstants
  <1>12. MaxLine \in Nat
    BY <1>7, <1>10
  <1>13. Quota \in Nat
    BY <1>11, <1>12, LogConstants DEF Quota
  <1> QED BY <1>4, <1>10, <1>11, <1>12, <1>13, LogConstants
LEMMA SeenType ==
  ASSUME TypeOK, NEW q \in Procs, NEW f \in Paths
  PROVE  Seen(q, f) \in Nat /\ Seen(q, f) <= disk[f]
  <1>1. disk[f] \in Nat /\ g[q].current_size \in Nat
    BY DEF TypeOK, Logs
  <1> QED BY <1>1 DEF Seen, Least

\* A budget is finite, and that of all processes is a Quota for each.
LEMMA BudgetSize ==
  ASSUME NEW B \in SUBSET (Procs \X (0 .. Quota - 1))
  PROVE  /\ IsFiniteSet(B) /\ Cardinality(B) \in Nat /\ Cardinality(Procs) \in Nat
         /\ Cardinality(B) <= Cardinality(Procs) * Quota
  <1>1. Quota \in Nat /\ IsFiniteSet(Procs)
    BY QuotaFacts, LogConstants
  <1>2. IsFiniteSet(0 .. Quota - 1) /\ Cardinality(0 .. Quota - 1) = Quota
    BY <1>1, FS_Interval
  <1>3. /\ IsFiniteSet(Procs \X (0 .. Quota - 1))
        /\ Cardinality(Procs \X (0 .. Quota - 1)) = Cardinality(Procs) * Quota
    BY <1>1, <1>2, FS_Product
  <1> QED
    BY <1>1, <1>3, FS_Subset, FS_CardinalityType

\* A run of n bytes of one process.
LEMMA StripSize ==
  \A q : \A m, n \in Nat : /\ IsFiniteSet({q} \X (m .. m + n - 1))
                          /\ Cardinality({q} \X (m .. m + n - 1)) = n
  <1> SUFFICES ASSUME NEW q, NEW m \in Nat, NEW n \in Nat
               PROVE  /\ IsFiniteSet({q} \X (m .. m + n - 1))
                      /\ Cardinality({q} \X (m .. m + n - 1)) = n
    OBVIOUS
  <1>1. IsFiniteSet(m .. m + n - 1) /\ Cardinality(m .. m + n - 1) = n
    BY FS_Interval
  <1>2. IsFiniteSet({q}) /\ Cardinality({q}) = 1
    BY FS_Singleton
  <1>3. /\ IsFiniteSet({q} \X (m .. m + n - 1))
        /\ Cardinality({q} \X (m .. m + n - 1)) = 1 * n
    BY <1>1, <1>2, FS_Product
  <1> QED BY <1>3

\* A set that loses n elements has n fewer.
LEMMA StripTaken ==
  ASSUME NEW B, IsFiniteSet(B), NEW X, IsFiniteSet(X), X \subseteq B,
         NEW A, A \subseteq B \ X
  PROVE  /\ IsFiniteSet(A) /\ Cardinality(A) \in Nat
         /\ Cardinality(B) \in Nat /\ Cardinality(X) \in Nat
         /\ Cardinality(A) + Cardinality(X) <= Cardinality(B)
  <1>1. B \cap X = X
    OBVIOUS
  <1>2. IsFiniteSet(B \ X) /\ Cardinality(B \ X) = Cardinality(B) - Cardinality(X)
    BY <1>1, FS_Difference
  <1>3. IsFiniteSet(A) /\ Cardinality(A) <= Cardinality(B \ X)
    BY <1>2, FS_Subset
  <1>4. Cardinality(A) \in Nat /\ Cardinality(B) \in Nat /\ Cardinality(X) \in Nat
    BY <1>3, FS_CardinalityType
  <1> QED BY <1>2, <1>3, <1>4

\* Steps that leave the files alone and by which no process comes to see less.
LEMMA BudgetKept ==
  ASSUME TypeOK, TypeOK', WithinBudget, ~excused' => ~excused, UNCHANGED disk,
         ~excused' => \A q \in Procs, f \in Paths : Seen(q, f) <= Seen(q, f)'
  PROVE  WithinBudget'
  <1> SUFFICES ASSUME ~excused', NEW f \in Paths
               PROVE  \/ disk'[f] + Cardinality(Budget(f)') <= Cardinality(Procs) * Quota
                      \/ disk'[f] \in FileSizes /\ Budget(f)' = {}
    BY DEF WithinBudget
  <1>1. \A q \in Procs : /\ Seen(q, f) \in Nat /\ Seen(q, f)' \in Nat
                         /\ Seen(q, f) <= Seen(q, f)'
    <2>1. \A q \in Procs : Seen(q, f) \in Nat
      BY SeenType
    <2>2. \A q \in Procs : g'[q].current_size \in Nat /\ disk'[f] \in Nat
      BY DEF TypeOK, Logs
    <2>3. \A q \in Procs : Seen(q, f)' \in Nat
      BY <2>2 DEF Seen, Least
    <2> QED BY <2>1, <2>3
  <1>2. Budget(f)' \subseteq Budget(f)
    <2> SUFFICES ASSUME NEW q \in Procs, NEW x \in 0 .. Quota - 1, x >= Seen(q, f)'
                 PROVE  x >= Seen(q, f)
      BY DEF Budget
    <2>1. x \in Int
      BY QuotaFacts
    <2> QED BY <1>1, <2>1
  <1>3. Budget(f) \in SUBSET (Procs \X (0 .. Quota - 1))
    BY DEF Budget
  <1>4. /\ Cardinality(Budget(f)') <= Cardinality(Budget(f))
        /\ Cardinality(Budget(f)) \in Nat /\ Cardinality(Budget(f)') \in Nat
        /\ Cardinality(Procs) * Quota \in Nat
    <2>1. IsFiniteSet(Budget(f)) /\ Cardinality(Procs) \in Nat
      BY <1>3, BudgetSize
    <2> QED BY <1>2, <2>1, QuotaFacts, FS_Subset, FS_CardinalityType
  <1>5. disk'[f] = disk[f] /\ disk[f] \in Nat
    BY DEF TypeOK
  <1>6. CASE disk[f] + Cardinality(Budget(f)) <= Cardinality(Procs) * Quota
    BY <1>4, <1>5, <1>6
  <1>7. CASE disk[f] \in FileSizes /\ Budget(f) = {}
    BY <1>2, <1>5, <1>7
  <1> QED BY <1>6, <1>7 DEF WithinBudget
\* A line takes its bytes from the budget of the process that writes it, which
\* is below its limit; the others see no less.
LEMMA BudgetSpent ==
  ASSUME CountInv, CountInv', WritesBelow, WithinBudget, NEW t \in Threads, Write(t),
         NEW n \in Lengths, Wrote(t, n), n <= MaxLine
  PROVE  WithinBudget'
  <1> SUFFICES ASSUME ~excused', NEW f \in Paths
               PROVE  \/ disk'[f] + Cardinality(Budget(f)') <= Cardinality(Procs) * Quota
                      \/ disk'[f] \in FileSizes /\ Budget(f)' = {}
    BY DEF WithinBudget
  <1>0. /\ TypeOK /\ pc[t] = "write" /\ ~excused /\ n \in Nat /\ n > 0
        /\ ProcOf[t] \in Procs
    BY LogConstants DEF CountInv, Write
  <1>1. /\ Quota \in Nat /\ MaxSize \in Nat /\ MaxLine \in Nat /\ Quota = MaxSize - 1 + MaxLine
    BY QuotaFacts DEF Quota
  <1> DEFINE w == ProcOf[t]
             m == Seen(w, f)
  <1>2. \A q \in Procs : Seen(q, f) \in Nat
    BY <1>0, SeenType
  <1>3. ASSUME NEW q \in Procs
        PROVE  /\ g[q].current_size \in Nat /\ disk[f] \in Nat /\ disk'[f] \in Nat
               /\ disk[f] <= disk'[f] /\ g'[q].current_size \in Nat
               /\ g[q].current_size <= g'[q].current_size
               /\ g'[q].file = g[q].file /\ g'[q].initialized = g[q].initialized
    <2>1. g[q] \in Logs /\ disk[f] \in Nat
      BY <1>0 DEF TypeOK
    <2>2. g'[q] \in Logs /\ disk'[f] \in Nat /\ disk[f] <= disk'[f]
      BY <1>0, <2>1, WriteFacts
    <2>3. g[q].current_size <= g'[q].current_size
      <3>1. CASE q = w
        BY <1>0, <2>1, <2>2, <3>1, WriteFacts DEF Logs, G
      <3>2. CASE q # w
        BY <1>0, <2>1, <3>2, WriteFacts DEF Logs
      <3> QED BY <3>1, <3>2
    <2> QED
      BY <1>0, <2>1, <2>2, <2>3, WriteFacts DEF Logs
  <1>4. ASSUME NEW q \in Procs
        PROVE  Seen(q, f)' \in Nat /\ Seen(q, f) <= Seen(q, f)'
    BY <1>3 DEF Seen, Least
  <1>5. Budget(f)' \subseteq Budget(f)
    <2> SUFFICES ASSUME NEW q \in Procs, NEW x \in 0 .. Quota - 1, x >= Seen(q, f)'
                 PROVE  x >= Seen(q, f)
      BY DEF Budget
    <2>1. x \in Int
      BY <1>1
    <2>2. Seen(q, f) \in Nat /\ Seen(q, f)' \in Nat /\ Seen(q, f) <= Seen(q, f)'
      BY <1>2, <1>4
    <2> QED BY <2>1, <2>2
  <1>6. /\ IsFiniteSet(Budget(f)) /\ Cardinality(Budget(f)) \in Nat
        /\ Cardinality(Procs) * Quota \in Nat
    <2>1. Budget(f) \in SUBSET (Procs \X (0 .. Quota - 1))
      BY DEF Budget
    <2> QED BY <1>1, <2>1, BudgetSize
  <1>7. CASE f # G(t).file
    <2>1. disk'[f] = disk[f] /\ disk[f] \in Nat
      BY <1>0, <1>7, WriteFacts DEF TypeOK
    <2>2. /\ Cardinality(Budget(f)') <= Cardinality(Budget(f))
          /\ Cardinality(Budget(f)') \in Nat
      BY <1>5, <1>6, FS_Subset, FS_CardinalityType
    <2>3. CASE disk[f] + Cardinality(Budget(f)) <= Cardinality(Procs) * Quota
      BY <1>6, <2>1, <2>2, <2>3
    <2>4. CASE disk[f] \in FileSizes /\ Budget(f) = {}
      BY <1>5, <2>1, <2>4
    <2> QED BY <1>0, <2>3, <2>4 DEF WithinBudget
  <1>8. CASE f = G(t).file
    <2>1. disk'[f] = disk[f] + n /\ disk[f] \in Nat
      BY <1>0, <1>8, WriteFacts DEF TypeOK
    <2>2. /\ g[w].initialized /\ g[w].file = f
          /\ g'[w].initialized /\ g'[w].file = f
          /\ g'[w].current_size = g[w].current_size + n
      BY <1>0, <1>8, WriteFacts DEF G
    <2>3. /\ g[w].current_size \in Nat /\ g[w].current_size < g[w].max_size
          /\ g[w].max_size \in 1 .. MaxSize
      BY <1>0, <1>3 DEF WritesBelow, G
    <2>4. m \in Nat /\ m + n <= Quota /\ Seen(w, f)' = m + n
      <3>1. m <= g[w].current_size /\ m \in Nat
        BY <1>0, <2>1, <2>2, <2>3 DEF Seen, Least
      <3>2. Seen(w, f)' = m + n
        BY <1>0, <2>1, <2>2, <2>3 DEF Seen, Least
      <3>3. m + n <= Quota
        BY <1>0, <1>1, <2>3, <3>1
      <3> QED BY <3>1, <3>2, <3>3
    <2> HIDE DEF m
    <2> DEFINE X == {w} \X (m .. m + n - 1)
    <2>5. IsFiniteSet(X) /\ Cardinality(X) = n
      <3>1. m \in Nat /\ n \in Nat
        BY <1>0, <2>4
      <3>2. \A i, j \in Nat : /\ IsFiniteSet({w} \X (i .. i + j - 1))
                            /\ Cardinality({w} \X (i .. i + j - 1)) = j
        BY StripSize, Zenon
      <3>3. /\ IsFiniteSet({w} \X (m .. m + n - 1))
            /\ Cardinality({w} \X (m .. m + n - 1)) = n
        BY <3>1, <3>2, Zenon
      <3> QED BY <3>3, Zenon
    <2>6. X \subseteq Budget(f)
      <3> SUFFICES ASSUME NEW x \in m .. m + n - 1
                   PROVE  x \in 0 .. Quota - 1 /\ x >= Seen(w, f)
        BY <1>0 DEF Budget
      <3> QED BY <1>0, <1>1, <2>4 DEF m
    <2>7. Budget(f)' \subseteq Budget(f) \ X
      <3> SUFFICES ASSUME NEW x \in 0 .. Quota - 1, x >= Seen(w, f)'
                   PROVE  x \notin m .. m + n - 1
        BY <1>5 DEF Budget
      <3>1. x \in Int /\ Seen(w, f)' = m + n /\ m + n \in Nat
        BY <1>0, <1>1, <2>4
      <3> QED BY <3>1, <1>0, <2>4
    <2> HIDE DEF X
    <2>8. /\ Cardinality(Budget(f)') \in Nat
          /\ Cardinality(Budget(f)') + n <= Cardinality(Budget(f))
      BY <1>6, <2>5, <2>6, <2>7, StripTaken
    <2>9. Budget(f) # {}
      <3>1. <<w, m>> \in X
        BY <1>0, <2>4 DEF X
      <3> QED BY <2>6, <3>1
    <2>10. disk[f] + Cardinality(Budget(f)) <= Cardinality(Procs) * Quota
      BY <1>0, <2>9 DEF WithinBudget
    <2> QED BY <1>0, <1>6, <2>1, <2>8, <2>10
  <1> QED BY <1>7, <1>8
\* A process that opens a file counts all of it, and one that closes its file
\* would if it came back.
LEMMA SeenKept ==
  ASSUME TypeOK, TypeOK', UNCHANGED disk, NEW q \in Procs, NEW f \in Paths,
         \/ /\ g'[q].file = g[q].file /\ g'[q].initialized = g[q].initialized
            /\ g'[q].current_size = g[q].current_size
         \/ ~g'[q].initialized
         \/ g'[q].current_size = disk[g'[q].file]
  PROVE  Seen(q, f) <= Seen(q, f)'
  <1>1. /\ disk[f] \in Nat /\ disk'[f] = disk[f] /\ g[q].current_size \in Nat
        /\ g'[q].current_size \in Nat
    BY DEF TypeOK, Logs
  <1>2. Seen(q, f) \in Nat /\ Seen(q, f) <= disk[f]
    BY SeenType
  <1>3. CASE /\ g'[q].file = g[q].file /\ g'[q].initialized = g[q].initialized
             /\ g'[q].current_size = g[q].current_size
    BY <1>1, <1>3 DEF Seen, Least
  <1>4. CASE ~g'[q].initialized \/ g'[q].current_size = disk[g'[q].file]
    <2>1. Seen(q, f)' = disk[f]
      BY <1>1, <1>4 DEF Seen, Least
    <2> QED BY <1>1, <1>2, <2>1
  <1> QED BY <1>3, <1>4

\* A step by which one thread changes the g_log that it holds, and no file.
LEMMA HolderStep ==
  ASSUME BoundInv, CountInv', NEW t \in Threads, pc[t] \in Holding, UNCHANGED disk,
         ~excused' => ~excused,
         \A u \in Threads : u # t => pc'[u] = pc[u],
         \A q \in Procs : q # ProcOf[t] => g'[q] = g[q],
         g'[ProcOf[t]].max_size \in 1 .. MaxSize,
         ~excused' /\ pc'[t] = "write"
           => g'[ProcOf[t]].current_size < g'[ProcOf[t]].max_size,
         ~excused' => \/ /\ g'[ProcOf[t]].file = G(t).file
                         /\ g'[ProcOf[t]].initialized = G(t).initialized
                         /\ g'[ProcOf[t]].current_size = G(t).current_size
                      \/ ~g'[ProcOf[t]].initialized
                      \/ g'[ProcOf[t]].current_size = disk[g'[ProcOf[t]].file]
  PROVE  BoundInv'
  <1>0. /\ CountInv /\ TypeOK /\ TypeOK' /\ MutexHeld /\ WritesBelow /\ WithinBudget
        /\ ProcOf \in [Threads -> Procs]
    BY LogConstants DEF BoundInv, CountInv
  <1>1. WritesBelow'
    <2>1. \A q \in Procs : g'[q].max_size \in 1 .. MaxSize
      BY <1>0 DEF WritesBelow
    <2>2. ASSUME NEW u \in Threads, ~excused', pc'[u] = "write"
          PROVE  g'[ProcOf[u]].current_size < g'[ProcOf[u]].max_size
      <3>1. CASE u = t
        BY <2>2, <3>1
      <3>2. CASE u # t
        <4>1. pc[u] = "write" /\ pc[u] \in Holding
          BY <2>2, <3>2 DEF Holding
        <4>2. ProcOf[u] # ProcOf[t] /\ ProcOf[u] \in Procs
          BY <1>0, <3>2, <4>1, Alone
        <4> QED BY <1>0, <2>2, <4>1, <4>2 DEF WritesBelow, G
      <3> QED BY <3>1, <3>2
    <2> QED BY <2>1, <2>2 DEF WritesBelow, G
  <1>2. ASSUME ~excused', NEW q \in Procs, NEW f \in Paths
        PROVE  Seen(q, f) <= Seen(q, f)'
    <2>1. CASE q = ProcOf[t]
      BY <1>0, <1>2, <2>1, SeenKept DEF G
    <2>2. CASE q # ProcOf[t]
      <3>1. g'[q] = g[q]
        BY <2>2
      <3> QED BY <1>0, <3>1, SeenKept
    <2> QED BY <2>1, <2>2
  <1>3. WithinBudget'
    BY <1>0, <1>2, BudgetKept
  <1> QED BY <1>1, <1>3 DEF BoundInv

\* A step that changes no g_log and no file, and starts no write.
LEMMA IdleStep ==
  ASSUME BoundInv, CountInv', UNCHANGED <<disk, g, excused>>,
         \A u \in Threads : pc'[u] = "write" => pc[u] = "write"
  PROVE  BoundInv'
  <1>0. TypeOK /\ TypeOK' /\ WritesBelow /\ WithinBudget
    BY DEF BoundInv, CountInv
  <1>1. WritesBelow'
    BY <1>0 DEF WritesBelow, G
  <1>2. ASSUME NEW q \in Procs, NEW f \in Paths PROVE Seen(q, f) <= Seen(q, f)'
    BY <1>0, SeenKept
  <1>3. WithinBudget'
    BY <1>0, <1>2, BudgetKept
  <1> QED BY <1>1, <1>3 DEF BoundInv

\* The configuration gives a limit, or leaves the one there is.
LEMMA ConfiguredLimit ==
  ASSUME BoundInv, NEW t \in Threads
  PROVE  Configured(t).max_size \in 1 .. MaxSize /\ G(t).max_size \in 1 .. MaxSize
  <1>0. TypeOK /\ WritesBelow /\ ProcOf[t] \in Procs
    BY LogConstants DEF BoundInv, CountInv
  <1>1. G(t).max_size \in 1 .. MaxSize /\ G(t) \in Logs
    BY <1>0 DEF WritesBelow, TypeOK, G
  <1>2. call[t].config.max_size > 0 => call[t].config.max_size \in 1 .. MaxSize
    <2>1. call[t].config \in Configs \union {NoConfig}
      BY <1>0 DEF TypeOK
    <2> QED BY <2>1, QuotaFacts, LogConstants DEF NoConfig
  <1>3. Configured(t).max_size =
          IF call[t].config.max_size > 0 THEN call[t].config.max_size ELSE G(t).max_size
    BY <1>1 DEF Configured, Logs
  <1> QED BY <1>1, <1>2, <1>3

LEMMA InitSteps ==
  ASSUME BoundInv, CountInv', NEW t \in Threads, InitNoMemory(t) \/ InitOpen(t)
  PROVE  BoundInv'
  <1> DEFINE path == IF call[t].config.path # None THEN call[t].config.path ELSE DEFAULT_PATH
             log == [Configured(t) EXCEPT !.path = path, !.file = path]
  <1>0. /\ TypeOK /\ MutexHeld /\ pc[t] \in Holding /\ UNCHANGED <<disk, excused>>
        /\ ~G(t).initialized /\ ProcOf \in [Threads -> Procs] /\ ProcOf[t] \in Procs
        /\ g \in [Procs -> Logs]
    BY LogConstants DEF BoundInv, CountInv, Holding, InitNoMemory, InitOpen, TypeOK
  <1>1. \/ UNCHANGED g
        \/ Set(t, Configured(t))
        \/ Set(t, log)
    BY DEF InitNoMemory, InitOpen
  <1>2. Return(t) \/ Goto(t, "stat")
    BY DEF InitNoMemory, InitOpen
  <1>3. pc'[t] # "write" /\ \A u \in Threads : u # t => pc'[u] = pc[u]
    BY <1>0, <1>2 DEF Return, Goto, TypeOK
  <1>4. /\ G(t) \in Logs /\ Configured(t) \in Logs /\ ~Configured(t).initialized
        /\ Configured(t).max_size \in 1 .. MaxSize /\ G(t).max_size \in 1 .. MaxSize
    BY <1>0, ConfiguredFacts, ConfiguredLimit
  <1>5. ~log.initialized /\ log.max_size \in 1 .. MaxSize
    BY <1>4 DEF Logs
  <1> HIDE DEF log
  <1>6. /\ \A q \in Procs : q # ProcOf[t] => g'[q] = g[q]
        /\ g'[ProcOf[t]] \in {G(t), Configured(t), log}
    BY <1>0, <1>1 DEF Set, G
  <1>7. ~g'[ProcOf[t]].initialized /\ g'[ProcOf[t]].max_size \in 1 .. MaxSize
    BY <1>0, <1>4, <1>5, <1>6
  <1> QED BY <1>0, <1>3, <1>6, <1>7, HolderStep

LEMMA StatStep ==
  ASSUME BoundInv, CountInv', NEW t \in Threads, InitStat(t)
  PROVE  BoundInv'
  <1>0. /\ TypeOK /\ FilesOpen /\ pc[t] \in Holding /\ pc[t] = "stat" /\ UNCHANGED disk
        /\ ProcOf \in [Threads -> Procs] /\ ProcOf[t] \in Procs /\ Return(t)
        /\ g \in [Procs -> Logs] /\ G(t) \in Logs
    BY LogConstants DEF BoundInv, CountInv, Holding, InitStat, TypeOK, G
  <1>1. PICK n : /\ Set(t, [G(t) EXCEPT !.current_size = n, !.initialized = TRUE])
                 /\ ~excused' => ~excused /\ n = Found(t)
    <2>1. CASE /\ Set(t, [G(t) EXCEPT !.current_size = Found(t), !.initialized = TRUE])
               /\ UNCHANGED excused
      BY <2>1
    <2>2. CASE /\ Set(t, [G(t) EXCEPT !.current_size = 0, !.initialized = TRUE])
               /\ excused' = TRUE
      BY <2>2
    <2> QED BY <2>1, <2>2 DEF InitStat
  <1>2. pc'[t] # "write" /\ \A u \in Threads : u # t => pc'[u] = pc[u]
    BY <1>0 DEF Return, Goto, TypeOK
  <1> DEFINE log == [G(t) EXCEPT !.current_size = n, !.initialized = TRUE]
  <1>3. log.file = G(t).file /\ log.max_size = G(t).max_size /\ log.current_size = n
    BY <1>0 DEF Logs
  <1> HIDE DEF log
  <1>4. (\A q \in Procs : q # ProcOf[t] => g'[q] = g[q]) /\ g'[ProcOf[t]] = log
    <2>1. Set(t, log)
      BY <1>1 DEF log
    <2> QED BY <1>0, <2>1 DEF Set
  <1>5. /\ g'[ProcOf[t]].max_size \in 1 .. MaxSize
        /\ ~excused' => g'[ProcOf[t]].current_size = disk[g'[ProcOf[t]].file]
    BY <1>1, <1>3, <1>4, ConfiguredLimit DEF Found
  <1> QED BY <1>0, <1>1, <1>2, <1>4, <1>5, HolderStep

LEMMA CloseStep ==
  ASSUME BoundInv, CountInv', NEW t \in Threads, Destroy(t)
  PROVE  BoundInv'
  <1>0. /\ TypeOK /\ pc[t] \in Holding /\ UNCHANGED <<disk, excused>>
        /\ ProcOf \in [Threads -> Procs] /\ ProcOf[t] \in Procs /\ Return(t)
        /\ g \in [Procs -> Logs] /\ G(t) \in Logs
    BY LogConstants DEF BoundInv, CountInv, Holding, Destroy, TypeOK, G
  <1> DEFINE log == [G(t) EXCEPT !.file = None, !.path = None, !.current_size = 0,
                                 !.initialized = FALSE]
  <1>1. pc'[t] # "write" /\ \A u \in Threads : u # t => pc'[u] = pc[u]
    BY <1>0 DEF Return, Goto, TypeOK
  <1>2. log.max_size = G(t).max_size /\ ~log.initialized
    BY <1>0 DEF Logs
  <1> HIDE DEF log
  <1>3. /\ \A q \in Procs : q # ProcOf[t] => g'[q] = g[q]
        /\ g'[ProcOf[t]] = log \/ (g'[ProcOf[t]] = G(t) /\ ~G(t).initialized)
    <2>1. Set(t, log) \/ (UNCHANGED g /\ ~G(t).initialized)
      <3>1. CASE G(t).initialized
        BY <3>1 DEF Destroy, log
      <3>2. CASE ~G(t).initialized
        BY <3>2 DEF Destroy
      <3> QED BY <3>1, <3>2
    <2> QED BY <1>0, <2>1 DEF Set, G
  <1>4. ~g'[ProcOf[t]].initialized /\ g'[ProcOf[t]].max_size \in 1 .. MaxSize
    BY <1>2, <1>3, ConfiguredLimit
  <1> QED BY <1>0, <1>1, <1>3, <1>4, HolderStep

LEMMA LineStep ==
  ASSUME BoundInv, CountInv', NEW t \in Threads, Begin(t)
  PROVE  BoundInv'
  <1>0. /\ TypeOK /\ pc[t] \in Holding /\ UNCHANGED disk
        /\ ProcOf \in [Threads -> Procs] /\ ProcOf[t] \in Procs
        /\ g \in [Procs -> Logs] /\ G(t) \in Logs
    BY LogConstants DEF BoundInv, CountInv, Holding, Begin, TypeOK, G
  <1>1. pc'[t] # "write" /\ \A u \in Threads : u # t => pc'[u] = pc[u]
    BY <1>0 DEF Begin, Return, Goto, TypeOK
  <1>2. CASE UNCHANGED <<g, excused>>
    <2>1. g'[ProcOf[t]] = G(t)
      BY <1>2 DEF G
    <2> QED BY <1>0, <1>1, <1>2, <2>1, ConfiguredLimit, HolderStep
  <1>3. CASE /\ excused' = TRUE
             /\ \E path \in {DEFAULT_PATH, None} :
                  Set(t, [G(t) EXCEPT !.file = DEFAULT_PATH, !.path = path, !.initialized = TRUE])
    <2>1. PICK path \in {DEFAULT_PATH, None} :
            Set(t, [G(t) EXCEPT !.file = DEFAULT_PATH, !.path = path, !.initialized = TRUE])
      BY <1>3
    <2>2. /\ \A q \in Procs : q # ProcOf[t] => g'[q] = g[q]
          /\ g'[ProcOf[t]].max_size = G(t).max_size
      BY <1>0, <2>1 DEF Set, Logs
    <2> QED BY <1>0, <1>1, <1>3, <2>2, ConfiguredLimit, HolderStep
  <1> QED BY <1>2, <1>3 DEF Begin

\* The thread has cut its file.
Cut(t) ==
  /\ disk' = [disk EXCEPT ![G(t).file] = 0]
  /\ Set(t, [G(t) EXCEPT !.current_size = 0])
  /\ mine' = [p \in Procs |-> IF g[p].file = G(t).file THEN 0 ELSE mine[p]]

\* An empty file leaves every process its whole budget; the other files are as
\* they were.
LEMMA BudgetCut ==
  ASSUME CountInv, CountInv', WithinBudget, NEW t \in Threads, pc[t] = "rotate", Cut(t),
         UNCHANGED excused
  PROVE  WithinBudget'
  <1> SUFFICES ASSUME ~excused', NEW f \in Paths
               PROVE  \/ disk'[f] + Cardinality(Budget(f)') <= Cardinality(Procs) * Quota
                      \/ disk'[f] \in FileSizes /\ Budget(f)' = {}
    BY DEF WithinBudget
  <1>0. TypeOK /\ TypeOK' /\ ~excused
    BY DEF CountInv
  <1>1. CASE f = G(t).file
    <2>1. disk'[f] = 0
      BY <1>1, CutFacts DEF Cut
    <2>2. Budget(f)' \in SUBSET (Procs \X (0 .. Quota - 1))
      BY DEF Budget
    <2>3. /\ Cardinality(Budget(f)') \in Nat
          /\ Cardinality(Budget(f)') <= Cardinality(Procs) * Quota
      BY <2>2, BudgetSize
    <2> QED BY <2>1, <2>3
  <1>2. CASE f # G(t).file
    <2>1. disk'[f] = disk[f]
      BY <1>2, CutFacts DEF Cut
    <2>2. ASSUME NEW q \in Procs PROVE Seen(q, f)' = Seen(q, f)
      <3>1. CASE q # ProcOf[t]
        <4>1. g'[q] = g[q]
          BY <3>1, CutFacts DEF Cut
        <4> QED BY <2>1, <4>1 DEF Seen
      <3>2. CASE q = ProcOf[t]
        <4>1. g[q].file # f /\ g'[q].file # f
          BY <1>2, <3>2, CutFacts DEF Cut, G
        <4> QED BY <2>1, <4>1 DEF Seen
      <3> QED BY <3>1, <3>2
    <2>3. Budget(f)' = Budget(f)
      BY <2>2 DEF Budget
    <2> QED BY <1>0, <2>1, <2>3 DEF WithinBudget
  <1> QED BY <1>1, <1>2

LEMMA CheckStep ==
  ASSUME BoundInv, CountInv', NEW t \in Threads, Rotate(t)
  PROVE  BoundInv'
  <1>0. /\ CountInv /\ TypeOK /\ MutexHeld /\ WritesBelow /\ WithinBudget
        /\ pc[t] = "rotate" /\ pc[t] \in Holding
        /\ ProcOf \in [Threads -> Procs] /\ ProcOf[t] \in Procs
        /\ g \in [Procs -> Logs] /\ G(t) \in Logs /\ G(t) = g[ProcOf[t]]
        /\ Goto(t, "write")
    BY LogConstants DEF BoundInv, CountInv, Holding, Rotate, TypeOK, G
  <1>1. \A u \in Threads : u # t => pc'[u] = pc[u]
    BY <1>0 DEF Goto, TypeOK
  <1>2. G(t).max_size \in 1 .. MaxSize /\ MaxSize \in Nat
    BY ConfiguredLimit, QuotaFacts
  <1>3. CASE ~Full(t) /\ UNCHANGED <<disk, g, mine, excused>>
    <2>1. g'[ProcOf[t]] = G(t) /\ G(t).current_size < G(t).max_size
      BY <1>0, <1>2, <1>3 DEF Full, Logs
    <2> QED BY <1>0, <1>1, <1>2, <1>3, <2>1, HolderStep
  <1>4. CASE /\ Full(t) /\ excused' = TRUE /\ UNCHANGED <<disk, mine>>
             /\ Set(t, [G(t) EXCEPT !.current_size = CountAfterFailure(t)])
    <2>1. g' = g
      BY <1>0, <1>4 DEF Set, G, CountAfterFailure, Logs
    <2> QED BY <1>0, <1>1, <1>2, <1>4, <2>1, HolderStep
  <1>5. CASE Full(t) /\ Cut(t) /\ UNCHANGED excused
    <2>1. WithinBudget'
      BY <1>0, <1>5, BudgetCut
    <2>2. /\ \A q \in Procs : q # ProcOf[t] => g'[q] = g[q]
          /\ \A q \in Procs : g'[q].max_size = g[q].max_size
          /\ g'[ProcOf[t]].current_size = 0
      BY <1>0, <1>5, CutFacts DEF Cut
    <2>3. ASSUME NEW u \in Threads, ~excused', pc'[u] = "write"
          PROVE  g'[ProcOf[u]].current_size < g'[ProcOf[u]].max_size
      <3>1. CASE u = t
        <4>1. g'[ProcOf[t]].max_size = G(t).max_size
          BY <1>0, <2>2
        <4> QED BY <1>2, <2>2, <3>1, <4>1
      <3>2. CASE u # t
        <4>1. pc[u] = "write" /\ pc[u] \in Holding
          BY <1>1, <2>3, <3>2 DEF Holding
        <4>2. ProcOf[u] # ProcOf[t] /\ ProcOf[u] \in Procs
          BY <1>0, <3>2, <4>1, Alone
        <4> QED BY <1>0, <1>5, <2>2, <2>3, <4>1, <4>2 DEF WritesBelow, G
      <3> QED BY <3>1, <3>2
    <2>4. WritesBelow'
      BY <1>0, <2>2, <2>3 DEF WritesBelow, G
    <2> QED BY <2>1, <2>4 DEF BoundInv
  <1> QED BY <1>3, <1>4, <1>5 DEF Rotate, Cut

LEMMA PrintStep ==
  ASSUME BoundInv, CountInv', NEW t \in Threads, Write(t)
  PROVE  BoundInv'
  <1>0. /\ CountInv /\ TypeOK /\ MutexHeld /\ WritesBelow /\ WithinBudget
        /\ pc[t] = "write" /\ pc[t] \in Holding
        /\ ProcOf \in [Threads -> Procs] /\ ProcOf[t] \in Procs
        /\ Return(t) /\ UNCHANGED excused
    BY LogConstants DEF BoundInv, CountInv, Holding, Write
  <1>1. pc'[t] # "write" /\ \A u \in Threads : u # t => pc'[u] = pc[u]
    BY <1>0 DEF Return, Goto, TypeOK
  <1>2. CASE UNCHANGED <<disk, mine, g>>
    BY <1>0, <1>1, <1>2, IdleStep
  <1>3. ASSUME NEW n \in Lengths, NEW size \in BufSizes, n < size, Wrote(t, n)
        PROVE  BoundInv'
    <2>0. n \in Nat /\ n <= MaxLine
      BY <1>3, QuotaFacts, LogConstants
    <2>1. WithinBudget'
      BY <1>0, <1>3, <2>0, BudgetSpent
    <2>2. /\ \A q \in Procs : q # ProcOf[t] => g'[q] = g[q]
          /\ \A q \in Procs : g'[q].max_size = g[q].max_size
      BY <1>0, <1>3, <2>0, WriteFacts
    <2>3. ASSUME NEW u \in Threads, ~excused', pc'[u] = "write"
          PROVE  g'[ProcOf[u]].current_size < g'[ProcOf[u]].max_size
      <3>1. u # t /\ pc[u] = "write" /\ pc[u] \in Holding
        BY <1>1, <2>3 DEF Holding
      <3>2. ProcOf[u] # ProcOf[t] /\ ProcOf[u] \in Procs
        BY <1>0, <3>1, Alone
      <3> QED BY <1>0, <2>2, <2>3, <3>1, <3>2 DEF WritesBelow, G
    <2>4. WritesBelow'
      BY <1>0, <2>2, <2>3 DEF WritesBelow, G
    <2> QED BY <2>1, <2>4 DEF BoundInv
  <1> QED BY <1>2, <1>3 DEF Write, Wrote

LEMMA DeathStep ==
  ASSUME BoundInv, CountInv', NEW p \in Procs, Kill(p)
  PROVE  BoundInv'
  <1>0. /\ TypeOK /\ TypeOK' /\ WritesBelow /\ WithinBudget
        /\ ProcOf \in [Threads -> Procs] /\ g \in [Procs -> Logs]
        /\ UNCHANGED <<disk, excused>>
    BY LogConstants DEF BoundInv, CountInv, TypeOK, Kill
  <1>1. ~Fresh.initialized /\ Fresh.max_size \in 1 .. MaxSize
    BY QuotaFacts, LogConstants DEF Fresh
  <1>2. g'[p] = Fresh /\ \A q \in Procs : q # p => g'[q] = g[q]
    BY <1>0 DEF Kill
  <1>3. WritesBelow'
    <2>1. \A u \in Threads : pc'[u] = "write" => pc[u] = "write" /\ ProcOf[u] # p
      BY DEF Kill
    <2> QED BY <1>0, <1>1, <1>2, <2>1 DEF WritesBelow, G
  <1>4. ASSUME NEW q \in Procs, NEW f \in Paths PROVE Seen(q, f) <= Seen(q, f)'
    <2>1. g'[q] = g[q] \/ ~g'[q].initialized
      BY <1>1, <1>2
    <2> QED BY <1>0, <2>1, SeenKept
  <1>5. WithinBudget'
    BY <1>0, <1>4, BudgetKept
  <1> QED BY <1>3, <1>5 DEF BoundInv

\* A file that is found is within the limits, or is larger than what any process
\* would still add to.
LEMMA BoundInit == Init => BoundInv
  <1> SUFFICES ASSUME Init PROVE BoundInv
    OBVIOUS
  <1>0. CountInv /\ TypeOK
    BY CountInit DEF CountInv
  <1>1. WritesBelow
    <2>1. Fresh.max_size \in 1 .. MaxSize
      BY QuotaFacts, LogConstants DEF Fresh
    <2> QED BY <2>1, LogConstants DEF WritesBelow, Init
  <1>2. ASSUME NEW f \in Paths
        PROVE  \/ disk[f] + Cardinality(Budget(f)) <= Cardinality(Procs) * Quota
               \/ disk[f] \in FileSizes /\ Budget(f) = {}
    <2> DEFINE d == disk[f]
    <2>1. d \in Nat /\ d \in FileSizes /\ Quota \in Nat
      BY LogConstants, QuotaFacts DEF Init
    <2>2. \A q \in Procs : Seen(q, f) = d
      BY LogConstants DEF Seen, Init, Fresh
    <2> HIDE DEF d
    <2>3. CASE d >= Quota \/ Procs = {}
      <3>1. ASSUME NEW q \in Procs, NEW x \in 0 .. Quota - 1, x >= Seen(q, f) PROVE FALSE
        BY <2>1, <2>2, <2>3, <3>1
      <3>2. Budget(f) = {}
        BY <3>1 DEF Budget
      <3> QED BY <2>1, <3>2 DEF d
    <2>4. ASSUME d < Quota, NEW q \in Procs
          PROVE  d + Cardinality(Budget(f)) <= Cardinality(Procs) * Quota
      <3> DEFINE o == 0
                 X == {q} \X (o .. o + d - 1)
                 All == Procs \X (0 .. Quota - 1)
      <3>1. IsFiniteSet(X) /\ Cardinality(X) = d
        <4>1. o \in Nat /\ d \in Nat
          BY <2>1
        <4> HIDE DEF o
        <4>2. \A i, j \in Nat : /\ IsFiniteSet({q} \X (i .. i + j - 1))
                              /\ Cardinality({q} \X (i .. i + j - 1)) = j
          BY StripSize, Zenon
        <4>3. /\ IsFiniteSet({q} \X (o .. o + d - 1))
              /\ Cardinality({q} \X (o .. o + d - 1)) = d
          BY <4>1, <4>2, Zenon
        <4> QED BY <4>3, Zenon
      <3>2. X \subseteq All
        <4>1. 0 .. 0 + d - 1 \subseteq 0 .. Quota - 1
          BY <2>1, <2>4
        <4> QED BY <4>1
      <3>3. Budget(f) \subseteq All \ X
        <4> SUFFICES ASSUME NEW x \in 0 .. Quota - 1, x >= Seen(q, f)
                     PROVE  x \notin 0 .. 0 + d - 1
          BY DEF Budget
        <4>1. x \in Int /\ Seen(q, f) = d
          BY <2>1, <2>2
        <4> QED BY <2>1, <4>1
      <3>4. IsFiniteSet(All) /\ Cardinality(All) <= Cardinality(Procs) * Quota
        BY BudgetSize
      <3>5. Cardinality(Procs) * Quota \in Nat
        BY <2>1, LogConstants, FS_CardinalityType
      <3> HIDE DEF X, All
      <3>6. /\ Cardinality(Budget(f)) \in Nat /\ Cardinality(All) \in Nat
            /\ Cardinality(Budget(f)) + d <= Cardinality(All)
        BY <3>1, <3>2, <3>3, <3>4, StripTaken
      <3> QED BY <2>1, <3>4, <3>5, <3>6
    <2>5. d >= Quota \/ d < Quota
      BY <2>1
    <2> QED BY <2>3, <2>4, <2>5 DEF d
  <1> QED BY <1>0, <1>1, <1>2 DEF BoundInv, WithinBudget

LEMMA BoundNext == BoundInv /\ [Next]_vars => BoundInv'
  <1> SUFFICES ASSUME BoundInv, [Next]_vars PROVE BoundInv'
    OBVIOUS
  <1>0. CountInv' /\ TypeOK /\ MutexHeld
    BY CountNext DEF BoundInv, CountInv
  <1>1. CASE UNCHANGED vars
    BY <1>0, <1>1, IdleStep DEF vars
  <1>2. ASSUME NEW t \in Threads, NEW c \in Calls, Call(t, c) PROVE BoundInv'
    BY <1>0, <1>2, IdleStep DEF Call, Goto, TypeOK
  <1>3. ASSUME NEW p \in Procs, Kill(p) PROVE BoundInv'
    BY <1>0, <1>3, DeathStep
  <1>4. ASSUME NEW t \in Threads, Step(t) PROVE BoundInv'
    <2>1. CASE Lock(t)
      BY <1>0, <2>1, IdleStep DEF Lock, Goto, TypeOK
    <2>2. CASE InitAgain(t) \/ Flush(t) \/ TooDetailed(t)
      BY <1>0, <2>2, IdleStep DEF InitAgain, Flush, TooDetailed, Return, Goto, TypeOK
    <2>3. CASE InitNoMemory(t) \/ InitOpen(t)
      BY <1>0, <2>3, InitSteps
    <2>4. CASE InitStat(t)
      BY <1>0, <2>4, StatStep
    <2>5. CASE Destroy(t)
      BY <1>0, <2>5, CloseStep
    <2>6. CASE Begin(t)
      BY <1>0, <2>6, LineStep
    <2>7. CASE Rotate(t)
      BY <1>0, <2>7, CheckStep
    <2>8. CASE Write(t)
      BY <1>0, <2>8, PrintStep
    <2> QED BY <1>4, <2>1, <2>2, <2>3, <2>4, <2>5, <2>6, <2>7, <2>8 DEF Step
  <1> QED BY <1>1, <1>2, <1>3, <1>4 DEF Next

\* Unless a system call failed or a file was opened without looking at its size,
\* a log that any number of processes share stays within a limit and a line for
\* each of them, or does not grow (sqfs_log_init, check_and_rotate, sqfs_log).
THEOREM BoundCorrect == Spec => []LogBounded
  <1>1. BoundInv => LogBounded
    <2> SUFFICES ASSUME BoundInv, ~excused, NEW f \in Paths
                 PROVE  disk[f] <= Cardinality(Procs) * Quota \/ disk[f] \in FileSizes
      BY DEF LogBounded
    <2>1. CASE disk[f] \in FileSizes
      BY <2>1
    <2>2. CASE disk[f] + Cardinality(Budget(f)) <= Cardinality(Procs) * Quota
      <3>1. disk[f] \in Nat
        BY DEF BoundInv, CountInv, TypeOK
      <3>2. Budget(f) \in SUBSET (Procs \X (0 .. Quota - 1))
        BY DEF Budget
      <3>3. Cardinality(Budget(f)) \in Nat /\ Cardinality(Procs) * Quota \in Nat
        BY <3>2, BudgetSize, QuotaFacts
      <3> QED BY <2>2, <3>1, <3>3
    <2> QED BY <2>1, <2>2 DEF BoundInv, WithinBudget
  <1>2. Spec => []BoundInv
    BY BoundInit, BoundNext, PTL DEF Spec
  <1> QED BY <1>1, <1>2, PTL

=============================================================================
