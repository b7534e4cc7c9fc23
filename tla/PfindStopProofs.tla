-------------------------- MODULE PfindStopProofs --------------------------
(***************************************************************************)
(* The end of the search and its result, for every tree and every number   *)
(* of threads, when pthread_cond_wait returns only after a signal: main    *)
(* leaves its loop only when nothing is left to do or nobody is left to do *)
(* it, a search that ends with 0 has missed nothing, and the threads       *)
(* together implement the sequential search of FileSearch.                 *)
(***************************************************************************)
EXTENDS PfindProofs

NoSpurious == "spurious" \notin Faults

Unstarted == {"setup", "init", "aborted"}
Over == {"stop", "signal", "join", "exit"}

(***************************************************************************)
(* main's side: the mutex it evaluates its condition under, and its flag.  *)
(***************************************************************************)
MainHolds == mpc \in {"evaldir", "evalthreads", "stop", "signal"} => finish_mutex = MAIN
Lowered == mpc \in {"signal", "join", "exit"} => ~g_is_search
NotBorn == /\ mpc \in Unstarted => \A t \in Threads : pc[t] = "unborn"
           /\ mpc = "setup" => dir_queue = <<>>

(***************************************************************************)
(* A thread is in thread_queue exactly while it sleeps or is about to, and *)
(* the one about to sleep was queued last.                                 *)
(***************************************************************************)
IdleAsleep ==
    \A t \in Range(thread_queue) :
        \/ pc[t] \in {"prewait", "wait"}
        \/ mpc \in {"join", "exit", "crashed"} /\ pc[t] \in {"lockq", "take", "exited"}
AsleepIdle == \A t \in Threads : pc[t] \in {"prewait", "wait"} => Idle(t)
LastIdle ==
    \A t \in Threads : pc[t] = "prewait" =>
        thread_queue # <<>> /\ thread_queue[Len(thread_queue)] = t
IdleNull == \A t \in Range(thread_queue) : dir_to_handle[t] = NULL

(***************************************************************************)
(* The root is the first directory anybody takes, after the barrier.       *)
(***************************************************************************)
RootFirst ==
    mpc \notin {"setup", "aborted"} /\ ~Visited(Root) =>
        /\ dir_queue = <<Root>>
        /\ \A t \in Threads : /\ pc[t] \notin {"open", "iterate"}
                              /\ dir_to_handle[t] \notin Dirs
BarrierFirst == ~g_all_threads_ready => ~Visited(Root)
EmptyWhenIdling ==
    \A t \in Threads : pc[t] = "enqueue" /\ g_all_threads_ready => dir_queue = <<>>

(***************************************************************************)
(* The counts of the exit test, and what each of its outcomes implies.     *)
(***************************************************************************)
Dead == {t \in Threads : pc[t] = "dead"}
FailedCount == mpc # "aborted" => g_failed_threads = Cardinality(Dead)
AllOut == \A t \in Threads : Idle(t) \/ Failed(t)
Evaluated == mpc = "evalthreads" /\ AllOut => dir_queue = <<>>
Stopped == mpc \in Over => \/ \A t \in Threads : Failed(t)
                           \/ dir_queue = <<>> /\ AllOut

Inv3 == /\ MainHolds /\ Lowered /\ NotBorn
        /\ IdleAsleep /\ AsleepIdle /\ LastIdle /\ IdleNull
        /\ RootFirst /\ BarrierFirst /\ EmptyWhenIdling /\ NoIdleWhileQueued
        /\ FailedCount /\ Evaluated /\ Stopped

\* main starts in Inv3.
LEMMA Inv3Init == Init => Inv3
<1> SUFFICES ASSUME Init PROVE Inv3
  OBVIOUS
<1> USE PfindAssumption DEF Init
<1>1. MainHolds /\ Lowered /\ NotBorn
  BY DEF MainHolds, Lowered, NotBorn
<1>2. IdleAsleep /\ AsleepIdle /\ LastIdle /\ IdleNull
  BY EmptyQueue DEF IdleAsleep, AsleepIdle, LastIdle, IdleNull
<1>3. RootFirst /\ BarrierFirst /\ EmptyWhenIdling /\ NoIdleWhileQueued
  BY DEF RootFirst, BarrierFirst, EmptyWhenIdling, NoIdleWhileQueued, Unstarted, Visited,
     is_thread_queue_empty
<1>4. FailedCount
  <2>1. Dead = {}
    BY DEF Dead
  <2> QED
    BY <2>1, FS_EmptySet DEF FailedCount
<1>5. Evaluated /\ Stopped
  BY DEF Evaluated, Stopped, Over
<1> QED
  BY <1>1, <1>2, <1>3, <1>4, <1>5 DEF Inv3

\* Distinct queued threads and dead threads, counted together, make up all
\* threads: the sum at line 535 tells that nobody works.
LEMMA CountAll ==
    ASSUME Inv1, Inv3, mpc # "aborted"
    PROVE  /\ Len(thread_queue) + g_failed_threads = g_threads_num =>
                \A t \in Threads : Idle(t) \/ Failed(t)
           /\ g_failed_threads = g_threads_num => \A t \in Threads : Failed(t)
<1> DEFINE I == 1 .. Len(thread_queue)
           R == Range(thread_queue)
<1>1. /\ g_threads_num \in Nat /\ g_threads_num > 0
      /\ thread_queue \in Seq(Threads) /\ IsInjective(thread_queue)
      /\ g_failed_threads = Cardinality(Dead)
  BY PfindAssumption DEF Inv1, Inv3, TypeOK, IdleOnce, FailedCount
<1>2. IsFiniteSet(Threads) /\ Cardinality(Threads) = g_threads_num
  BY <1>1, FS_Interval DEF Threads
<1>3. /\ R \subseteq Threads /\ Dead \subseteq Threads
      /\ IsFiniteSet(R) /\ IsFiniteSet(Dead)
  BY <1>1, <1>2, FS_Subset DEF Range, Dead
<1>4. Cardinality(R) = Len(thread_queue)
  <2>1. thread_queue \in [I -> R] /\ DOMAIN thread_queue = I /\ Len(thread_queue) \in Nat
    BY <1>1 DEF Range
  <2>2. thread_queue \in Injection(I, R)
    BY <1>1, <2>1 DEF Injection
  <2>3. thread_queue \in Surjection(I, R)
    BY <2>1 DEF Surjection, Range
  <2>4. Cardinality(I) = Cardinality(R)
    BY <1>3, <2>2, <2>3, FS_Injection
  <2>5. \A n \in Nat : Cardinality(1 .. n) = n
    BY FS_Interval
  <2>6. Cardinality(I) = Len(thread_queue)
    BY <2>1, <2>5
  <2> QED
    BY <2>4, <2>6
<1>5. R \cap Dead = {}
  BY DEF Inv3, IdleAsleep, Dead
<1>6. IsFiniteSet(R \cup Dead)
      /\ Cardinality(R \cup Dead) = Len(thread_queue) + g_failed_threads
  <2>1. Cardinality(R \cap Dead) = 0
    BY <1>5, FS_EmptySet
  <2>2. Cardinality(R) \in Nat /\ Cardinality(Dead) \in Nat
    BY <1>3, FS_CardinalityType
  <2>3. IsFiniteSet(R \cup Dead)
        /\ Cardinality(R \cup Dead) = Cardinality(R) + Cardinality(Dead) - Cardinality(R \cap Dead)
    BY <1>3, FS_Union
  <2> QED
    BY <1>1, <1>4, <2>1, <2>2, <2>3
<1>7. Len(thread_queue) + g_failed_threads = g_threads_num => R \cup Dead = Threads
  BY <1>2, <1>3, <1>6, FS_Subset
<1>8. g_failed_threads = g_threads_num => Dead = Threads
  BY <1>1, <1>2, <1>3, FS_Subset
<1> QED
  BY <1>7, <1>8 DEF Dead, Idle, Failed

\* A thread that neither is idle nor becomes idle, dead or a sleeper-to-be.
LEMMA Inv3Quiet ==
    ASSUME Inv1, Inv3, NEW t \in Threads, NEW l \in ThreadPC,
           pc' = [pc EXCEPT ![t] = l],
           pc[t] \notin {"prewait", "wait", "lockq", "take", "exited", "dead"},
           l \notin {"prewait", "wait", "enqueue", "dead"},
           l \in {"open", "iterate"} => pc[t] \in {"open", "iterate"},
           UNCHANGED <<gvars, qvars, visits, g_failed_threads, finish_mutex>>,
           \/ UNCHANGED dir_to_handle
           \/ dir_to_handle' = [dir_to_handle EXCEPT ![t] = NULL],
           UNCHANGED mpc \/ mpc' = "crashed",
           mpc \notin Unstarted
    PROVE  Inv3'
<1> USE PfindAssumption DEF gvars, qvars
<1>1. /\ pc \in [Threads -> ThreadPC] /\ dir_to_handle \in [Threads -> Dirs \cup {NULL, GARBAGE}]
      /\ Range(thread_queue) \subseteq Threads
  BY DEF Inv1, TypeOK, Range
<1>2. /\ pc'[t] = l /\ \A u \in Threads \ {t} : pc'[u] = pc[u]
      /\ \A u \in Threads \ {t} : dir_to_handle'[u] = dir_to_handle[u]
      /\ dir_to_handle'[t] \in {dir_to_handle[t], NULL}
  BY <1>1
<1>3. t \notin Range(thread_queue)
  BY DEF Inv3, IdleAsleep
<1>4. \A u \in Threads : (Idle(u)' <=> Idle(u)) /\ (Failed(u)' <=> Failed(u))
  BY <1>2 DEF Idle, Failed
<1>5. (MainHolds /\ Lowered /\ NotBorn)'
  BY DEF Inv3, MainHolds, Lowered, NotBorn, Unstarted
<1>6. (IdleAsleep /\ AsleepIdle /\ LastIdle /\ IdleNull)'
  BY <1>1, <1>2, <1>3, <1>4 DEF Inv3, IdleAsleep, AsleepIdle, LastIdle, IdleNull
<1>7. (RootFirst /\ BarrierFirst /\ EmptyWhenIdling)'
  BY <1>1, <1>2 DEF Inv3, RootFirst, BarrierFirst, EmptyWhenIdling, Unstarted, Visited
<1>8. NoIdleWhileQueued'
  BY DEF Inv3, NoIdleWhileQueued, Visited, is_dir_queue_empty, is_thread_queue_empty
<1>9. FailedCount'
  <2>1. Dead' = Dead
    BY <1>2 DEF Dead
  <2> QED
    BY <2>1 DEF Inv3, FailedCount, Unstarted
<1>10. (Evaluated /\ Stopped)'
  BY <1>4 DEF Inv3, Evaluated, Stopped, AllOut, Over
<1> QED
  BY <1>5, <1>6, <1>7, <1>8, <1>9, <1>10 DEF Inv3

\* Nobody has started while main is still at its arguments.
LEMMA Running ==
    ASSUME Inv1, Inv3, NEW t \in Threads, pc[t] # "unborn"
    PROVE  mpc \notin Unstarted
  BY DEF Inv3, NotBorn

\* A thread with something to do is neither idle nor dead, so the search is
\* not over.
LEMMA Busy ==
    ASSUME Inv1, Inv3, NEW t \in Threads,
           \/ pc[t] \in {"alloc", "recheck", "enqueue", "open", "iterate", "fail"}
           \/ pc[t] = "take" /\ g_is_search /\ mpc # "crashed"
    PROVE  ~Idle(t) /\ ~Failed(t) /\ mpc \notin Over
<1>1. ~Idle(t)
  BY DEF Inv3, IdleAsleep, Idle, Lowered
<1>2. ~Failed(t)
  BY DEF Failed
<1> QED
  BY <1>1, <1>2 DEF Inv3, Stopped, AllOut

LEMMA Inv3CheckSleep ==
    ASSUME Inv1, Inv3, NEW t \in Threads, mpc # "crashed", CheckSleep(t) PROVE Inv3'
<1> USE PfindAssumption DEF gvars, qvars
<1>1. /\ pc[t] \in {"lockq", "recheck"} /\ mpc \notin Unstarted
      /\ pc' = [pc EXCEPT ![t] = IF should_thread_sleep(t) THEN "enqueue" ELSE "take"]
      /\ UNCHANGED <<gvars, qvars, dir_to_handle, visits, g_failed_threads, finish_mutex, mpc>>
  BY Running DEF CheckSleep, Goto, tvars, hvars
<1>2. pc \in [Threads -> ThreadPC] /\ Range(thread_queue) \subseteq Threads
  BY DEF Inv1, TypeOK, Range
<1>3. /\ pc'[t] \in {"enqueue", "take"} /\ \A u \in Threads \ {t} : pc'[u] = pc[u]
      /\ pc'[t] = "enqueue" => should_thread_sleep(t)
  BY <1>1, <1>2
<1>4. \A u \in Threads : (Idle(u)' <=> Idle(u)) /\ (Failed(u)' <=> Failed(u))
  BY <1>1, <1>3 DEF Idle, Failed
<1>5. (MainHolds /\ Lowered /\ NotBorn /\ NoIdleWhileQueued)'
  BY <1>1 DEF Inv3, MainHolds, Lowered, NotBorn, Unstarted, NoIdleWhileQueued, Visited,
     is_dir_queue_empty, is_thread_queue_empty
<1>6. IdleAsleep'
  <2>1. t \in Range(thread_queue) =>
           mpc \in {"join", "exit", "crashed"} /\ ~should_thread_sleep(t)
    BY <1>1 DEF Inv3, IdleAsleep, Lowered, should_thread_sleep
  <2>2. t \in Range(thread_queue) =>
           mpc' \in {"join", "exit", "crashed"} /\ pc'[t] = "take"
    BY <1>1, <1>3, <2>1
  <2> QED
    BY <1>1, <1>2, <1>3, <2>2 DEF Inv3, IdleAsleep
<1>7. (AsleepIdle /\ LastIdle /\ IdleNull)'
  BY <1>1, <1>3, <1>4 DEF Inv3, AsleepIdle, LastIdle, IdleNull
<1>8. (RootFirst /\ BarrierFirst)'
  BY <1>1, <1>3 DEF Inv3, RootFirst, BarrierFirst, Visited
<1>9. EmptyWhenIdling'
  BY <1>1, <1>3 DEF Inv3, EmptyWhenIdling, should_thread_sleep, is_dir_queue_empty
<1>10. FailedCount'
  <2>1. Dead' = Dead
    BY <1>1, <1>3 DEF Dead
  <2> QED
    BY <1>1, <2>1 DEF Inv3, FailedCount
<1>11. (Evaluated /\ Stopped)'
  BY <1>1, <1>4 DEF Inv3, Evaluated, Stopped, AllOut
<1> QED
  BY <1>5, <1>6, <1>7, <1>8, <1>9, <1>10, <1>11 DEF Inv3

\* prewait -> wait, and take -> exited once the search is over.
LEMMA Inv3SleepExit ==
    ASSUME Inv1, Inv3, NEW t \in Threads, mpc # "crashed", Sleep(t) \/ ThreadExit(t)
    PROVE  Inv3'
<1> USE PfindAssumption DEF gvars, qvars
<1>1. /\ \/ pc[t] = "prewait" /\ pc' = [pc EXCEPT ![t] = "wait"]
         \/ pc[t] = "take" /\ pc' = [pc EXCEPT ![t] = "exited"]
      /\ UNCHANGED <<gvars, qvars, dir_to_handle, visits, g_failed_threads, finish_mutex, mpc>>
  BY DEF Sleep, ThreadExit, Goto, tvars, hvars
<1>2. pc \in [Threads -> ThreadPC] /\ Range(thread_queue) \subseteq Threads
  BY DEF Inv1, TypeOK, Range
<1>3. /\ \/ pc[t] = "prewait" /\ pc'[t] = "wait"
         \/ pc[t] = "take" /\ pc'[t] = "exited"
      /\ \A u \in Threads \ {t} : pc'[u] = pc[u]
      /\ mpc \notin Unstarted
  BY <1>1, <1>2, Running
<1>4. \A u \in Threads : (Idle(u)' <=> Idle(u)) /\ (Failed(u)' <=> Failed(u))
  BY <1>1, <1>3 DEF Idle, Failed
<1>5. (MainHolds /\ Lowered /\ NotBorn /\ NoIdleWhileQueued)'
  BY <1>1, <1>3 DEF Inv3, MainHolds, Lowered, NotBorn, Unstarted, NoIdleWhileQueued, Visited,
     is_dir_queue_empty, is_thread_queue_empty
<1>6. IdleAsleep'
  BY <1>1, <1>2, <1>3 DEF Inv3, IdleAsleep
<1>7. (AsleepIdle /\ LastIdle /\ IdleNull)'
  BY <1>1, <1>3, <1>4 DEF Inv3, AsleepIdle, LastIdle, IdleNull
<1>8. (RootFirst /\ BarrierFirst /\ EmptyWhenIdling)'
  BY <1>1, <1>3 DEF Inv3, RootFirst, BarrierFirst, EmptyWhenIdling, Visited
<1>9. FailedCount'
  <2>1. Dead' = Dead
    BY <1>1, <1>3 DEF Dead
  <2> QED
    BY <1>1, <2>1 DEF Inv3, FailedCount
<1>10. (Evaluated /\ Stopped)'
  BY <1>1, <1>4 DEF Inv3, Evaluated, Stopped, AllOut
<1> QED
  BY <1>5, <1>6, <1>7, <1>8, <1>9, <1>10 DEF Inv3

LEMMA Inv3BecomeIdle == ASSUME Inv1, Inv3, NEW t \in Threads, BecomeIdle(t) PROVE Inv3'
<1> USE PfindAssumption DEF gvars
<1>1. /\ pc[t] = "enqueue" /\ finish_mutex = FREE /\ pc' = [pc EXCEPT ![t] = "prewait"]
      /\ UNCHANGED <<gvars, dir_queue, visits, g_failed_threads, finish_mutex>>
      /\ mpc' = IF mpc = "fwait" THEN "flock" ELSE mpc
  BY DEF BecomeIdle, Goto, SignalFinish, hvars
<1>2. /\ ~Idle(t) /\ ~Failed(t)
      /\ mpc \notin Over \cup Unstarted \cup {"evaldir", "evalthreads"}
  BY <1>1, Busy, Running DEF Inv3, MainHolds
<1>3. /\ pc \in [Threads -> ThreadPC] /\ thread_queue \in Seq(Threads)
      /\ dir_to_handle \in [Threads -> Dirs \cup {NULL, GARBAGE}]
  BY DEF Inv1, TypeOK
<1>4. /\ thread_queue' = Append(thread_queue, t)
      /\ dir_to_handle' = [dir_to_handle EXCEPT ![t] = NULL]
  BY <1>2 DEF BecomeIdle, Idle, is_thread_in_queue, thread_enqueue
<1>5. /\ Range(thread_queue') = Range(thread_queue) \cup {t}
      /\ Range(thread_queue) \subseteq Threads
      /\ thread_queue' # <<>> /\ thread_queue'[Len(thread_queue')] = t
  BY <1>3, <1>4, EnqueueFacts DEF Range
<1>6. /\ pc'[t] = "prewait" /\ \A u \in Threads \ {t} : pc'[u] = pc[u]
      /\ dir_to_handle'[t] = NULL
      /\ \A u \in Threads \ {t} : dir_to_handle'[u] = dir_to_handle[u]
  BY <1>1, <1>3, <1>4
<1>7. \A u \in Threads \ {t} : pc[u] \notin {"prewait", "enqueue"}
  BY <1>1 DEF Inv1, QueueOwner, Holding
<1>8. (MainHolds /\ Lowered /\ NotBorn /\ Evaluated /\ Stopped)'
  BY <1>1, <1>2 DEF Inv3, MainHolds, Lowered, NotBorn, Unstarted, Over, Evaluated, Stopped
<1>9. (IdleAsleep /\ AsleepIdle /\ IdleNull)'
  BY <1>1, <1>5, <1>6 DEF Inv3, IdleAsleep, AsleepIdle, IdleNull, Idle
<1>10. LastIdle' /\ EmptyWhenIdling'
  BY <1>5, <1>6, <1>7 DEF LastIdle, EmptyWhenIdling
<1>11. (RootFirst /\ BarrierFirst)'
  BY <1>1, <1>2, <1>6 DEF Inv3, RootFirst, BarrierFirst, Visited, Unstarted
<1>12. NoIdleWhileQueued'
  BY <1>1 DEF Inv3, NoIdleWhileQueued, BarrierFirst, EmptyWhenIdling, Visited, is_dir_queue_empty
<1>13. FailedCount'
  <2>1. Dead' = Dead
    BY <1>1, <1>6 DEF Dead
  <2> QED
    BY <1>1, <1>2, <2>1 DEF Inv3, FailedCount, Unstarted
<1> QED
  BY <1>8, <1>9, <1>10, <1>11, <1>12, <1>13 DEF Inv3

LEMMA Inv3OpenBarrier ==
    ASSUME Inv1, Inv3, NEW t \in Threads, mpc # "crashed", OpenBarrier(t) PROVE Inv3'
<1> USE PfindAssumption
<1> DEFINE u == Head(thread_queue)
<1>1. /\ pc[t] = "prewait" /\ ~g_all_threads_ready /\ Len(thread_queue) = g_threads_num
      /\ thread_queue' = Tail(thread_queue)
      /\ UNCHANGED <<g_is_search, dir_queue, dir_to_handle, visits, g_failed_threads,
                     finish_mutex, mpc>>
  BY DEF OpenBarrier, thread_dequeue, tvars, hvars
<1>2. /\ mpc \notin Unstarted /\ ~Visited(Root) /\ dir_queue = <<Root>> /\ dir_queue # <<>>
  <2>1. mpc \notin Unstarted /\ ~Visited(Root) /\ dir_queue = <<Root>>
    BY <1>1, Running DEF Inv3, BarrierFirst, RootFirst, Unstarted
  <2> QED
    BY <2>1
<1>3. ~Failed(t) /\ mpc \notin Over
  BY <1>1, <1>2 DEF Failed, Inv3, Stopped
<1>4. /\ pc \in [Threads -> ThreadPC] /\ thread_queue \in Seq(Threads)
      /\ thread_queue # <<>> /\ IsInjective(thread_queue)
      /\ g_threads_num \in Nat
  BY <1>1 DEF Inv1, TypeOK, IdleOnce, Inv3, LastIdle
<1>5. /\ u \in Threads /\ u \in Range(thread_queue)
      /\ Range(thread_queue') = Range(thread_queue) \ {u}
      /\ Range(thread_queue) \subseteq Threads
  BY <1>1, <1>4, DequeueFacts, RangeType
<1>6. \A v \in Threads \ {t} : pc[v] \notin {"prewait", "enqueue"}
  BY <1>1 DEF Inv1, QueueOwner, Holding
<1>7. /\ pc'[u] \in {"lockq", "recheck"}
      /\ \A v \in Threads \ {u} : pc'[v] = pc[v] \/ (v = t /\ pc'[v] = "wait")
      /\ u # t => pc'[t] = "wait"
  <2>1. CASE g_threads_num # 1
    <3>1. u # t
      <4>1. thread_queue[Len(thread_queue)] = t /\ u = thread_queue[1]
        BY <1>1, <1>4 DEF Inv3, LastIdle
      <4>2. 1 \in DOMAIN thread_queue /\ Len(thread_queue) \in DOMAIN thread_queue
        BY <1>1, <1>4
      <4> QED
        BY <1>1, <1>4, <2>1, <4>1, <4>2 DEF IsInjective
    <3>2. pc[u] = "wait"
      BY <1>3, <1>5, <1>6, <3>1 DEF Inv3, IdleAsleep, Over
    <3>3. pc' = [[pc EXCEPT ![t] = "wait"] EXCEPT ![u] = "lockq"]
      BY <2>1, <3>2 DEF OpenBarrier
    <3> HIDE DEF u
    <3> QED
      BY <1>4, <1>5, <3>1, <3>3
  <2>2. CASE g_threads_num = 1
    <3>1. u = t
      BY <1>5, <2>2 DEF Threads
    <3>2. pc' = [pc EXCEPT ![t] = "recheck"]
      BY <2>2 DEF OpenBarrier, Goto
    <3> HIDE DEF u
    <3> QED
      BY <1>4, <3>1, <3>2
  <2> QED
    BY <2>1, <2>2
<1> HIDE DEF u
<1>8. ~AllOut'
  BY <1>5, <1>7 DEF AllOut, Idle, Failed
<1>9. (MainHolds /\ Lowered /\ NotBorn /\ Evaluated /\ Stopped)'
  BY <1>1, <1>2, <1>3, <1>8 DEF Inv3, MainHolds, Lowered, NotBorn, Unstarted, Evaluated, Stopped
<1>10. (IdleAsleep /\ IdleNull)'
  BY <1>1, <1>5, <1>7 DEF Inv3, IdleAsleep, IdleNull
<1>11. AsleepIdle'
  BY <1>1, <1>5, <1>7 DEF Inv3, AsleepIdle, Idle
<1>12. LastIdle' /\ EmptyWhenIdling'
  BY <1>1, <1>6, <1>7 DEF LastIdle, EmptyWhenIdling
<1>13. (RootFirst /\ BarrierFirst)'
  BY <1>1, <1>2, <1>7 DEF Inv3, RootFirst, BarrierFirst, Visited
<1>14. NoIdleWhileQueued'
  BY <1>1, <1>2 DEF NoIdleWhileQueued, Visited
<1>15. FailedCount'
  <2>1. Dead' = Dead
    BY <1>1, <1>3, <1>5, <1>7 DEF Dead, Inv3, IdleAsleep
  <2> QED
    BY <1>1, <2>1 DEF Inv3, FailedCount
<1> QED
  BY <1>9, <1>10, <1>11, <1>12, <1>13, <1>14, <1>15 DEF Inv3

LEMMA Inv3TakeDir ==
    ASSUME Inv1, Inv3, NEW t \in Threads, mpc # "crashed", TakeDir(t) PROVE Inv3'
<1> USE PfindAssumption DEF gvars
<1> DEFINE d == IF dir_to_handle[t] # NULL THEN dir_to_handle[t] ELSE Head(dir_queue)
<1>1. /\ pc[t] = "take" /\ g_is_search /\ pc' = [pc EXCEPT ![t] = "open"]
      /\ UNCHANGED <<gvars, thread_queue, dir_to_handle, g_failed_threads, finish_mutex, mpc>>
      /\ visits' = [visits EXCEPT ![d] = @ + 1]
  BY DEF TakeDir, Goto, BeginDir
<1>2. /\ mpc \notin Over \cup Unstarted /\ ~Idle(t) /\ ~Failed(t)
  BY <1>1, Busy, Running
<1>3. /\ pc \in [Threads -> ThreadPC] /\ visits \in [Dirs -> Nat] /\ dir_queue \in Seq(Dirs)
      /\ dir_to_handle[t] \in Dirs \cup {NULL} /\ g_all_threads_ready
      /\ dir_to_handle[t] = NULL => dir_queue # <<>>
  BY <1>1 DEF Inv1, TypeOK, TakeReady, AllSet
<1>4. d \in Dirs
  BY <1>3, DequeueFacts
<1>5. \A e \in Dirs : Visited(e) => Visited(e)'
  BY <1>1, <1>3, <1>4 DEF Visited
<1>6. /\ Visited(Root)'
      /\ Visited(Root) /\ dir_queue' # <<>> => dir_queue # <<>>
      /\ ~Visited(Root) => dir_queue' = <<>>
  <2>1. CASE Visited(Root)
    BY <1>5, <2>1, <1>3 DEF TakeDir, dir_dequeue
  <2>2. CASE ~Visited(Root)
    <3>1. dir_queue = <<Root>> /\ dir_to_handle[t] = NULL
      BY <1>2, <1>3, <2>2 DEF Inv3, RootFirst, Unstarted
    <3>2. d = Root /\ dir_queue' = <<>>
      BY <3>1 DEF TakeDir, dir_dequeue
    <3> QED
      BY <1>1, <1>3, <2>2, <3>2 DEF Visited
  <2> QED
    BY <2>1, <2>2
<1>7. pc'[t] = "open" /\ \A u \in Threads \ {t} : pc'[u] = pc[u]
  BY <1>1, <1>3
<1>8. \A u \in Threads \ {t} : pc[u] \notin {"prewait", "enqueue"}
  BY <1>1 DEF Inv1, QueueOwner, Holding
<1>9. ~AllOut'
  BY <1>1, <1>2, <1>7 DEF AllOut, Idle, Failed
<1>10. (MainHolds /\ Lowered /\ NotBorn /\ Evaluated /\ Stopped)'
  BY <1>1, <1>2, <1>9 DEF Inv3, MainHolds, Lowered, NotBorn, Unstarted, Evaluated, Stopped
<1>11. (IdleAsleep /\ AsleepIdle /\ IdleNull)'
  BY <1>1, <1>2, <1>7 DEF Inv3, IdleAsleep, AsleepIdle, IdleNull, Idle, Range, Inv1, TypeOK
<1>12. (LastIdle /\ EmptyWhenIdling)'
  BY <1>7, <1>8 DEF LastIdle, EmptyWhenIdling
<1>13. (RootFirst /\ BarrierFirst)'
  BY <1>1, <1>3, <1>6 DEF RootFirst, BarrierFirst
<1>14. NoIdleWhileQueued'
  BY <1>1, <1>6 DEF Inv3, NoIdleWhileQueued, is_dir_queue_empty, is_thread_queue_empty
<1>15. FailedCount'
  <2>1. Dead' = Dead
    BY <1>1, <1>7 DEF Dead
  <2> QED
    BY <1>1, <2>1 DEF Inv3, FailedCount
<1> QED
  BY <1>10, <1>11, <1>12, <1>13, <1>14, <1>15 DEF Inv3

LEMMA Inv3HandOver == ASSUME Inv1, Inv3, NEW t \in Threads, mpc # "crashed", HandOver(t) PROVE Inv3'
<1> USE PfindAssumption DEF gvars
<1> DEFINE u == Head(thread_queue)
<1>1. /\ pc[t] = "iterate" /\ queue_mutex = FREE /\ thread_queue # <<>>
      /\ thread_queue' = Tail(thread_queue)
      /\ UNCHANGED <<gvars, dir_queue, visits, g_failed_threads, finish_mutex, mpc>>
      /\ pc' = IF pc[u] = "wait" THEN [pc EXCEPT ![u] = "lockq"] ELSE pc
      /\ \E d \in Dirs : dir_to_handle' = [dir_to_handle EXCEPT ![u] = d]
  BY DEF HandOver, thread_dequeue, is_thread_queue_empty, hvars
<1>2. /\ mpc \notin Over \cup Unstarted /\ ~Idle(t) /\ ~Failed(t) /\ Visited(Root)
  BY <1>1, Busy, Running DEF Inv3, RootFirst, Unstarted
<1>3. /\ pc \in [Threads -> ThreadPC] /\ thread_queue \in Seq(Threads)
      /\ IsInjective(thread_queue)
      /\ dir_to_handle \in [Threads -> Dirs \cup {NULL, GARBAGE}]
  BY DEF Inv1, TypeOK, IdleOnce
<1>4. /\ u \in Threads /\ u \in Range(thread_queue)
      /\ Range(thread_queue') = Range(thread_queue) \ {u}
      /\ Range(thread_queue) \subseteq Threads
  BY <1>1, <1>3, DequeueFacts, RangeType
<1>5. \A v \in Threads : pc[v] \notin {"prewait", "enqueue"}
  BY <1>1 DEF Inv1, QueueOwner, Holding
<1>6. pc[u] = "wait"
  BY <1>2, <1>4, <1>5 DEF Inv3, IdleAsleep, Over
<1> HIDE DEF u
<1>7. /\ pc'[u] = "lockq" /\ \A v \in Threads \ {u} : pc'[v] = pc[v]
      /\ \A v \in Threads \ {u} : dir_to_handle'[v] = dir_to_handle[v]
  BY <1>1, <1>3, <1>4, <1>6
<1>8. ~AllOut'
  BY <1>1, <1>2, <1>4, <1>6, <1>7 DEF AllOut, Idle, Failed
<1>9. (MainHolds /\ Lowered /\ NotBorn /\ Evaluated /\ Stopped)'
  BY <1>1, <1>2, <1>8 DEF Inv3, MainHolds, Lowered, NotBorn, Unstarted, Evaluated, Stopped
<1>10. (IdleAsleep /\ AsleepIdle /\ IdleNull)'
  BY <1>1, <1>4, <1>7 DEF Inv3, IdleAsleep, AsleepIdle, IdleNull, Idle
<1>11. (LastIdle /\ EmptyWhenIdling)'
  BY <1>5, <1>7 DEF LastIdle, EmptyWhenIdling
<1>12. (RootFirst /\ BarrierFirst)'
  BY <1>1, <1>2 DEF Inv3, RootFirst, BarrierFirst, Visited
<1>13. NoIdleWhileQueued'
  BY <1>1, <1>2 DEF Inv3, NoIdleWhileQueued, Visited, is_dir_queue_empty, is_thread_queue_empty
<1>14. FailedCount'
  <2>1. Dead' = Dead
    BY <1>1, <1>4, <1>6, <1>7 DEF Dead
  <2> QED
    BY <1>1, <2>1 DEF Inv3, FailedCount
<1> QED
  BY <1>9, <1>10, <1>11, <1>12, <1>13, <1>14 DEF Inv3

LEMMA Inv3QueueDir == ASSUME Inv1, Inv3, NEW t \in Threads, mpc # "crashed", QueueDir(t) PROVE Inv3'
<1> USE PfindAssumption DEF gvars
<1>1. /\ pc[t] = "iterate" /\ queue_mutex = FREE /\ thread_queue = <<>>
      /\ UNCHANGED <<gvars, thread_queue, dir_to_handle, visits, g_failed_threads,
                     finish_mutex, mpc, pc>>
  BY DEF QueueDir, is_thread_queue_empty, hvars
<1>2. /\ mpc \notin Over \cup Unstarted /\ ~Idle(t) /\ ~Failed(t) /\ Visited(Root)
  BY <1>1, Busy, Running DEF Inv3, RootFirst, Unstarted
<1>3. \A v \in Threads : pc[v] \notin {"prewait", "enqueue"}
  BY <1>1 DEF Inv1, QueueOwner, Holding
<1>4. ~AllOut'
  BY <1>1, <1>2 DEF AllOut, Idle, Failed
<1>5. (MainHolds /\ Lowered /\ NotBorn /\ Evaluated /\ Stopped)'
  BY <1>1, <1>2, <1>4 DEF Inv3, MainHolds, Lowered, NotBorn, Unstarted, Evaluated, Stopped
<1>6. (IdleAsleep /\ AsleepIdle /\ IdleNull /\ LastIdle)'
  BY <1>1 DEF Inv3, IdleAsleep, AsleepIdle, IdleNull, LastIdle, Idle
<1>7. (RootFirst /\ BarrierFirst /\ EmptyWhenIdling)'
  BY <1>1, <1>2, <1>3 DEF Inv3, RootFirst, BarrierFirst, EmptyWhenIdling, Visited
<1>8. NoIdleWhileQueued' /\ FailedCount'
  BY <1>1 DEF Inv3, NoIdleWhileQueued, is_thread_queue_empty, FailedCount, Dead
<1> QED
  BY <1>5, <1>6, <1>7, <1>8 DEF Inv3

LEMMA Inv3Failure ==
    ASSUME Inv1, Inv3, NEW t \in Threads, thread_exit_on_error(t) PROVE Inv3'
<1> USE PfindAssumption DEF gvars, qvars
<1>1. /\ pc[t] = "fail" /\ finish_mutex = FREE /\ pc' = [pc EXCEPT ![t] = "dead"]
      /\ g_failed_threads' = g_failed_threads + 1
      /\ UNCHANGED <<gvars, qvars, dir_to_handle, visits, finish_mutex>>
      /\ mpc' = IF mpc = "fwait" THEN "flock" ELSE mpc
  BY DEF thread_exit_on_error, Goto, SignalFinish, hvars, tvars
<1>2. /\ ~Idle(t) /\ ~Failed(t)
      /\ mpc \notin Over \cup Unstarted \cup {"evaldir", "evalthreads"}
  BY <1>1, Busy, Running DEF Inv3, MainHolds
<1>3. pc \in [Threads -> ThreadPC] /\ Range(thread_queue) \subseteq Threads
  BY RangeType DEF Inv1, TypeOK
<1>4. pc'[t] = "dead" /\ \A u \in Threads \ {t} : pc'[u] = pc[u]
  BY <1>1, <1>3
<1>5. (MainHolds /\ Lowered /\ NotBorn /\ Evaluated /\ Stopped)'
  BY <1>1, <1>2 DEF Inv3, MainHolds, Lowered, NotBorn, Unstarted, Over, Evaluated, Stopped
<1>6. (IdleAsleep /\ AsleepIdle /\ LastIdle /\ IdleNull)'
  BY <1>1, <1>2, <1>3, <1>4 DEF Inv3, IdleAsleep, AsleepIdle, LastIdle, IdleNull, Idle
<1>7. (RootFirst /\ BarrierFirst /\ EmptyWhenIdling /\ NoIdleWhileQueued)'
  BY <1>1, <1>2, <1>4 DEF Inv3, RootFirst, BarrierFirst, EmptyWhenIdling, NoIdleWhileQueued,
     Visited, Unstarted, is_dir_queue_empty, is_thread_queue_empty
<1>8. FailedCount'
  <2>1. Dead' = Dead \cup {t} /\ t \notin Dead /\ Dead \subseteq Threads
    BY <1>1, <1>4 DEF Dead
  <2>2. IsFiniteSet(Threads)
    BY FS_Interval DEF Threads
  <2>3. IsFiniteSet(Dead)
    BY <2>1, <2>2, FS_Subset
  <2>4. Cardinality(Dead') = Cardinality(Dead) + 1
    BY <2>1, <2>3, FS_AddElement
  <2> QED
    BY <1>1, <1>2, <2>4 DEF Inv3, FailedCount, Unstarted
<1> QED
  BY <1>5, <1>6, <1>7, <1>8 DEF Inv3

\* The steps of main that move no thread past the start gate.
LEMMA Inv3MainQuiet ==
    ASSUME Inv1, Inv3, mpc \notin Unstarted, mpc' \notin Unstarted,
           mpc \in {"join", "exit", "crashed"} => mpc' \in {"join", "exit", "crashed"},
           UNCHANGED <<g_all_threads_ready, qvars, dir_to_handle, visits, g_failed_threads>>,
           \A u \in Threads : pc'[u] = pc[u] \/ (pc[u] \in Waiting /\ pc'[u] \in Waiting),
           MainHolds', Lowered', Evaluated', Stopped'
    PROVE  Inv3'
<1> USE DEF qvars
<1>1. Range(thread_queue) \subseteq Threads
  BY RangeType DEF Inv1, TypeOK
<1>2. NotBorn' /\ NoIdleWhileQueued'
  BY DEF Inv3, NotBorn, NoIdleWhileQueued, Visited, Unstarted, is_dir_queue_empty,
     is_thread_queue_empty
<1>3. (IdleAsleep /\ AsleepIdle /\ LastIdle /\ IdleNull)'
  BY <1>1 DEF Inv3, IdleAsleep, AsleepIdle, LastIdle, IdleNull, Waiting, Idle
<1>4. (RootFirst /\ BarrierFirst /\ EmptyWhenIdling)'
  BY DEF Inv3, RootFirst, BarrierFirst, EmptyWhenIdling, Waiting, Visited, Unstarted
<1>5. FailedCount'
  <2>1. Dead' = Dead
    BY DEF Dead, Waiting
  <2> QED
    BY <2>1 DEF Inv3, FailedCount, Unstarted
<1> QED
  BY <1>2, <1>3, <1>4, <1>5 DEF Inv3

LEMMA Inv3MainSetup == ASSUME Inv1, Inv2, Inv3, MainSetup PROVE Inv3'
<1> USE PfindAssumption DEF gvars
<1>1. /\ mpc = "setup" /\ mpc' \in {"init", "aborted"}
      /\ UNCHANGED <<gvars, thread_queue, dir_to_handle, visits, pc>>
      /\ mpc' = "init" => dir_queue' = Append(dir_queue, Root) /\ UNCHANGED g_failed_threads
  BY DEF MainSetup, dir_enqueue, tvars, hvars
<1>2. /\ \A t \in Threads : pc[t] = "unborn"
      /\ dir_queue = <<>>
  BY <1>1 DEF Inv3, NotBorn, Unstarted
<1>3. Range(thread_queue) = {}
  BY <1>1, <1>2, RangeType DEF Inv1, TypeOK, Inv3, IdleAsleep
<1>4. ~Visited(Root) /\ \A t \in Threads : dir_to_handle[t] \notin Dirs
  BY <1>1 DEF Inv2, NothingKnown, Known
<1>5. (MainHolds /\ Lowered /\ NotBorn)'
  BY <1>1, <1>2 DEF MainHolds, Lowered, NotBorn
<1>6. (IdleAsleep /\ AsleepIdle /\ LastIdle /\ IdleNull)'
  BY <1>1, <1>2, <1>3 DEF IdleAsleep, AsleepIdle, LastIdle, IdleNull
<1>7. RootFirst'
  <2>1. mpc' = "init" => dir_queue' = <<Root>>
    BY <1>1, <1>2
  <2> QED
    BY <1>1, <1>2, <1>4, <2>1 DEF RootFirst, Unstarted
<1>8. (BarrierFirst /\ EmptyWhenIdling /\ NoIdleWhileQueued)'
  BY <1>1, <1>2, <1>4 DEF BarrierFirst, EmptyWhenIdling, NoIdleWhileQueued, Visited
<1>9. FailedCount'
  BY <1>1 DEF Inv3, FailedCount, Dead
<1>10. (Evaluated /\ Stopped)'
  BY <1>1 DEF Evaluated, Stopped, Over
<1> QED
  BY <1>5, <1>6, <1>7, <1>8, <1>9, <1>10 DEF Inv3

\* main_init has its arrays, or main gives up.
LEMMA Inv3MainInit == ASSUME Inv1, Inv3, MainInit PROVE Inv3'
<1>1. /\ mpc = "init" /\ mpc' \in {"create", "aborted"}
      /\ UNCHANGED <<gvars, qvars, dir_to_handle, visits, g_failed_threads, pc>>
  BY DEF MainInit, tvars, hvars
<1>2. \A t \in Threads : pc[t] = "unborn"
  BY <1>1 DEF Inv3, NotBorn, Unstarted
<1>3. (MainHolds /\ Lowered /\ NotBorn /\ Evaluated /\ Stopped)'
  BY <1>1, <1>2 DEF MainHolds, Lowered, NotBorn, Evaluated, Stopped, Over
<1>4. (IdleAsleep /\ AsleepIdle /\ LastIdle /\ IdleNull)'
  BY <1>1, <1>2 DEF Inv3, IdleAsleep, AsleepIdle, LastIdle, IdleNull, Idle, qvars
<1>5. (RootFirst /\ BarrierFirst /\ EmptyWhenIdling /\ NoIdleWhileQueued)'
  BY <1>1, <1>2 DEF Inv3, RootFirst, BarrierFirst, EmptyWhenIdling, NoIdleWhileQueued, Visited,
     gvars, qvars, is_dir_queue_empty, is_thread_queue_empty
<1>6. FailedCount'
  <2>1. Dead' = Dead
    BY <1>1 DEF Dead
  <2> QED
    BY <1>1, <2>1 DEF Inv3, FailedCount
<1> QED
  BY <1>3, <1>4, <1>5, <1>6 DEF Inv3

\* After the broadcast to the sleeping threads.
LEMMA Inv3MainSignalAll == ASSUME Inv1, Inv3, MainSignalAll PROVE Inv3'
<1> USE PfindAssumption DEF gvars, qvars
<1>1. /\ mpc = "signal" /\ mpc' = "join" /\ queue_mutex = FREE
      /\ \A u \in Threads : pc'[u] = IF pc[u] = "wait" THEN "lockq" ELSE pc[u]
      /\ UNCHANGED <<gvars, qvars, dir_to_handle, visits, g_failed_threads>>
  BY DEF MainSignalAll, tvars, hvars
<1>2. /\ Range(thread_queue) \subseteq Threads
      /\ \A u \in Threads : pc[u] # "prewait"
  BY <1>1, RangeType DEF Inv1, TypeOK, QueueOwner, Holding
<1>3. \A u \in Threads : (Idle(u)' <=> Idle(u)) /\ (Failed(u)' <=> Failed(u))
  BY <1>1 DEF Idle, Failed
<1>4. (MainHolds /\ Lowered /\ NotBorn /\ NoIdleWhileQueued)'
  BY <1>1 DEF Inv3, MainHolds, Lowered, NotBorn, Unstarted, NoIdleWhileQueued, Visited,
     is_dir_queue_empty, is_thread_queue_empty
<1>5. (IdleAsleep /\ AsleepIdle /\ LastIdle /\ IdleNull)'
  BY <1>1, <1>2 DEF Inv3, IdleAsleep, AsleepIdle, LastIdle, IdleNull
<1>6. (RootFirst /\ BarrierFirst /\ EmptyWhenIdling)'
  BY <1>1 DEF Inv3, RootFirst, BarrierFirst, EmptyWhenIdling, Visited, Unstarted
<1>7. FailedCount'
  <2>1. Dead' = Dead
    BY <1>1 DEF Dead
  <2> QED
    BY <1>1, <2>1 DEF Inv3, FailedCount
<1>8. (Evaluated /\ Stopped)'
  BY <1>1, <1>3 DEF Inv3, Evaluated, Stopped, AllOut, Over
<1> QED
  BY <1>4, <1>5, <1>6, <1>7, <1>8 DEF Inv3

LEMMA Inv3Main == ASSUME Inv1, Inv2, Inv3, Main PROVE Inv3'
<1> USE PfindAssumption DEF gvars, qvars, tvars, hvars, Unstarted
<1>0. pc \in [Threads -> ThreadPC]
  BY DEF Inv1, TypeOK
<1>1. CASE MainSetup \/ MainInit
  BY <1>1, Inv3MainSetup, Inv3MainInit
<1>2. CASE MainCreate
  <2>1. mpc = "create" /\ mpc' = "cvinit" /\ \A u \in Threads : pc[u] \in Waiting
    BY <1>2 DEF MainCreate, Inv1, Gate, Preparing
  <2>2. \A u \in Threads : pc'[u] = pc[u] \/ (pc[u] \in Waiting /\ pc'[u] \in Waiting)
    BY <1>0, <1>2, <2>1 DEF MainCreate, Goto, Waiting
  <2>3. (MainHolds /\ Lowered /\ Evaluated /\ Stopped)'
    BY <2>1 DEF MainHolds, Lowered, Evaluated, Stopped, Over
  <2> QED
    BY <1>2, <2>1, <2>2, <2>3, Inv3MainQuiet DEF MainCreate
<1>3. CASE MainCvInit
  <2>1. mpc = "cvinit" /\ mpc' \in {"create", "go"}
    BY <1>3 DEF MainCvInit
  <2>2. (MainHolds /\ Lowered /\ Evaluated /\ Stopped)'
    BY <2>1 DEF MainHolds, Lowered, Evaluated, Stopped, Over
  <2> QED
    BY <1>3, <2>1, <2>2, Inv3MainQuiet DEF MainCvInit
<1>4. CASE MainStart
  <2>1. mpc = "go" /\ mpc' = "flock"
    BY <1>4 DEF MainStart
  <2>2. (MainHolds /\ Lowered /\ Evaluated /\ Stopped)'
    BY <2>1 DEF MainHolds, Lowered, Evaluated, Stopped, Over
  <2>3. \A u \in Threads : pc'[u] = pc[u] \/ (pc[u] \in Waiting /\ pc'[u] \in Waiting)
    BY <1>4 DEF MainStart, Waiting
  <2> QED
    BY <1>4, <2>1, <2>2, <2>3, Inv3MainQuiet DEF MainStart
<1>5. CASE MainLockFinish
  <2>1. mpc = "flock" /\ mpc' = "evaldir" /\ finish_mutex' = MAIN
    BY <1>5 DEF MainLockFinish
  <2>2. (MainHolds /\ Lowered /\ Evaluated /\ Stopped)'
    BY <2>1 DEF MainHolds, Lowered, Evaluated, Stopped, Over
  <2> QED
    BY <1>5, <2>1, <2>2, Inv3MainQuiet DEF MainLockFinish
<1>6. CASE MainEvalDir \/ MainEvalThreads
  <2>1. /\ mpc \in {"evaldir", "evalthreads"} /\ mpc' \in {"evalthreads", "fwait", "stop"}
        /\ UNCHANGED <<gvars, qvars, dir_to_handle, visits, g_failed_threads, pc>>
        /\ mpc' # "fwait" => finish_mutex' = finish_mutex
        /\ mpc' = "evalthreads" => dir_queue = <<>>
        /\ mpc' = "stop" =>
              \/ g_failed_threads = g_threads_num
              \/ /\ mpc = "evalthreads"
                 /\ Len(thread_queue) + g_failed_threads = g_threads_num
    BY <1>6 DEF MainEvalDir, MainEvalThreads, WaitOrStop, is_dir_queue_empty
  <2>2. MainHolds' /\ Lowered'
    BY <2>1 DEF Inv3, MainHolds, Lowered
  <2>3. Evaluated'
    BY <2>1 DEF Evaluated
  <2>4. \A u \in Threads : (Idle(u)' <=> Idle(u)) /\ (Failed(u)' <=> Failed(u))
    BY <2>1 DEF Idle, Failed
  <2>5. Stopped'
    <3>1. /\ g_failed_threads = g_threads_num => \A u \in Threads : Failed(u)
          /\ Len(thread_queue) + g_failed_threads = g_threads_num => AllOut
      BY <2>1, CountAll DEF AllOut
    <3>2. mpc' = "stop" => (\A u \in Threads : Failed(u)) \/ (dir_queue = <<>> /\ AllOut)
      BY <2>1, <3>1 DEF Inv3, Evaluated
    <3> QED
      BY <2>1, <2>4, <3>2 DEF Stopped, AllOut, Over
  <2> QED
    BY <2>1, <2>2, <2>3, <2>5, Inv3MainQuiet
<1>7. CASE MainStop \/ MainJoin
  <2>1. /\ \/ mpc = "stop" /\ mpc' = "signal" /\ ~g_is_search' /\ finish_mutex' = finish_mutex
           \/ mpc = "join" /\ mpc' = "exit" /\ g_is_search' = g_is_search
        /\ UNCHANGED <<g_all_threads_ready, qvars, dir_to_handle, visits, g_failed_threads, pc>>
    BY <1>7 DEF MainStop, MainJoin
  <2>2. (MainHolds /\ Lowered /\ Evaluated)'
    BY <2>1 DEF Inv3, MainHolds, Lowered, Evaluated
  <2>3. \A u \in Threads : (Idle(u)' <=> Idle(u)) /\ (Failed(u)' <=> Failed(u))
    BY <2>1 DEF Idle, Failed
  <2>4. Stopped'
    BY <2>1, <2>3 DEF Inv3, Stopped, AllOut, Over
  <2> QED
    BY <2>1, <2>2, <2>4, Inv3MainQuiet
<1>8. CASE MainSignalAll
  BY <1>8, Inv3MainSignalAll
<1> QED
  BY <1>1, <1>2, <1>3, <1>4, <1>5, <1>6, <1>7, <1>8 DEF Main

LEMMA Inv3Thread == ASSUME Inv1, Inv3, NEW t \in Threads, Thread(t) PROVE Inv3'
<1> USE DEF gvars, qvars, tvars, hvars, Goto
<1>0. mpc # "crashed" /\ pc \in [Threads -> ThreadPC]
  BY DEF Thread, Inv1, TypeOK
<1>1. CASE \/ wait_for_start(t) \/ AllocEntry(t) \/ open_dir_and_check(t)
           \/ get_stat_Failure(t) \/ QueueDirFailure(t) \/ EndDir(t)
  <2>1. PICK l \in {"alloc", "startwait", "lockq", "iterate", "fail"} :
           /\ pc' = [pc EXCEPT ![t] = l]
           /\ pc[t] \in {"start", "alloc", "open", "iterate"}
           /\ l = "iterate" => pc[t] = "open"
    BY <1>1 DEF wait_for_start, AllocEntry, open_dir_and_check, get_stat_Failure,
       QueueDirFailure, EndDir
  <2>2. /\ UNCHANGED <<gvars, qvars, visits, g_failed_threads, finish_mutex, mpc>>
        /\ \/ UNCHANGED dir_to_handle
           \/ dir_to_handle' = [dir_to_handle EXCEPT ![t] = NULL]
    BY <1>1 DEF wait_for_start, AllocEntry, open_dir_and_check, get_stat_Failure,
       QueueDirFailure, EndDir
  <2>3. mpc \notin Unstarted
    BY <2>1, Running
  <2>4. l \in ThreadPC
    BY DEF ThreadPC
  <2> QED
    BY <2>1, <2>2, <2>3, <2>4, Inv3Quiet
<1>2. CASE ReadFile(t) \/ SkipDir(t) \/ HandOverCrash(t)
  <2>1. /\ pc[t] = "iterate" /\ pc' = [pc EXCEPT ![t] = "iterate"]
        /\ UNCHANGED <<gvars, qvars, dir_to_handle, visits, g_failed_threads, finish_mutex>>
        /\ UNCHANGED mpc \/ mpc' = "crashed"
    BY <1>0, <1>2 DEF ReadFile, SkipDir, HandOverCrash
  <2>2. mpc \notin Unstarted /\ "iterate" \in ThreadPC
    BY <2>1, Running DEF ThreadPC
  <2> QED
    BY <2>1, <2>2, Inv3Quiet
<1>3. CASE CheckSleep(t)
  BY <1>0, <1>3, Inv3CheckSleep
<1>4. CASE BecomeIdle(t)
  BY <1>4, Inv3BecomeIdle
<1>5. CASE OpenBarrier(t)
  BY <1>0, <1>5, Inv3OpenBarrier
<1>6. CASE Sleep(t) \/ ThreadExit(t)
  BY <1>0, <1>6, Inv3SleepExit
<1>7. CASE TakeDir(t)
  BY <1>0, <1>7, Inv3TakeDir
<1>8. CASE HandOver(t)
  BY <1>0, <1>8, Inv3HandOver
<1>9. CASE QueueDir(t)
  BY <1>0, <1>9, Inv3QueueDir
<1>10. CASE thread_exit_on_error(t)
  BY <1>10, Inv3Failure
<1> QED
  BY <1>1, <1>2, <1>3, <1>4, <1>5, <1>6, <1>7, <1>8, <1>9, <1>10 DEF Thread

\* Every step keeps Inv3, when pthread_cond_wait returns only after a signal.
LEMMA Inv3Step == ASSUME NoSpurious PROVE Inv1 /\ Inv2 /\ Inv3 /\ [Next]_vars => Inv3'
<1> SUFFICES ASSUME Inv1, Inv2, Inv3, [Next]_vars PROVE Inv3'
  OBVIOUS
<1>1. CASE Main
  BY <1>1, Inv3Main
<1>2. CASE \E t \in Threads : Thread(t)
  BY <1>2, Inv3Thread
<1>3. CASE UNCHANGED vars
  BY <1>3 DEF vars, gvars, qvars, tvars, hvars, Inv3, MainHolds, Lowered, NotBorn, IdleAsleep,
     AsleepIdle, LastIdle, IdleNull, RootFirst, BarrierFirst, EmptyWhenIdling,
     NoIdleWhileQueued, FailedCount, Dead, Evaluated, Stopped, AllOut, Idle, Failed, Visited,
     is_dir_queue_empty, is_thread_queue_empty
<1>4. ~\E t \in Threads : mpc # "crashed" /\ SpuriousWakeup(t)
  BY DEF SpuriousWakeup, NoSpurious
<1> QED
  BY <1>1, <1>2, <1>3, <1>4 DEF Next, Done

\* What the end of the search relies on holds in every state pfind reaches.
THEOREM Inv3Always == ASSUME NoSpurious PROVE Spec => []Inv3
<1>1. Inv1 /\ Inv2 /\ Inv3 /\ [Next]_vars => Inv3'
  BY Inv3Step
<1> QED
  BY <1>1, Inv1Always, Inv2Always, Inv3Init, PTL DEF Spec

-----------------------------------------------------------------------------
\* The comment at lines 541-545, for any number of threads: main lowers
\* g_is_search only when every thread failed, or when no directory is queued
\* or handed over and no live thread searches.
THEOREM NoEarlyStopAlways == ASSUME NoSpurious PROVE Spec => []NoEarlyStop
<1>1. Inv3 => NoEarlyStop
  <2> SUFFICES ASSUME Inv3, mpc \in Over, ~\A t \in Threads : Failed(t)
               PROVE  /\ dir_queue = <<>>
                      /\ \A t \in Threads : ~Searching(t) /\ pc[t] # "recheck"
                      /\ \A t \in Threads : ~Failed(t) => dir_to_handle[t] = NULL
    BY DEF NoEarlyStop, Over, is_dir_queue_empty
  <2>1. dir_queue = <<>> /\ AllOut
    BY DEF Inv3, Stopped
  <2>2. \A t \in Threads : ~Searching(t) /\ pc[t] # "recheck"
    BY <2>1 DEF AllOut, Idle, Failed, Searching, Inv3, IdleAsleep
  <2>3. \A t \in Threads : ~Failed(t) => dir_to_handle[t] = NULL
    BY <2>1 DEF AllOut, Idle, Inv3, IdleNull
  <2> QED
    BY <2>1, <2>2, <2>3
<1> QED
  BY <1>1, Inv3Always, PTL

\* No thread sleeps while a directory waits in the queue.
THEOREM NoIdleWhileQueuedAlways == ASSUME NoSpurious PROVE Spec => []NoIdleWhileQueued
<1>1. Inv3 => NoIdleWhileQueued
  BY DEF Inv3
<1> QED
  BY <1>1, Inv3Always, PTL

\* The two lock orders, finish_mutex then queue_mutex in main and the reverse
\* in a thread, never meet: a thread inside queue_mutex that asks for
\* finish_mutex is neither idle nor dead, so main is not stopping the search.
THEOREM NoLockCycleAlways == ASSUME NoSpurious PROVE Spec => []NoLockCycle
<1>1. Inv1 /\ Inv3 => NoLockCycle
  <2> SUFFICES ASSUME Inv1, Inv3, mpc = "signal", NEW t \in Threads,
                      pc[t] \in {"enqueue", "fail"}
               PROVE  FALSE
    BY DEF NoLockCycle
  <2> QED
    BY Busy DEF Over
<1> QED
  BY <1>1, Inv1Always, Inv3Always, PTL

-----------------------------------------------------------------------------
(***************************************************************************)
(* The condition variables.  main initialises them before it opens the     *)
(* start gate, although each after its thread was created.                 *)
(***************************************************************************)
CvInv ==
    /\ 0 .. t_id - 1 \subseteq queue_cv
    /\ mpc \notin {"setup", "init", "create", "cvinit", "aborted"} => queue_cv = Threads
    /\ mpc \in Preparing \cup {"aborted"} => thread_queue = <<>>
    /\ mpc \in Unstarted => \A t \in Threads : pc[t] = "unborn"

(***************************************************************************)
(* Nothing is forgotten.  What a searched directory lists is known or      *)
(* reported, or still to be read by the thread that searches it, and a     *)
(* thread gives up only a directory that it has searched.                  *)
(***************************************************************************)
Left(e) == \E t \in Threads : e \in unread[t]
Progress ==
    \A d \in Dirs : Visited(d) =>
        \A e \in Listing(d) : /\ e \in Dirs \ Denied => Known(e) \/ Left(e)
                              /\ e \in Matches => e \in reported \/ Left(e)
HandedTaken ==
    \A t \in Threads : dir_to_handle[t] \in Dirs =>
        /\ pc[t] # "enqueue"
        /\ pc[t] \in {"open", "iterate"} => dir_to_handle[t] = removed_dir_entry[t]
ExitStatus ==
    mpc = "exit" => /\ exit_status = 0 => g_failed_threads = 0
                    /\ \A t \in Threads : pc[t] \in {"dead", "exited"}

Inv4 == Progress /\ HandedTaken /\ ExitStatus

\* A thread's step, as the condition variables see it.
LEMMA CvThread == ASSUME Inv1, CvInv, NEW t \in Threads, Thread(t) PROVE CvInv'
<1>1. /\ pc[t] # "unborn" /\ UNCHANGED <<queue_cv, t_id>>
      /\ \/ mpc' = mpc
         \/ mpc = "fwait" /\ mpc' = "flock"
         \/ pc[t] = "iterate" /\ mpc' = "crashed"
      /\ thread_queue' = thread_queue \/ pc[t] \in {"enqueue", "prewait", "iterate"}
  <2> USE DEF ivars, qvars
  <2>1. CASE wait_for_start(t) \/ AllocEntry(t) \/ CheckSleep(t)
    BY <2>1 DEF wait_for_start, AllocEntry, CheckSleep
  <2>2. CASE BecomeIdle(t)
    BY <2>2 DEF BecomeIdle, SignalFinish
  <2>3. CASE OpenBarrier(t)
    BY <2>3 DEF OpenBarrier
  <2>4. CASE Sleep(t) \/ ThreadExit(t) \/ TakeDir(t) \/ open_dir_and_check(t)
    BY <2>4 DEF Sleep, ThreadExit, TakeDir, open_dir_and_check
  <2>5. CASE get_stat_Failure(t) \/ ReadFile(t) \/ SkipDir(t) \/ HandOver(t) \/ HandOverCrash(t)
    BY <2>5 DEF get_stat_Failure, ReadFile, SkipDir, HandOver, HandOverCrash
  <2>6. CASE QueueDir(t) \/ QueueDirFailure(t) \/ EndDir(t)
    BY <2>6 DEF QueueDir, QueueDirFailure, EndDir
  <2>7. CASE thread_exit_on_error(t)
    BY <2>7 DEF thread_exit_on_error, SignalFinish
  <2> QED
    BY <2>1, <2>2, <2>3, <2>4, <2>5, <2>6, <2>7 DEF Thread
<1>2. mpc \notin Unstarted
  BY <1>1 DEF CvInv
<1>3. pc[t] \in {"enqueue", "prewait", "iterate"} => mpc \notin Preparing
  BY DEF Inv1, Gate, Waiting
<1> QED
  BY <1>1, <1>2, <1>3 DEF CvInv, Unstarted, Preparing

\* main initialises them one by one, and all of them before it opens the gate.
LEMMA CvMain == ASSUME Inv1, CvInv, Main PROVE CvInv'
<1> USE DEF ivars, qvars
<1>1. CASE MainSetup \/ MainInit
  BY <1>1 DEF MainSetup, MainInit, CvInv, Unstarted, Preparing
<1>2. CASE MainCreate
  BY <1>2 DEF MainCreate, CvInv, Unstarted, Preparing
<1>3. CASE MainCvInit
  <2>1. /\ mpc = "cvinit" /\ queue_cv' = queue_cv \cup {t_id} /\ t_id' = t_id + 1
        /\ mpc' = IF t_id + 1 < g_threads_num THEN "create" ELSE "go"
        /\ UNCHANGED <<thread_queue, pc>>
    BY <1>3 DEF MainCvInit
  <2>2. /\ t_id \in Nat /\ t_id < g_threads_num /\ g_threads_num \in Nat
        /\ queue_cv \subseteq Threads
    BY <2>1, PfindAssumption DEF Inv1, TypeOK, CreateLoop
  <2>3. 0 .. t_id' - 1 \subseteq queue_cv'
    <3>1. t_id' - 1 = t_id /\ 0 .. t_id - 1 \subseteq queue_cv
      BY <2>1, <2>2 DEF CvInv
    <3>2. \A i \in 0 .. t_id : i \in 0 .. t_id - 1 \/ i = t_id
      BY <2>2
    <3> QED
      BY <2>1, <3>1, <3>2
  <2>4. ~(t_id + 1 < g_threads_num) => queue_cv' = Threads
    <3>1. ~(t_id + 1 < g_threads_num) => Threads = 0 .. t_id' - 1
      BY <2>1, <2>2 DEF Threads
    <3>2. queue_cv' \subseteq Threads
      BY <2>1, <2>2 DEF Threads
    <3> QED
      BY <2>3, <3>1, <3>2
  <2>5. thread_queue = <<>>
    BY <2>1 DEF CvInv, Preparing
  <2> QED
    BY <2>1, <2>3, <2>4, <2>5 DEF CvInv, Unstarted
<1>4. CASE MainStart
  BY <1>4 DEF MainStart, CvInv, Unstarted, Preparing
<1>5. CASE MainLockFinish \/ MainEvalDir \/ MainEvalThreads
  BY <1>5 DEF MainLockFinish, MainEvalDir, MainEvalThreads, WaitOrStop, CvInv, Unstarted, Preparing
<1>6. CASE MainStop \/ MainSignalAll \/ MainJoin
  BY <1>6 DEF MainStop, MainSignalAll, MainJoin, CvInv, Unstarted, Preparing
<1> QED
  BY <1>1, <1>2, <1>3, <1>4, <1>5, <1>6 DEF Main

\* No thread waits on, and nobody signals, a condition variable that main has yet to
\* initialise, whatever fails and with wakeups without a signal too: the start gate
\* makes up for line 482 coming after pthread_create.
THEOREM CvInitialisedAlways == Spec => []CvInitialised
<1>1. Init => CvInv
  <2> SUFFICES ASSUME Init PROVE CvInv
    OBVIOUS
  <2>1. t_id = 0 /\ 0 .. 0 - 1 = {}
    BY DEF Init
  <2> QED
    BY <2>1 DEF Init, CvInv, Preparing
<1>2. Inv1 /\ CvInv /\ [Next]_vars => CvInv'
  <2> SUFFICES ASSUME Inv1, CvInv, [Next]_vars PROVE CvInv'
    OBVIOUS
  <2>1. CASE \E t \in Threads : mpc # "crashed" /\ SpuriousWakeup(t)
    BY <2>1 DEF SpuriousWakeup, CvInv, ivars, qvars, Unstarted
  <2>2. CASE UNCHANGED vars
    BY <2>2 DEF vars, CvInv, ivars, qvars
  <2> QED
    BY <2>1, <2>2, CvMain, CvThread DEF Next, Done
<1>3. Inv1 /\ CvInv => CvInitialised
  <2> SUFFICES ASSUME Inv1, CvInv PROVE CvInitialised
    OBVIOUS
  <2>1. \A t \in Threads : pc[t] \in {"prewait", "wait"} => queue_cv = Threads
    BY DEF Inv1, Gate, Waiting, CvInv, Preparing, Unstarted
  <2>2. Range(thread_queue) \subseteq queue_cv
    BY EmptyQueue, RangeType DEF Inv1, TypeOK, CvInv, Preparing
  <2> QED
    BY <2>1, <2>2 DEF CvInitialised, CvInv
<1> QED
  BY <1>1, <1>2, <1>3, Inv1Always, PTL DEF Spec

-----------------------------------------------------------------------------
\* The thread that gets a subdirectory sleeps, and has nothing else to do.
LEMMA HandOverFacts ==
    ASSUME Inv1, Inv3, NEW t \in Threads, mpc # "crashed", HandOver(t)
    PROVE  \E u \in Threads, d \in Dirs :
             /\ u = Head(thread_queue) /\ thread_queue # <<>> /\ thread_queue' = Tail(thread_queue)
             /\ u # t /\ pc[u] = "wait" /\ pc' = [pc EXCEPT ![u] = "lockq"]
             /\ d \in unread[t] \ Denied /\ Consume(t, d)
             /\ dir_to_handle[u] = NULL /\ dir_to_handle' = [dir_to_handle EXCEPT ![u] = d]
<1>1. PICK d \in (unread[t] \cap Dirs) \ Denied :
        /\ pc[t] = "iterate" /\ queue_mutex = FREE /\ thread_queue # <<>>
        /\ Consume(t, d) /\ thread_queue' = Tail(thread_queue)
        /\ dir_to_handle' = [dir_to_handle EXCEPT ![Head(thread_queue)] = d]
        /\ pc' = IF pc[Head(thread_queue)] = "wait"
                 THEN [pc EXCEPT ![Head(thread_queue)] = "lockq"] ELSE pc
  BY DEF HandOver, is_thread_queue_empty, thread_dequeue
<1>2. PICK u : u = Head(thread_queue)
  OBVIOUS
<1>3. u \in Threads /\ u \in Range(thread_queue)
  BY <1>1, <1>2, DequeueFacts DEF Inv1, TypeOK
<1>4. mpc \notin Over
  BY <1>1, Busy
<1>5. pc[u] = "wait"
  <2>1. pc[u] # "prewait"
    BY <1>1, <1>3, PfindAssumption DEF Inv1, QueueOwner, Holding
  <2> QED
    BY <1>3, <1>4, <2>1 DEF Inv3, IdleAsleep, Over
<1>6. dir_to_handle[u] = NULL
  BY <1>3 DEF Inv3, IdleNull
<1> QED
  BY <1>1, <1>2, <1>3, <1>5, <1>6

\* thread_enqueue and thread_dequeue are the only changes of the idle queue, and only
\* HandOver assigns a directory: to the thread that sleeps longest.  Woken without a
\* signal a thread would still be queued, and might be given work while it searches.
THEOREM FifoHandoverAlways == ASSUME NoSpurious PROVE Spec => FifoHandover
<1> DEFINE Queue == \/ thread_queue' = thread_queue
                    \/ thread_queue # <<>> /\ thread_queue' = Tail(thread_queue)
                    \/ \E t \in Threads : thread_queue' = Append(thread_queue, t)
           Handed == \A t \in Threads : dir_to_handle'[t] \in Dirs \ {dir_to_handle[t]} =>
                       /\ t = Head(thread_queue) /\ thread_queue' = Tail(thread_queue)
                       /\ pc[t] = "wait" /\ pc'[t] = "lockq"
<1>1. Inv1 /\ Inv3 /\ [Next]_vars => [Queue /\ Handed]_vars
  <2> SUFFICES ASSUME Inv1, Inv3, Next PROVE (Queue /\ Handed) \/ UNCHANGED vars
    OBVIOUS
  <2>1. ASSUME UNCHANGED <<thread_queue, dir_to_handle>> PROVE Queue /\ Handed
    BY <2>1
  <2>2. ASSUME NEW t \in Threads, UNCHANGED thread_queue,
               dir_to_handle' = [dir_to_handle EXCEPT ![t] = NULL]
        PROVE  Queue /\ Handed
    BY <2>2, PfindAssumption DEF Inv1, TypeOK
  <2>3. CASE Main
    BY <2>1, <2>3 DEF Main, MainSetup, MainInit, MainCreate, MainCvInit, MainStart, MainLockFinish,
       MainEvalDir, MainEvalThreads, MainStop, MainSignalAll, MainJoin, qvars, tvars
  <2>4. ASSUME NEW t \in Threads, Thread(t) PROVE Queue /\ Handed
    <3>1. CASE wait_for_start(t) \/ AllocEntry(t) \/ CheckSleep(t) \/ Sleep(t) \/ ThreadExit(t)
      BY <2>1, <3>1 DEF wait_for_start, AllocEntry, CheckSleep, Sleep, ThreadExit, qvars, tvars
    <3>2. CASE \/ TakeDir(t) \/ open_dir_and_check(t) \/ get_stat_Failure(t) \/ ReadFile(t)
               \/ SkipDir(t) \/ HandOverCrash(t)
      BY <2>1, <3>2 DEF TakeDir, open_dir_and_check, get_stat_Failure, ReadFile, SkipDir,
         HandOverCrash, qvars, tvars
    <3>3. CASE QueueDir(t) \/ QueueDirFailure(t) \/ thread_exit_on_error(t)
      BY <2>1, <3>3 DEF QueueDir, QueueDirFailure, thread_exit_on_error, qvars, tvars
    <3>4. CASE EndDir(t)
      BY <2>2, <3>4 DEF EndDir, qvars
    <3>5. CASE BecomeIdle(t)
      <4>1. \/ UNCHANGED <<thread_queue, dir_to_handle>>
            \/ /\ thread_queue' = Append(thread_queue, t)
               /\ dir_to_handle' = [dir_to_handle EXCEPT ![t] = NULL]
        BY <3>5 DEF BecomeIdle, thread_enqueue
      <4>2. ASSUME dir_to_handle' = [dir_to_handle EXCEPT ![t] = NULL] PROVE Handed
        BY <4>2, PfindAssumption DEF Inv1, TypeOK
      <4> QED
        BY <2>1, <4>1, <4>2
    <3>6. CASE OpenBarrier(t)
      <4>1. /\ pc[t] = "prewait" /\ thread_queue' = Tail(thread_queue) /\ UNCHANGED dir_to_handle
        BY <3>6 DEF OpenBarrier, thread_dequeue, tvars
      <4> QED
        BY <4>1 DEF Inv3, LastIdle
    <3>7. CASE HandOver(t)
      <4>1. PICK u \in Threads, d \in Dirs :
              /\ u = Head(thread_queue) /\ thread_queue # <<>> /\ thread_queue' = Tail(thread_queue)
              /\ pc[u] = "wait" /\ pc' = [pc EXCEPT ![u] = "lockq"]
              /\ dir_to_handle' = [dir_to_handle EXCEPT ![u] = d]
        BY <2>4, <3>7, HandOverFacts DEF Thread
      <4> QED
        BY <4>1 DEF Inv1, TypeOK
    <3> QED
      BY <2>4, <3>1, <3>2, <3>3, <3>4, <3>5, <3>6, <3>7 DEF Thread
  <2> QED
    BY <2>3, <2>4 DEF Next, Done, SpuriousWakeup, NoSpurious
<1> QED
  BY <1>1, Inv1Always, Inv3Always, PTL DEF Spec, FifoHandover

-----------------------------------------------------------------------------
\* Progress survives a step that forgets no directory and loses no entry.
LEMMA ProgressKept ==
    ASSUME Progress,
           \A d \in Dirs : Visited(d)' =>
              Visited(d) \/ \E t \in Threads : Listing(d) \subseteq unread'[t],
           \A d \in Dirs : Known(d) => Known(d)',
           reported \subseteq reported',
           \A t \in Threads : \A e \in unread[t] :
              \/ Left(e)'
              \/ (e \in Dirs \ Denied => Known(e)') /\ (e \in Matches => e \in reported')
    PROVE  Progress'
<1> SUFFICES ASSUME NEW d \in Dirs, Visited(d)', NEW e \in Listing(d)
             PROVE  /\ e \in Dirs \ Denied => Known(e)' \/ Left(e)'
                    /\ e \in Matches => e \in reported' \/ Left(e)'
  BY DEF Progress
<1>1. CASE Visited(d)
  <2>1. /\ e \in Dirs \ Denied => Known(e) \/ Left(e)
        /\ e \in Matches => e \in reported \/ Left(e)
    BY <1>1 DEF Progress
  <2>2. Left(e) => \E t \in Threads : e \in unread[t]
    BY DEF Left
  <2> QED
    BY <2>1, <2>2
<1>2. CASE \E t \in Threads : Listing(d) \subseteq unread'[t]
  BY <1>2 DEF Left
<1> QED
  BY <1>1, <1>2

\* A step of a thread that neither takes, lists nor gives up a directory.
LEMMA Inv4Quiet ==
    ASSUME Inv4, UNCHANGED <<dir_queue, tvars, hvars>>,
           mpc' = "exit" => mpc = "exit" /\ UNCHANGED <<exit_status, g_failed_threads, pc>>,
           \A u \in Threads : dir_to_handle[u] \in Dirs =>
              \/ pc'[u] \notin {"enqueue", "open", "iterate"}
              \/ pc'[u] = pc[u]
              \/ pc[u] = "open" /\ pc'[u] = "iterate"
    PROVE  Inv4'
<1> USE DEF tvars, hvars
<1>1. \A d : (Known(d)' <=> Known(d)) /\ (Visited(d)' <=> Visited(d)) /\ (Left(d)' <=> Left(d))
  BY DEF Known, Visited, Left
<1>2. Progress'
  BY <1>1 DEF Inv4, Progress
<1>3. HandedTaken'
  BY DEF Inv4, HandedTaken
<1>4. ExitStatus'
  BY DEF Inv4, ExitStatus
<1> QED
  BY <1>2, <1>3, <1>4 DEF Inv4

\* The root becomes known, and the status is the one main computes when all have ended.
LEMMA Inv4Main == ASSUME Inv1, Inv4, Main PROVE Inv4'
<1> USE DEF ivars, qvars, tvars, hvars
<1>1. ASSUME UNCHANGED <<dir_queue, tvars, hvars>>, mpc' # "exit",
             \A u \in Threads : pc'[u] = pc[u] \/ pc'[u] \notin {"enqueue", "open", "iterate"}
      PROVE  Inv4'
  BY <1>1, Inv4Quiet
<1>2. pc \in [Threads -> ThreadPC] /\ dir_queue \in Seq(Dirs)
  BY DEF Inv1, TypeOK
<1>3. CASE MainSetup
  <2>1. /\ dir_queue' = Append(dir_queue, Root) \/ UNCHANGED dir_queue
        /\ UNCHANGED <<tvars, hvars, pc>> /\ mpc' # "exit"
    BY <1>3 DEF MainSetup, dir_enqueue
  <2>2. CASE dir_queue' = Append(dir_queue, Root)
    <3>1. Range(dir_queue') = Range(dir_queue) \cup {Root}
      BY <1>2, <2>2, EnqueueFacts, PfindAssumption
    <3>2. \A d \in Dirs : Known(d) => Known(d)'
      BY <2>1, <3>1 DEF Known, Visited
    <3>3. Progress'
      BY <2>1, <3>2, ProgressKept DEF Inv4, Visited, Left
    <3>4. HandedTaken' /\ ExitStatus'
      BY <2>1 DEF Inv4, HandedTaken, ExitStatus
    <3> QED
      BY <3>3, <3>4 DEF Inv4
  <2> QED
    BY <1>1, <2>1, <2>2
<1>4. CASE MainCreate \/ MainCvInit
  <2>1. /\ pc' = [pc EXCEPT ![t_id] = "start"] \/ UNCHANGED pc
        /\ UNCHANGED <<dir_queue, tvars, hvars>> /\ mpc' # "exit"
    BY <1>4 DEF MainCreate, MainCvInit, Goto
  <2> QED
    BY <1>1, <1>2, <2>1
<1>5. CASE MainStart
  BY <1>1, <1>5 DEF MainStart
<1>6. CASE MainInit \/ MainLockFinish \/ MainEvalDir \/ MainEvalThreads
  BY <1>1, <1>6 DEF MainInit, MainLockFinish, MainEvalDir, MainEvalThreads, WaitOrStop
<1>7. CASE MainStop \/ MainSignalAll
  BY <1>1, <1>7 DEF MainStop, MainSignalAll
<1>8. CASE MainJoin
  <2>1. /\ UNCHANGED <<dir_queue, tvars, hvars, pc, g_failed_threads>>
        /\ exit_status' = IF g_failed_threads # 0 THEN 1 ELSE 0
        /\ \A t \in Threads : pc[t] \in {"dead", "exited"}
    BY <1>8 DEF MainJoin
  <2>2. \A d : (Known(d)' <=> Known(d)) /\ (Visited(d)' <=> Visited(d)) /\ (Left(d)' <=> Left(d))
    BY <2>1 DEF Known, Visited, Left
  <2>3. Progress'
    BY <2>1, <2>2 DEF Inv4, Progress
  <2>4. HandedTaken' /\ ExitStatus'
    BY <2>1 DEF Inv4, HandedTaken, ExitStatus
  <2> QED
    BY <2>3, <2>4 DEF Inv4
<1> QED
  BY <1>3, <1>4, <1>5, <1>6, <1>7, <1>8 DEF Main

\* A thread whose dir_to_handle holds a directory does not go to sleep.
LEMMA Inv4CheckSleep ==
    ASSUME Inv1, Inv3, Inv4, NEW t \in Threads, mpc' # "exit", CheckSleep(t) PROVE Inv4'
<1>1. /\ pc[t] \in {"lockq", "recheck"} /\ UNCHANGED <<dir_queue, tvars, hvars>>
      /\ pc' = [pc EXCEPT ![t] = IF should_thread_sleep(t) THEN "enqueue" ELSE "take"]
  BY DEF CheckSleep, Goto, qvars
<1>2. should_thread_sleep(t) => dir_to_handle[t] \notin Dirs
  BY <1>1, Running, PfindAssumption DEF should_thread_sleep, Inv3, BarrierFirst, RootFirst, Unstarted
<1>3. pc \in [Threads -> ThreadPC]
  BY DEF Inv1, TypeOK
<1>4. \A u \in Threads : dir_to_handle[u] \in Dirs => pc'[u] # "enqueue" \/ pc'[u] = pc[u]
  BY <1>1, <1>2, <1>3
<1>5. \A u \in Threads : pc'[u] \in {"open", "iterate"} => pc'[u] = pc[u]
  BY <1>1, <1>3
<1> QED
  BY <1>1, <1>4, <1>5, Inv4Quiet

\* dir_to_handle is cleared: nothing was handed over, or it has been searched.
LEMMA Inv4Forget ==
    ASSUME Inv1, Inv2, Inv4, NEW t \in Threads, mpc' # "exit", BecomeIdle(t) \/ EndDir(t)
    PROVE  Inv4'
<1> USE PfindAssumption DEF hvars
<1>1. /\ UNCHANGED <<dir_queue, unread, hvars>>
      /\ pc' = [pc EXCEPT ![t] = "prewait"] \/ pc' = [pc EXCEPT ![t] = "lockq"]
      /\ UNCHANGED removed_dir_entry
           \/ removed_dir_entry' = [removed_dir_entry EXCEPT ![t] = NULL]
      /\ UNCHANGED dir_to_handle \/ dir_to_handle' = [dir_to_handle EXCEPT ![t] = NULL]
      /\ pc[t] \in {"enqueue", "iterate"}
  BY DEF BecomeIdle, EndDir, thread_enqueue, Goto, qvars
<1>2. /\ pc \in [Threads -> ThreadPC]
      /\ dir_to_handle \in [Threads -> Dirs \cup {NULL, GARBAGE}]
      /\ removed_dir_entry \in [Threads -> Dirs \cup {NULL}]
  BY DEF Inv1, TypeOK
<1>3. \A u \in Threads \ {t} : /\ pc'[u] = pc[u] /\ dir_to_handle'[u] = dir_to_handle[u]
                              /\ removed_dir_entry'[u] = removed_dir_entry[u]
  BY <1>1, <1>2
<1>4. pc'[t] \in {"prewait", "lockq"}
  BY <1>1, <1>2
<1>5. dir_to_handle[t] \in Dirs => Visited(dir_to_handle[t])
  BY <1>1, <1>2 DEF Inv4, HandedTaken, Inv2, Reading
<1>6. \A d \in Dirs : Visited(d)' <=> Visited(d)
  BY <1>1 DEF Visited
<1>7. \A d \in Dirs : Known(d) => Known(d)'
  BY <1>1, <1>3, <1>5, <1>6 DEF Known
<1>8. Progress'
  <2>1. \A u \in Threads : \A e \in unread[u] : Left(e)'
    BY <1>1 DEF Left
  <2> QED
    BY <1>1, <1>6, <1>7, <2>1, ProgressKept DEF Inv4
<1>9. HandedTaken'
  BY <1>3, <1>4 DEF Inv4, HandedTaken
<1> QED
  BY <1>8, <1>9 DEF Inv4, ExitStatus

\* What a thread takes: the directory it was handed, else the oldest queued one.
LEMMA TakenDir ==
    ASSUME Inv1, NEW t \in Threads, TakeDir(t)
    PROVE  \E d \in Dirs : /\ BeginDir(t, d) /\ Known(d)
                           /\ dir_to_handle[t] \in Dirs => d = dir_to_handle[t]
                           /\ dir_to_handle[t] \notin Dirs => d \in Range(dir_queue)
                           /\ Range(dir_queue) \subseteq Range(dir_queue') \cup {d}
                           /\ Range(dir_queue') \subseteq Range(dir_queue)
<1> USE PfindAssumption
<1>1. /\ dir_queue \in Seq(Dirs) /\ dir_to_handle[t] \in Dirs \cup {NULL}
      /\ dir_to_handle[t] = NULL => dir_queue # <<>>
  BY DEF TakeDir, Inv1, TypeOK, TakeReady, AllSet
<1>2. CASE dir_to_handle[t] # NULL
  BY <1>1, <1>2 DEF TakeDir, Known
<1>3. CASE dir_to_handle[t] = NULL
  <2>1. /\ Head(dir_queue) \in Dirs
        /\ Range(dir_queue) = {Head(dir_queue)} \cup Range(Tail(dir_queue))
    BY <1>1, <1>3, DequeueFacts
  <2>2. BeginDir(t, Head(dir_queue)) /\ dir_queue' = Tail(dir_queue)
    BY <1>3 DEF TakeDir, dir_dequeue
  <2> QED
    BY <1>3, <2>1, <2>2 DEF Known
<1> QED
  BY <1>2, <1>3

\* The threads that meet at the barrier sleep, wake up or look for work.
LEMMA BarrierMoves ==
    ASSUME pc \in [Threads -> ThreadPC], NEW t \in Threads, OpenBarrier(t)
    PROVE  \A u \in Threads : \/ pc'[u] = pc[u]
                             \/ /\ pc[u] \in {"prewait", "wait"}
                                /\ pc'[u] \in {"wait", "lockq", "recheck"}
<1>1. CASE g_threads_num = 1
  BY <1>1 DEF OpenBarrier, Goto
<1>2. CASE g_threads_num # 1
  <2>1. PICK v, w : /\ pc' = [[pc EXCEPT ![t] = "wait"] EXCEPT ![v] = w]
                    /\ \/ w = "lockq" /\ pc[v] = "wait"
                       \/ w = [pc EXCEPT ![t] = "wait"][v]
    BY <1>2 DEF OpenBarrier
  <2>2. pc[t] = "prewait"
    BY DEF OpenBarrier
  <2> QED
    BY <2>1, <2>2
<1> QED
  BY <1>1, <1>2

\* A directory that is taken has all its entries still to be read.
LEMMA Inv4TakeDir ==
    ASSUME Inv1, Inv2, Inv4, NEW t \in Threads, mpc' # "exit", TakeDir(t) PROVE Inv4'
<1> USE PfindAssumption
<1>1. /\ pc[t] = "take" /\ g_is_search /\ pc' = [pc EXCEPT ![t] = "open"]
      /\ UNCHANGED <<dir_to_handle, reported>>
  BY DEF TakeDir, Goto
<1>2. /\ pc \in [Threads -> ThreadPC] /\ visits \in [Dirs -> Nat] /\ dir_queue \in Seq(Dirs)
      /\ removed_dir_entry \in [Threads -> Dirs \cup {NULL}]
      /\ unread \in [Threads -> SUBSET Entries]
  BY DEF Inv1, TypeOK
<1>4. PICK d \in Dirs : /\ BeginDir(t, d)
                        /\ dir_to_handle[t] \in Dirs => d = dir_to_handle[t]
                        /\ Range(dir_queue) \subseteq Range(dir_queue') \cup {d}
  BY TakenDir
<1>5. /\ removed_dir_entry' = [removed_dir_entry EXCEPT ![t] = d]
      /\ unread' = [unread EXCEPT ![t] = Listing(d)]
      /\ visits' = [visits EXCEPT ![d] = @ + 1]
  BY <1>4 DEF BeginDir
<1>6. unread[t] = {}
  BY <1>1 DEF Inv2, Reading, Working
<1>7. /\ pc'[t] = "open" /\ removed_dir_entry'[t] = d /\ unread'[t] = Listing(d)
      /\ \A u \in Threads \ {t} : /\ pc'[u] = pc[u] /\ unread'[u] = unread[u]
                                  /\ removed_dir_entry'[u] = removed_dir_entry[u]
  BY <1>1, <1>2, <1>5
<1>8. Visited(d)' /\ \A e \in Dirs \ {d} : Visited(e)' <=> Visited(e)
  <2>1. visits'[d] = visits[d] + 1 /\ \A e \in Dirs \ {d} : visits'[e] = visits[e]
    BY <1>2, <1>5
  <2>2. visits[d] \in Nat
    BY <1>2
  <2> QED
    BY <2>1, <2>2 DEF Visited
<1>9. \A e \in Dirs : Known(e) => Known(e)'
  BY <1>1, <1>4, <1>8 DEF Known
<1>10. Progress'
  <2>1. \A e \in Dirs : Visited(e)' =>
           Visited(e) \/ \E u \in Threads : Listing(e) \subseteq unread'[u]
    BY <1>7, <1>8
  <2>2. \A u \in Threads : \A e \in unread[u] : Left(e)'
    BY <1>6, <1>7 DEF Left
  <2> QED
    BY <1>1, <1>9, <2>1, <2>2, ProgressKept DEF Inv4
<1>11. HandedTaken'
  BY <1>1, <1>4, <1>7 DEF Inv4, HandedTaken
<1> QED
  BY <1>10, <1>11 DEF Inv4, ExitStatus

\* An entry that was read is reported, queued, handed over, or not to be searched.
LEMMA Inv4Consume ==
    ASSUME Inv1, Inv4, NEW t \in Threads, NEW e \in unread[t], Consume(t, e),
           UNCHANGED visits, reported \subseteq reported',
           \A d \in Dirs : Known(d) => Known(d)',
           e \in Dirs \ Denied => Known(e)', e \in Matches => e \in reported'
    PROVE  Progress'
<1>1. unread \in [Threads -> SUBSET Entries]
  BY DEF Inv1, TypeOK
<1>2. /\ unread'[t] = unread[t] \ {e}
      /\ \A u \in Threads \ {t} : unread'[u] = unread[u]
  BY <1>1 DEF Consume
<1>3. \A u \in Threads : \A x \in unread[u] : x = e \/ Left(x)'
  BY <1>2 DEF Left
<1>4. \A d \in Dirs : Visited(d)' <=> Visited(d)
  BY DEF Visited
<1> QED
  BY <1>3, <1>4, ProgressKept DEF Inv4

\* Reading an entry: a file, a directory that cannot be searched, and one that can, which
\* the longest idle thread gets, or else the queue.
LEMMA Inv4Entry ==
    ASSUME Inv1, Inv3, Inv4, NEW t \in Threads, mpc # "crashed", mpc' # "exit",
           ReadFile(t) \/ SkipDir(t) \/ HandOver(t) \/ QueueDir(t)
    PROVE  Inv4'
<1> USE PfindAssumption
<1>1. ExitStatus'
  BY DEF ExitStatus
<1>2. /\ pc \in [Threads -> ThreadPC] /\ dir_queue \in Seq(Dirs)
      /\ dir_to_handle \in [Threads -> Dirs \cup {NULL, GARBAGE}]
  BY DEF Inv1, TypeOK
<1>3. CASE ReadFile(t) \/ SkipDir(t)
  <2>1. PICK e \in unread[t] :
          /\ Consume(t, e) /\ reported \subseteq reported'
          /\ e \in Matches => e \in reported'
          /\ e \in Files \cup Denied
    BY <1>3 DEF ReadFile, SkipDir, hvars
  <2>2. UNCHANGED <<dir_queue, dir_to_handle, removed_dir_entry, visits, pc>>
    BY <1>3 DEF ReadFile, SkipDir, hvars, qvars
  <2>3. \A d \in Dirs : Known(d) => Known(d)'
    BY <2>2 DEF Known, Visited
  <2>4. Progress'
    BY <2>1, <2>2, <2>3, Inv4Consume
  <2>5. HandedTaken'
    BY <2>2 DEF Inv4, HandedTaken
  <2> QED
    BY <1>1, <2>4, <2>5 DEF Inv4
<1>4. CASE QueueDir(t)
  <2>1. PICK e \in (unread[t] \cap Dirs) \ Denied :
          Consume(t, e) /\ dir_queue' = Append(dir_queue, e)
    BY <1>4 DEF QueueDir, dir_enqueue
  <2>2. UNCHANGED <<dir_to_handle, removed_dir_entry, visits, reported, pc>>
    BY <1>4 DEF QueueDir, hvars
  <2>3. Range(dir_queue') = Range(dir_queue) \cup {e}
    BY <1>2, <2>1, EnqueueFacts
  <2>4. Known(e)' /\ \A d \in Dirs : Known(d) => Known(d)'
    BY <2>2, <2>3 DEF Known, Visited
  <2>5. Progress'
    BY <2>1, <2>2, <2>4, Inv4Consume
  <2>6. HandedTaken'
    BY <2>2 DEF Inv4, HandedTaken
  <2> QED
    BY <1>1, <2>5, <2>6 DEF Inv4
<1>5. CASE HandOver(t)
  <2>1. PICK u \in Threads, e \in Dirs :
          /\ pc[u] = "wait" /\ pc' = [pc EXCEPT ![u] = "lockq"]
          /\ e \in unread[t] \ Denied /\ Consume(t, e)
          /\ dir_to_handle[u] = NULL /\ dir_to_handle' = [dir_to_handle EXCEPT ![u] = e]
    BY <1>5, HandOverFacts
  <2>2. UNCHANGED <<dir_queue, removed_dir_entry, visits, reported>>
    BY <1>5 DEF HandOver, hvars
  <2>3. /\ pc'[u] = "lockq" /\ dir_to_handle'[u] = e
        /\ \A v \in Threads \ {u} : pc'[v] = pc[v] /\ dir_to_handle'[v] = dir_to_handle[v]
    BY <1>2, <2>1
  <2>4. Known(e)' /\ \A d \in Dirs : Known(d) => Known(d)'
    BY <2>1, <2>2, <2>3 DEF Known, Visited
  <2>5. Progress'
    BY <2>1, <2>2, <2>4, Inv4Consume
  <2>6. HandedTaken'
    BY <2>2, <2>3 DEF Inv4, HandedTaken
  <2> QED
    BY <1>1, <2>5, <2>6 DEF Inv4
<1> QED
  BY <1>3, <1>4, <1>5

\* A thread that moves has neither ended nor yet to be created, leaves the exit status
\* alone, and at most wakes main up or takes the process down.
LEMMA ThreadKeeps ==
    ASSUME NEW t \in Threads, Thread(t)
    PROVE  /\ pc[t] \notin {"unborn", "dead", "exited"} /\ UNCHANGED exit_status
           /\ mpc' = mpc \/ mpc' = "crashed" \/ (mpc = "fwait" /\ mpc' = "flock")
<1> USE DEF ivars
<1>1. CASE wait_for_start(t) \/ AllocEntry(t) \/ CheckSleep(t)
  BY <1>1 DEF wait_for_start, AllocEntry, CheckSleep
<1>2. CASE BecomeIdle(t)
  BY <1>2 DEF BecomeIdle, SignalFinish
<1>3. CASE OpenBarrier(t)
  BY <1>3 DEF OpenBarrier
<1>4. CASE Sleep(t) \/ ThreadExit(t) \/ TakeDir(t) \/ open_dir_and_check(t)
  BY <1>4 DEF Sleep, ThreadExit, TakeDir, open_dir_and_check
<1>5. CASE get_stat_Failure(t) \/ ReadFile(t) \/ SkipDir(t) \/ HandOver(t) \/ HandOverCrash(t)
  BY <1>5 DEF get_stat_Failure, ReadFile, SkipDir, HandOver, HandOverCrash
<1>6. CASE QueueDir(t) \/ QueueDirFailure(t) \/ EndDir(t)
  BY <1>6 DEF QueueDir, QueueDirFailure, EndDir
<1>7. CASE thread_exit_on_error(t)
  BY <1>7 DEF thread_exit_on_error, SignalFinish
<1> QED
  BY <1>1, <1>2, <1>3, <1>4, <1>5, <1>6, <1>7 DEF Thread

\* A thread's step forgets nothing.
LEMMA Inv4Thread ==
    ASSUME Inv1, Inv2, Inv3, Inv4, NEW t \in Threads, Thread(t) PROVE Inv4'
<1>1. pc[t] \notin {"dead", "exited"} /\ (mpc' = "exit" => mpc = "exit")
  BY ThreadKeeps
<1>2. mpc' # "exit" /\ mpc # "crashed"
  BY <1>1 DEF Inv4, ExitStatus, Thread
<1>3. pc \in [Threads -> ThreadPC]
  BY DEF Inv1, TypeOK
<1>4. ASSUME NEW l \in {"alloc", "start", "startwait", "lockq", "fail", "dead", "wait", "exited", "recheck"},
             UNCHANGED <<dir_queue, tvars, hvars>>, Goto(t, l) \/ UNCHANGED pc
      PROVE  Inv4'
  BY <1>2, <1>3, <1>4, Inv4Quiet DEF Goto
<1>5. CASE wait_for_start(t) \/ AllocEntry(t) \/ Sleep(t) \/ ThreadExit(t)
  <2>1. /\ UNCHANGED <<dir_queue, tvars, hvars>>
        /\ \E l \in {"alloc", "startwait", "lockq", "fail", "wait", "exited"} : Goto(t, l)
    BY <1>5 DEF wait_for_start, AllocEntry, Sleep, ThreadExit, qvars
  <2> QED
    BY <1>4, <2>1
<1>6. CASE get_stat_Failure(t) \/ HandOverCrash(t) \/ QueueDirFailure(t) \/ thread_exit_on_error(t)
  <2>1. /\ UNCHANGED <<dir_queue, tvars, hvars>>
        /\ Goto(t, "fail") \/ Goto(t, "dead") \/ UNCHANGED pc
    BY <1>6 DEF get_stat_Failure, HandOverCrash, QueueDirFailure, thread_exit_on_error, qvars
  <2> QED
    BY <1>4, <2>1
<1>7. CASE open_dir_and_check(t)
  <2>1. /\ pc[t] = "open" /\ UNCHANGED <<dir_queue, tvars, hvars>>
        /\ pc' = [pc EXCEPT ![t] = "iterate"] \/ pc' = [pc EXCEPT ![t] = "fail"]
    BY <1>7 DEF open_dir_and_check, qvars, Goto
  <2> QED
    BY <1>2, <1>3, <2>1, Inv4Quiet
<1>8. CASE OpenBarrier(t)
  <2>1. UNCHANGED <<dir_queue, tvars, hvars>>
    BY <1>8 DEF OpenBarrier
  <2>2. \A u \in Threads : pc'[u] = pc[u] \/ pc'[u] \in {"wait", "lockq", "recheck"}
    BY <1>3, <1>8, BarrierMoves
  <2> QED
    BY <1>2, <2>1, <2>2, Inv4Quiet
<1>9. CASE CheckSleep(t)
  BY <1>2, <1>9, Inv4CheckSleep
<1>10. CASE BecomeIdle(t) \/ EndDir(t)
  BY <1>2, <1>10, Inv4Forget
<1>11. CASE TakeDir(t)
  BY <1>2, <1>11, Inv4TakeDir
<1>12. CASE ReadFile(t) \/ SkipDir(t) \/ HandOver(t) \/ QueueDir(t)
  BY <1>2, <1>12, Inv4Entry
<1> QED
  BY <1>5, <1>6, <1>7, <1>8, <1>9, <1>10, <1>11, <1>12 DEF Thread

\* Nothing is forgotten in any state pfind reaches.
LEMMA Inv4Always == ASSUME NoSpurious PROVE Spec => []Inv4
<1>1. Init => Inv4
  BY PfindAssumption DEF Init, Inv4, Progress, Visited, HandedTaken, ExitStatus
<1>2. Inv1 /\ Inv2 /\ Inv3 /\ Inv4 /\ [Next]_vars => Inv4'
  <2> SUFFICES ASSUME Inv1, Inv2, Inv3, Inv4, [Next]_vars PROVE Inv4'
    OBVIOUS
  <2>1. CASE UNCHANGED vars
    BY <2>1, Inv4Quiet DEF vars, ivars, qvars
  <2> QED
    BY <2>1, Inv4Main, Inv4Thread DEF Next, Done, SpuriousWakeup, NoSpurious
<1> QED
  BY <1>1, <1>2, Inv1Always, Inv2Always, Inv3Always, PTL DEF Spec

\* When the search is over and nobody failed, everything known has been searched.
LEMMA AllSearched ==
    ASSUME Inv1, Inv2, Inv3, mpc \in Over, g_failed_threads = 0
    PROVE  /\ Visited(Root) /\ \A d \in Dirs : Known(d) => Visited(d)
           /\ \A t \in Threads : removed_dir_entry[t] = NULL /\ unread[t] = {}
<1>1. \A t \in Threads : ~Failed(t)
  <2>1. Cardinality(Dead) = 0
    BY DEF Inv3, FailedCount, Over
  <2>2. IsFiniteSet(Dead)
    <3>1. IsFiniteSet(Threads) /\ Dead \subseteq Threads
      BY PfindAssumption, FS_Interval DEF Threads, Dead
    <3> QED
      BY <3>1, FS_Subset
  <2>3. Dead = {}
    BY <2>1, <2>2, FS_EmptySet
  <2> QED
    BY <2>3 DEF Dead, Failed
<1>2. dir_queue = <<>> /\ AllOut
  <2>1. 0 \in Threads
    BY PfindAssumption DEF Threads
  <2> QED
    BY <1>1, <2>1 DEF Inv3, Stopped
<1>3. \A t \in Threads : dir_to_handle[t] = NULL /\ removed_dir_entry[t] = NULL /\ unread[t] = {}
  <2>1. \A t \in Threads : Idle(t)
    BY <1>1, <1>2 DEF AllOut
  <2>2. \A t \in Threads : pc[t] \notin Working
    BY <2>1 DEF Idle, Inv3, IdleAsleep, Working
  <2> QED
    BY <2>1, <2>2 DEF Idle, Inv3, IdleNull, Inv2, Reading
<1>4. Visited(Root)
  <2>1. dir_queue # <<Root>>
    BY <1>2
  <2> QED
    BY <2>1 DEF Inv3, RootFirst, Unstarted, Over
<1>5. \A d \in Dirs : Known(d) => Visited(d)
  BY <1>2, <1>3, EmptyQueue, PfindAssumption DEF Known
<1> QED
  BY <1>3, <1>4, <1>5

\* Status 0 is what main returns, and nothing happens after that.
ZeroAtExit == exit_status = 0 => mpc = "exit"

\* Only a failure to queue the root would end the process with 0 before a search.
LEMMA ZeroAtExitAlways ==
    ASSUME NoSpurious, "root_entry" \notin Faults PROVE Spec => []ZeroAtExit
<1>1. Init => ZeroAtExit
  BY PfindAssumption DEF Init, ZeroAtExit
<1>2. Inv4 /\ ZeroAtExit /\ [Next]_vars => ZeroAtExit'
  <2> SUFFICES ASSUME Inv4, ZeroAtExit, [Next]_vars PROVE ZeroAtExit'
    OBVIOUS
  <2> USE DEF ivars, ZeroAtExit
  <2>1. CASE UNCHANGED vars \/ Done
    BY <2>1 DEF vars, Done
  <2>2. CASE MainSetup \/ MainInit \/ MainJoin
    BY <2>2 DEF MainSetup, MainInit, MainJoin
  <2>3. CASE MainCreate \/ MainCvInit \/ MainStart \/ MainLockFinish
    BY <2>3 DEF MainCreate, MainCvInit, MainStart, MainLockFinish
  <2>4. CASE MainEvalDir \/ MainEvalThreads \/ MainStop \/ MainSignalAll
    BY <2>4 DEF MainEvalDir, MainEvalThreads, MainStop, MainSignalAll
  <2>5. ASSUME NEW t \in Threads, Thread(t) PROVE ZeroAtExit'
    BY <2>5, ThreadKeeps DEF Inv4, ExitStatus
  <2> QED
    BY <2>1, <2>2, <2>3, <2>4, <2>5 DEF Next, Main, SpuriousWakeup, NoSpurious
<1> QED
  BY <1>1, <1>2, Inv4Always, PTL DEF Spec

\* A process that ends with status 0 has searched the root and every searchable directory
\* under it, and printed every matching file: for every tree, any number of threads and
\* whatever fails, as long as pthread_cond_wait returns only after a signal and main could
\* queue the root.
THEOREM CompleteSearchAlways ==
    ASSUME NoSpurious, "root_entry" \notin Faults PROVE Spec => []CompleteSearch
<1>1. Inv1 /\ Inv2 /\ Inv3 /\ Inv4 /\ ZeroAtExit => CompleteSearch
  <2> SUFFICES ASSUME Inv1, Inv2, Inv3, Inv4, mpc = "exit", exit_status = 0
               PROVE  /\ Visited(Root)
                      /\ \A d \in Dirs : Visited(d) =>
                            \A e \in Listing(d) : /\ e \in Dirs \ Denied => Visited(e)
                                                  /\ e \in Matches => e \in reported
    BY DEF CompleteSearch, ZeroAtExit
  <2>1. /\ Visited(Root) /\ \A d \in Dirs : Known(d) => Visited(d)
        /\ \A t \in Threads : unread[t] = {}
    BY AllSearched DEF Inv4, ExitStatus, Over
  <2>2. \A e : ~Left(e)
    BY <2>1 DEF Left
  <2> QED
    BY <2>1, <2>2 DEF Inv4, Progress
<1> QED
  BY <1>1, Inv1Always, Inv2Always, Inv3Always, Inv4Always, ZeroAtExitAlways, PTL

-----------------------------------------------------------------------------
(***************************************************************************)
(* The refinement of FileSearch.  It holds unless a thread fails before it *)
(* has a directory to lose (thread_entry), or main fails and exits with 0  *)
(* (root_entry).                                                           *)
(***************************************************************************)
FailsInSearch == Faults \cap {"spurious", "thread_entry", "root_entry"} = {}

\* A thread that searches or failed has its directory; main has yet to return.
HasDir == \A t \in Threads : pc[t] \in Working => removed_dir_entry[t] \in Dirs
NoStatus == mpc \notin {"exit", "aborted"} => exit_status = NULL
Inv5 == HasDir /\ NoStatus

\* Threads fail only while they search.
LEMMA Inv5Thread ==
    ASSUME FailsInSearch, Inv1, Inv3, Inv4, Inv5, NEW t \in Threads, Thread(t) PROVE Inv5'
<1> USE PfindAssumption
<1>1. /\ pc \in [Threads -> ThreadPC]
      /\ removed_dir_entry \in [Threads -> Dirs \cup {NULL}]
      /\ "thread_entry" \notin Faults
  BY DEF Inv1, TypeOK, FailsInSearch
<1>2. ASSUME NEW l \in ThreadPC, Goto(t, l), UNCHANGED removed_dir_entry,
             l \in Working => pc[t] \in Working
      PROVE  HasDir'
  <2>1. pc'[t] = l /\ \A u \in Threads \ {t} : pc'[u] = pc[u]
    BY <1>1, <1>2 DEF Goto
  <2> QED
    BY <1>2, <2>1 DEF Inv5, HasDir
<1>3. ASSUME UNCHANGED <<pc, removed_dir_entry>> PROVE HasDir'
  BY <1>3 DEF Inv5, HasDir
<1>4. CASE wait_for_start(t) \/ AllocEntry(t) \/ CheckSleep(t)
  <2>1. /\ UNCHANGED <<removed_dir_entry, exit_status, mpc>>
        /\ \E l \in {"alloc", "startwait", "lockq", "enqueue", "take"} : Goto(t, l)
    BY <1>1, <1>4 DEF wait_for_start, AllocEntry, CheckSleep, tvars, ivars
  <2>2. HasDir'
    BY <1>2, <2>1 DEF ThreadPC, Working
  <2> QED
    BY <2>1, <2>2 DEF Inv5, NoStatus
<1>5. CASE BecomeIdle(t)
  <2>1. /\ UNCHANGED <<removed_dir_entry, exit_status>> /\ Goto(t, "prewait")
        /\ mpc' = mpc \/ (mpc = "fwait" /\ mpc' = "flock")
    BY <1>5 DEF BecomeIdle, SignalFinish, ivars
  <2>2. HasDir'
    BY <1>2, <2>1 DEF ThreadPC, Working
  <2> QED
    BY <2>1, <2>2 DEF Inv5, NoStatus
<1>6. CASE OpenBarrier(t)
  <2>1. UNCHANGED <<removed_dir_entry, exit_status, mpc>>
    BY <1>6 DEF OpenBarrier, tvars, ivars
  <2>2. \A u \in Threads : pc'[u] = pc[u] \/ pc'[u] \in {"wait", "lockq", "recheck"}
    BY <1>1, <1>6, BarrierMoves
  <2>3. HasDir'
    BY <2>1, <2>2 DEF Inv5, HasDir, Working
  <2> QED
    BY <2>1, <2>3 DEF Inv5, NoStatus
<1>7. CASE Sleep(t) \/ ThreadExit(t)
  <2>1. /\ UNCHANGED <<removed_dir_entry, exit_status, mpc>>
        /\ \E l \in {"wait", "exited"} : Goto(t, l)
    BY <1>7 DEF Sleep, ThreadExit, tvars, ivars
  <2>2. HasDir'
    BY <1>2, <2>1 DEF ThreadPC, Working
  <2> QED
    BY <2>1, <2>2 DEF Inv5, NoStatus
<1>8. CASE TakeDir(t)
  <2>1. PICK d \in Dirs : BeginDir(t, d)
    BY <1>8, TakenDir
  <2>2. /\ pc' = [pc EXCEPT ![t] = "open"] /\ UNCHANGED <<exit_status, mpc>>
        /\ removed_dir_entry' = [removed_dir_entry EXCEPT ![t] = d]
    BY <1>8, <2>1 DEF TakeDir, BeginDir, Goto, ivars
  <2>3. HasDir'
    BY <1>1, <2>2 DEF Inv5, HasDir
  <2> QED
    BY <2>2, <2>3 DEF Inv5, NoStatus
<1>9. CASE open_dir_and_check(t) \/ get_stat_Failure(t) \/ QueueDirFailure(t)
  <2>1. /\ UNCHANGED <<removed_dir_entry, exit_status, mpc>> /\ pc[t] \in {"open", "iterate"}
        /\ \E l \in {"iterate", "fail"} : Goto(t, l)
    BY <1>9 DEF open_dir_and_check, get_stat_Failure, QueueDirFailure, tvars, ivars
  <2>2. HasDir'
    BY <1>2, <2>1 DEF ThreadPC, Working
  <2> QED
    BY <2>1, <2>2 DEF Inv5, NoStatus
<1>10. CASE ReadFile(t) \/ SkipDir(t) \/ QueueDir(t)
  <2>1. UNCHANGED <<removed_dir_entry, exit_status, mpc, pc>>
    BY <1>10 DEF ReadFile, SkipDir, QueueDir, ivars
  <2> QED
    BY <1>3, <2>1 DEF Inv5, NoStatus
<1>11. CASE HandOver(t)
  <2>1. UNCHANGED <<removed_dir_entry, exit_status, mpc>>
    BY <1>11 DEF HandOver, ivars
  <2>2. PICK u \in Threads : pc' = [pc EXCEPT ![u] = "lockq"]
    BY <1>11, HandOverFacts DEF Thread
  <2>3. HasDir'
    BY <1>1, <2>1, <2>2 DEF Inv5, HasDir, Working
  <2> QED
    BY <2>1, <2>3 DEF Inv5, NoStatus
<1>12. CASE HandOverCrash(t)
  <2>1. UNCHANGED <<removed_dir_entry, exit_status, pc>> /\ pc[t] = "iterate"
    BY <1>12 DEF HandOverCrash, ivars, tvars
  <2>2. mpc \notin {"exit", "aborted"}
    BY <2>1, Running DEF Inv4, ExitStatus, Unstarted
  <2> QED
    BY <1>3, <2>1, <2>2 DEF Inv5, NoStatus
<1>13. CASE EndDir(t)
  <2>1. /\ UNCHANGED <<exit_status, mpc>> /\ pc' = [pc EXCEPT ![t] = "lockq"]
        /\ removed_dir_entry' = [removed_dir_entry EXCEPT ![t] = NULL]
    BY <1>13 DEF EndDir, Goto, ivars
  <2>2. HasDir'
    BY <1>1, <2>1 DEF Inv5, HasDir, Working
  <2> QED
    BY <2>1, <2>2 DEF Inv5, NoStatus
<1>14. CASE thread_exit_on_error(t)
  <2>1. /\ UNCHANGED <<removed_dir_entry, exit_status>> /\ pc[t] = "fail" /\ Goto(t, "dead")
        /\ mpc' = mpc \/ (mpc = "fwait" /\ mpc' = "flock")
    BY <1>14 DEF thread_exit_on_error, SignalFinish, tvars, ivars
  <2>2. HasDir'
    BY <1>2, <2>1 DEF ThreadPC, Working
  <2> QED
    BY <2>1, <2>2 DEF Inv5, NoStatus
<1> QED
  BY <1>4, <1>5, <1>6, <1>7, <1>8, <1>9, <1>10, <1>11, <1>12, <1>13, <1>14 DEF Thread

\* main touches neither, but for the status that it returns.
LEMMA Inv5Main == ASSUME Inv1, Inv5, Main PROVE Inv5'
<1> USE DEF tvars, ivars
<1>1. pc \in [Threads -> ThreadPC]
  BY DEF Inv1, TypeOK
<1>2. ASSUME UNCHANGED removed_dir_entry,
             \A u \in Threads : pc'[u] = pc[u] \/ pc'[u] \notin Working
      PROVE  HasDir'
  BY <1>2 DEF Inv5, HasDir
<1>3. CASE MainSetup \/ MainInit \/ MainCvInit \/ MainJoin
  <2>1. UNCHANGED <<removed_dir_entry, pc>> /\ NoStatus'
    BY <1>3 DEF MainSetup, MainInit, MainCvInit, MainJoin, Inv5, NoStatus
  <2> QED
    BY <1>2, <2>1 DEF Inv5
<1>4. CASE MainCreate
  <2>1. /\ UNCHANGED removed_dir_entry /\ NoStatus'
        /\ pc' = [pc EXCEPT ![t_id] = "start"] \/ UNCHANGED pc
    BY <1>4 DEF MainCreate, Goto, Inv5, NoStatus
  <2> QED
    BY <1>1, <1>2, <2>1 DEF Inv5, Working
<1>5. CASE MainStart \/ MainSignalAll
  <2>1. UNCHANGED removed_dir_entry /\ NoStatus'
    BY <1>5 DEF MainStart, MainSignalAll, Inv5, NoStatus
  <2>2. \A u \in Threads : pc'[u] = pc[u] \/ pc'[u] \in {"start", "lockq"}
    BY <1>5 DEF MainStart, MainSignalAll
  <2> QED
    BY <1>2, <2>1, <2>2 DEF Inv5, Working
<1>6. CASE MainLockFinish \/ MainEvalDir \/ MainEvalThreads \/ MainStop
  <2>1. UNCHANGED <<removed_dir_entry, pc>> /\ NoStatus'
    BY <1>6 DEF MainLockFinish, MainEvalDir, MainEvalThreads, MainStop, WaitOrStop, Inv5, NoStatus
  <2> QED
    BY <1>2, <2>1 DEF Inv5
<1> QED
  BY <1>3, <1>4, <1>5, <1>6 DEF Main

\* It holds throughout.
LEMMA Inv5Always == ASSUME FailsInSearch PROVE Spec => []Inv5
<1>1. NoSpurious
  BY DEF FailsInSearch, NoSpurious
<1>2. Init => Inv5
  BY DEF Init, Inv5, HasDir, NoStatus, Working
<1>3. Inv1 /\ Inv3 /\ Inv4 /\ Inv5 /\ [Next]_vars => Inv5'
  <2> SUFFICES ASSUME Inv1, Inv3, Inv4, Inv5, [Next]_vars PROVE Inv5'
    OBVIOUS
  <2>1. CASE UNCHANGED vars
    BY <2>1 DEF vars, tvars, ivars, Inv5, HasDir, NoStatus
  <2> QED
    BY <1>1, <2>1, Inv5Main, Inv5Thread DEF Next, Done, SpuriousWakeup, NoSpurious
<1> QED
  BY <1>1, <1>2, <1>3, Inv1Always, Inv3Always, Inv4Always, PTL DEF Spec

\* Threads run only in a search that has begun.
LEMMA ThreadBegun == ASSUME Inv1, Inv3, NEW t \in Threads, Thread(t) PROVE Begun /\ Begun'
  BY ThreadKeeps, Running DEF Begun, Unstarted

\* While main_init allocates, the root is all that is known.
RootKnown == mpc = "init" => \A d \in Dirs : Known(d) <=> d = Root

\* main has just queued it, and no thread runs.
LEMMA RootKnownAlways == ASSUME NoSpurious PROVE Spec => []RootKnown
<1>1. Init => RootKnown
  BY DEF Init, RootKnown
<1>2. Inv1 /\ Inv2 /\ Inv3 /\ RootKnown /\ [Next]_vars => RootKnown'
  <2> SUFFICES ASSUME Inv1, Inv2, Inv3, RootKnown, [Next]_vars, mpc' = "init"
               PROVE  \A d \in Dirs : Known(d)' <=> d = Root
    BY DEF RootKnown, Known, Visited
  <2>1. CASE UNCHANGED vars \/ Done
    BY <2>1 DEF vars, Done, qvars, tvars, hvars, RootKnown, Known, Visited
  <2>2. CASE MainSetup
    <3>1. /\ \A d \in Dirs : ~Known(d)
          /\ dir_queue' = Append(dir_queue, Root) /\ UNCHANGED <<tvars, hvars>>
      BY <2>2 DEF MainSetup, dir_enqueue, Inv2, NothingKnown
    <3>2. Range(dir_queue') = Range(dir_queue) \cup {Root}
      BY <3>1, EnqueueFacts, PfindAssumption DEF Inv1, TypeOK
    <3> QED
      BY <3>1, <3>2 DEF Known, Visited, tvars, hvars
  <2>3. ~MainInit /\ ~MainCreate /\ ~MainCvInit /\ ~MainStart /\ ~MainLockFinish
    BY DEF MainInit, MainCreate, MainCvInit, MainStart, MainLockFinish
  <2>4. ~MainEvalDir /\ ~MainEvalThreads /\ ~MainStop /\ ~MainSignalAll /\ ~MainJoin
    BY DEF MainEvalDir, MainEvalThreads, WaitOrStop, MainStop, MainSignalAll, MainJoin
  <2>5. \A t \in Threads : ~Thread(t)
    BY ThreadBegun DEF Begun
  <2> QED
    BY <2>1, <2>2, <2>3, <2>4, <2>5 DEF Next, Main, SpuriousWakeup, NoSpurious
<1> QED
  BY <1>1, <1>2, Inv1Always, Inv2Always, Inv3Always, PTL DEF Spec

\* The abstract variables in terms of what the proofs know.
LEMMA SearchState ==
    /\ Found = {d \in Dirs : Begun /\ Known(d)}
    /\ Closed \subseteq Dirs /\ Lost \subseteq Dirs
    /\ \A d : d \in Closed <=> d \in Dirs /\ Visited(d) /\ \A t \in Threads : removed_dir_entry[t] # d
    /\ \A d : d \in Lost <=> d \in Dirs /\ \E t \in Threads : /\ removed_dir_entry[t] = d
                                                             /\ pc[t] \in {"fail", "dead"}
  BY DEF Found, Closed, Lost, Known, Begun

\* And after a step.
LEMMA SearchStateNext ==
    /\ Found' = {d \in Dirs : Begun' /\ Known(d)'}
    /\ Closed' \subseteq Dirs /\ Lost' \subseteq Dirs
    /\ \A d : d \in Closed' <=> d \in Dirs /\ Visited(d)' /\ \A t \in Threads : removed_dir_entry'[t] # d
    /\ \A d : d \in Lost' <=> d \in Dirs /\ \E t \in Threads : /\ removed_dir_entry'[t] = d
                                                              /\ pc'[t] \in {"fail", "dead"}
  BY DEF Found, Closed, Lost, Known, Visited, Begun

\* The directory that a thread searches is open.
LEMMA SearchedIsOpen ==
    ASSUME Inv1, Inv2, Inv3, Inv4, Inv5, NEW t \in Threads, pc[t] \in {"open", "iterate"}
    PROVE  /\ removed_dir_entry[t] \in Search!Open /\ Visited(removed_dir_entry[t])
           /\ removed_dir_entry[t] \in Dirs /\ exit_status = NULL
           /\ \A u \in Threads \ {t} : removed_dir_entry[u] # removed_dir_entry[t]
           /\ \A e \in unread[t] : /\ e \in Entries \ {Root} /\ Parent[e] = removed_dir_entry[t]
                                   /\ e \notin reported /\ (e \in Dirs => ~Known(e))
<1>1. PICK d : d = removed_dir_entry[t]
  OBVIOUS
<1>2. d \in Dirs
  BY <1>1 DEF Inv5, HasDir, Working
<1>3. d # NULL
  BY <1>2, PfindAssumption
<1>4. /\ Visited(d) /\ unread[t] \subseteq Listing(d)
      /\ \A u \in Threads \ {t} : removed_dir_entry[u] # d
  BY <1>1, <1>3 DEF Inv2, Reading
<1>5. d \in Found /\ d \notin Closed /\ d \notin Lost
  <2>1. Begun /\ Known(d)
    BY <1>4, Running DEF Known, Begun, Unstarted
  <2> QED
    BY <1>1, <1>2, <1>4, <2>1, SearchState
<1>6. exit_status = NULL
  BY Running DEF Inv5, NoStatus, Inv4, ExitStatus, Unstarted
<1>7. \A e \in unread[t] : e \in Entries \ {Root} /\ Parent[e] = d
  BY <1>4 DEF Listing
<1>8. \A e \in unread[t] : e \notin reported /\ (e \in Dirs => ~Known(e))
  BY DEF Inv2, UnreadNew
<1> QED
  BY <1>1, <1>2, <1>4, <1>5, <1>6, <1>7, <1>8 DEF Search!Open

\* Steps that neither open nor close nor lose a directory.
LEMMA SameSearched ==
    ASSUME UNCHANGED <<visits, removed_dir_entry>>,
           \A t \in Threads : pc'[t] \in {"fail", "dead"} <=> pc[t] \in {"fail", "dead"}
    PROVE  Closed' = Closed /\ Lost' = Lost
<1>1. \A d : Visited(d)' <=> Visited(d)
  BY DEF Visited
<1>2. Closed' = Closed
  BY <1>1, SearchState, SearchStateNext
<1>3. Lost' = Lost
  BY SearchState, SearchStateNext
<1> QED
  BY <1>2, <1>3

\* Steps that make no directory known.
LEMMA SameFound ==
    ASSUME Begun' <=> Begun, \A d \in Dirs : Known(d)' <=> Known(d)
    PROVE  Found' = Found
  BY SearchState, SearchStateNext

\* Steps that the search does not see.
LEMMA Unseen ==
    ASSUME Begun' <=> Begun, \A d \in Dirs : Known(d)' <=> Known(d),
           UNCHANGED <<visits, removed_dir_entry, reported, exit_status>>,
           \A t \in Threads : pc'[t] \in {"fail", "dead"} <=> pc[t] \in {"fail", "dead"}
    PROVE  UNCHANGED Search!vars
<1>1. Found' = Found
  BY SameFound
<1>2. Closed' = Closed /\ Lost' = Lost
  BY SameSearched
<1> QED
  BY <1>1, <1>2 DEF Search!vars

\* main begins the search, and ends it as its outcome requires.
LEMMA SearchMain ==
    ASSUME FailsInSearch, Inv1, Inv2, Inv3, Inv4, Inv5, RootKnown, Main
    PROVE  Search!Next \/ UNCHANGED Search!vars
<1> USE PfindAssumption DEF tvars, hvars, qvars, ivars
<1>1. pc \in [Threads -> ThreadPC] /\ "root_entry" \notin Faults
  BY DEF Inv1, TypeOK, FailsInSearch
<1>2. ASSUME UNCHANGED <<dir_queue, tvars, hvars, exit_status>>, Begun' <=> Begun,
             \A u \in Threads : \/ pc'[u] = pc[u]
                                \/ {pc'[u], pc[u]} \cap {"fail", "dead"} = {}
      PROVE  UNCHANGED Search!vars
  <2>1. \A d \in Dirs : Known(d)' <=> Known(d)
    BY <1>2 DEF Known, Visited
  <2> QED
    BY <1>2, <2>1, Unseen
<1>3. CASE MainSetup \/ MainInit
  <2>1. /\ UNCHANGED <<tvars, hvars, pc>> /\ exit_status = NULL /\ ~Begun
        /\ \/ UNCHANGED exit_status /\ ~Begun'
           \/ UNCHANGED exit_status /\ mpc = "init" /\ mpc' = "create" /\ UNCHANGED dir_queue
           \/ exit_status' = 1 /\ ~Begun'
    BY <1>1, <1>3 DEF MainSetup, MainInit, Inv5, NoStatus, Begun
  <2>2. Found = {} /\ Closed' = Closed /\ Lost' = Lost
    <3>1. Found = {}
      BY <2>1, SearchState
    <3> QED
      BY <2>1, <3>1, SameSearched
  <2>3. ~Begun' => Found' = Found
    <3>1. ~Begun' => Found' = {}
      BY SearchStateNext
    <3> QED
      BY <2>2, <3>1
  <2>4. CASE UNCHANGED exit_status /\ ~Begun'
    BY <2>1, <2>2, <2>3, <2>4 DEF Search!vars
  <2>5. CASE exit_status' = 1 /\ ~Begun'
    BY <2>1, <2>2, <2>3, <2>5 DEF Search!Next, Search!End
  <2>6. CASE UNCHANGED exit_status /\ mpc = "init" /\ mpc' = "create" /\ UNCHANGED dir_queue
    <3>1. Begun' /\ \A d \in Dirs : Known(d)' <=> d = Root
      BY <2>1, <2>6 DEF RootKnown, Known, Visited, Begun
    <3>2. Found' = {Root}
      BY <3>1, SearchStateNext
    <3> QED
      BY <2>1, <2>2, <2>6, <3>2 DEF Search!Next, Search!Begin
  <2> QED
    BY <2>1, <2>4, <2>5, <2>6
<1>4. CASE MainCreate \/ MainCvInit
  <2>1. /\ UNCHANGED <<dir_queue, tvars, hvars, exit_status>>
        /\ (mpc = "create" /\ pc' = [pc EXCEPT ![t_id] = "start"]) \/ UNCHANGED pc
        /\ Begun' <=> Begun
    BY <1>4 DEF MainCreate, MainCvInit, Goto, Begun
  <2>2. mpc = "create" => \A u \in Threads : pc[u] \in Waiting
    BY DEF Inv1, Gate, Preparing
  <2> QED
    BY <1>1, <1>2, <2>1, <2>2 DEF Waiting
<1>5. CASE MainStart \/ MainSignalAll
  BY <1>2, <1>5 DEF MainStart, MainSignalAll, Begun
<1>6. CASE MainLockFinish \/ MainEvalDir \/ MainEvalThreads \/ MainStop
  BY <1>2, <1>6 DEF MainLockFinish, MainEvalDir, MainEvalThreads, MainStop, WaitOrStop, Begun
<1>7. CASE MainJoin
  <2>1. /\ mpc = "join" /\ UNCHANGED <<dir_queue, tvars, hvars, pc>> /\ exit_status = NULL
        /\ exit_status' = IF g_failed_threads # 0 THEN 1 ELSE 0
        /\ Begun /\ Begun'
    BY <1>7 DEF MainJoin, Inv5, NoStatus, Begun
  <2>2. UNCHANGED <<Found, Closed, Lost>>
    <3>1. \A d \in Dirs : Known(d)' <=> Known(d)
      BY <2>1 DEF Known, Visited
    <3>2. Found' = Found
      BY <2>1, <3>1, SameFound
    <3> QED
      BY <2>1, <3>2, SameSearched
  <2>3. g_failed_threads = Cardinality(Dead) /\ IsFiniteSet(Dead)
    <3>1. IsFiniteSet(Threads) /\ Dead \subseteq Threads
      BY FS_Interval DEF Threads, Dead
    <3> QED
      BY <2>1, <3>1, FS_Subset DEF Inv3, FailedCount
  <2>4. CASE g_failed_threads # 0
    <3>1. PICK t \in Threads : pc[t] = "dead"
      <4>1. Dead # {}
        BY <2>3, <2>4, FS_EmptySet
      <4> QED
        BY <4>1 DEF Dead
    <3>2. removed_dir_entry[t] \in Lost
      BY <3>1, SearchState DEF Inv5, HasDir, Working
    <3> QED
      BY <2>1, <2>2, <2>4, <3>2 DEF Search!Next, Search!End
  <2>5. CASE g_failed_threads = 0
    <3>1. /\ Visited(Root) /\ \A d \in Dirs : Known(d) => Visited(d)
          /\ \A t \in Threads : removed_dir_entry[t] = NULL
      BY <2>1, <2>5, AllSearched DEF Over
    <3>2. Root \in Found
      BY <2>1, <3>1, SearchState DEF Known
    <3>3. Found = Closed
      <4>1. \A d \in Dirs : Visited(d) => Known(d)
        BY DEF Known
      <4> QED
        BY <2>1, <3>1, <4>1, SearchState
    <3> QED
      BY <2>1, <2>2, <2>5, <3>2, <3>3 DEF Search!Next, Search!End
  <2> QED
    BY <2>4, <2>5
<1> QED
  BY <1>3, <1>4, <1>5, <1>6, <1>7 DEF Main

\* Sets of directories with the same members are equal.
LEMMA SameSet ==
    ASSUME NEW S, NEW T, S \subseteq Dirs, T \subseteq Dirs, \A d \in Dirs : d \in S <=> d \in T
    PROVE  S = T
  OBVIOUS

\* A thread loses the directory it fails on.
LEMMA SearchLose ==
    ASSUME Inv1, Inv2, Inv3, Inv4, Inv5, NEW t \in Threads, pc[t] \in {"open", "iterate"},
           pc' = [pc EXCEPT ![t] = "fail"],
           UNCHANGED <<dir_queue, tvars, hvars, exit_status>>, Begun, Begun'
    PROVE  Search!Next
<1> USE DEF tvars, hvars
<1>1. PICK d : d = removed_dir_entry[t]
  OBVIOUS
<1>2. d \in Search!Open /\ d \in Dirs /\ exit_status = NULL
  BY <1>1, SearchedIsOpen
<1>3. pc'[t] = "fail" /\ \A u \in Threads \ {t} : pc'[u] = pc[u]
  BY DEF Inv1, TypeOK
<1>4. Found' = Found
  <2>1. \A e \in Dirs : Known(e)' <=> Known(e)
    BY DEF Known, Visited
  <2> QED
    BY <2>1, SameFound
<1>5. Closed' = Closed
  <2>1. \A e : Visited(e)' <=> Visited(e)
    BY DEF Visited
  <2> QED
    BY <2>1, SearchState, SearchStateNext
<1>6. Lost' = Lost \cup {d}
  <2>1. ASSUME NEW e PROVE e \in Lost' <=> e \in Lost \/ e = d
    BY <1>1, <1>2, <1>3, SearchState, SearchStateNext
  <2> QED
    BY <2>1
<1> QED
  BY <1>2, <1>4, <1>5, <1>6 DEF Search!Next, Search!Lose

\* A subdirectory that becomes known is discovered.
LEMMA SearchDiscover ==
    ASSUME Inv1, Inv2, Inv3, Inv4, Inv5, NEW t \in Threads, pc[t] = "iterate",
           NEW e \in Dirs, e \in unread[t], e \notin Denied,
           \A d \in Dirs : Known(d)' <=> Known(d) \/ d = e,
           \A u \in Threads : pc'[u] \in {"fail", "dead"} <=> pc[u] \in {"fail", "dead"},
           UNCHANGED <<visits, removed_dir_entry, reported, exit_status>>, Begun, Begun'
    PROVE  Search!Next
<1>1. /\ Parent[e] \in Search!Open /\ exit_status = NULL /\ e # Root /\ ~Known(e)
  BY SearchedIsOpen
<1>2. Found' = Found \cup {e} /\ e \notin Found
  BY <1>1, SearchState, SearchStateNext
<1>3. Closed' = Closed /\ Lost' = Lost
  BY SameSearched
<1> QED
  BY <1>1, <1>2, <1>3 DEF Search!Next, Search!Discover

\* Taking a directory that is known opens it: nothing that the search sees.
LEMMA SearchTake ==
    ASSUME Inv1, Inv2, Inv3, Inv4, Inv5, NEW t \in Threads, TakeDir(t), Begun, Begun'
    PROVE  UNCHANGED Search!vars
<1> USE PfindAssumption
<1>1. PICK d \in Dirs : /\ BeginDir(t, d) /\ Known(d)
                        /\ dir_to_handle[t] \in Dirs => d = dir_to_handle[t]
                        /\ dir_to_handle[t] \notin Dirs => d \in Range(dir_queue)
                        /\ Range(dir_queue) \subseteq Range(dir_queue') \cup {d}
                        /\ Range(dir_queue') \subseteq Range(dir_queue)
  BY TakenDir
<1>2. /\ pc[t] = "take" /\ pc' = [pc EXCEPT ![t] = "open"]
      /\ removed_dir_entry' = [removed_dir_entry EXCEPT ![t] = d]
      /\ visits' = [visits EXCEPT ![d] = @ + 1]
      /\ UNCHANGED <<dir_to_handle, reported, exit_status>>
  BY <1>1 DEF TakeDir, BeginDir, Goto, ivars
<1>3. /\ pc \in [Threads -> ThreadPC] /\ visits \in [Dirs -> Nat]
      /\ removed_dir_entry \in [Threads -> Dirs \cup {NULL}]
  BY DEF Inv1, TypeOK
<1>4. removed_dir_entry[t] = NULL
  BY <1>2 DEF Inv2, Reading, Working
<1>5. visits[d] = 0
  <2>1. CASE dir_to_handle[t] \in Dirs
    BY <1>1, <1>4, <2>1 DEF Inv2, HandedNew
  <2>2. CASE dir_to_handle[t] \notin Dirs
    BY <1>1, <2>2 DEF Inv2, QueuedNew
  <2> QED
    BY <2>1, <2>2
<1>6. /\ pc'[t] = "open" /\ removed_dir_entry'[t] = d
      /\ \A u \in Threads \ {t} : pc'[u] = pc[u] /\ removed_dir_entry'[u] = removed_dir_entry[u]
  BY <1>2, <1>3
<1>7. ~Visited(d) /\ Visited(d)' /\ \A e \in Dirs \ {d} : Visited(e)' <=> Visited(e)
  <2>1. visits'[d] = visits[d] + 1 /\ \A e \in Dirs \ {d} : visits'[e] = visits[e]
    BY <1>2, <1>3
  <2> QED
    BY <1>5, <2>1 DEF Visited
<1>8. Found' = Found
  <2>1. \A e \in Dirs : Known(e)' <=> Known(e)
    BY <1>1, <1>2, <1>7 DEF Known
  <2> QED
    BY <2>1, SameFound
<1>9. Closed' = Closed
  <2>1. ASSUME NEW e \in Dirs PROVE e \in Closed' <=> e \in Closed
    <3>1. CASE e = d
      <4>1. d \notin Closed
        BY <1>7, SearchState
      <4>2. d \notin Closed'
        BY <1>6, SearchStateNext
      <4> QED
        BY <3>1, <4>1, <4>2
    <3>2. CASE e # d
      <4>1. (\A u \in Threads : removed_dir_entry'[u] # e)
              <=> \A u \in Threads : removed_dir_entry[u] # e
        BY <1>4, <1>6, <3>2
      <4> QED
        BY <1>7, <3>2, <4>1, SearchState, SearchStateNext
    <3> QED
      BY <3>1, <3>2
  <2> QED
    BY <2>1, SearchState, SearchStateNext, SameSet
<1>10. Lost' = Lost
  <2>1. ASSUME NEW e \in Dirs PROVE e \in Lost' <=> e \in Lost
    BY <1>2, <1>6, SearchState, SearchStateNext
  <2> QED
    BY <2>1, SearchState, SearchStateNext, SameSet
<1> QED
  BY <1>2, <1>8, <1>9, <1>10 DEF Search!vars

\* A directory is closed when all that it lists has been reported or found.
LEMMA SearchClose ==
    ASSUME Inv1, Inv2, Inv3, Inv4, Inv5, NEW t \in Threads, EndDir(t), Begun, Begun'
    PROVE  Search!Next
<1> USE PfindAssumption DEF hvars
<1>1. PICK d : d = removed_dir_entry[t]
  OBVIOUS
<1>2. /\ pc[t] = "iterate" /\ unread[t] = {} /\ pc' = [pc EXCEPT ![t] = "lockq"]
      /\ dir_to_handle' = [dir_to_handle EXCEPT ![t] = NULL]
      /\ removed_dir_entry' = [removed_dir_entry EXCEPT ![t] = NULL]
      /\ UNCHANGED <<dir_queue, visits, reported, exit_status>>
  BY DEF EndDir, Goto, qvars, ivars
<1>3. /\ d \in Search!Open /\ Visited(d) /\ d \in Dirs /\ exit_status = NULL
      /\ \A u \in Threads \ {t} : removed_dir_entry[u] # d
  BY <1>1, <1>2, SearchedIsOpen
<1>4. /\ pc \in [Threads -> ThreadPC]
      /\ dir_to_handle \in [Threads -> Dirs \cup {NULL, GARBAGE}]
      /\ removed_dir_entry \in [Threads -> Dirs \cup {NULL}]
  BY DEF Inv1, TypeOK
<1>5. /\ pc'[t] = "lockq" /\ dir_to_handle'[t] = NULL /\ removed_dir_entry'[t] = NULL
      /\ \A u \in Threads \ {t} : /\ pc'[u] = pc[u] /\ dir_to_handle'[u] = dir_to_handle[u]
                                  /\ removed_dir_entry'[u] = removed_dir_entry[u]
  BY <1>2, <1>4
<1>6. \A e : Visited(e)' <=> Visited(e)
  BY <1>2 DEF Visited
<1>7. Found' = Found
  <2>1. dir_to_handle[t] \in Dirs => Visited(dir_to_handle[t])
    BY <1>1, <1>2, <1>3 DEF Inv4, HandedTaken
  <2>2. \A e \in Dirs : Known(e)' <=> Known(e)
    BY <1>2, <1>5, <1>6, <2>1 DEF Known
  <2> QED
    BY <2>2, SameFound
<1>8. Closed' = Closed \cup {d}
  <2>1. ASSUME NEW e \in Dirs PROVE e \in Closed' <=> e \in Closed \/ e = d
    <3>1. (\A u \in Threads : removed_dir_entry'[u] # e)
            <=> e = d \/ \A u \in Threads : removed_dir_entry[u] # e
      BY <1>1, <1>3, <1>5
    <3> QED
      BY <1>3, <1>6, <3>1, SearchState, SearchStateNext
  <2> QED
    BY <1>3, <2>1, SearchState, SearchStateNext
<1>9. Lost' = Lost
  <2>1. ASSUME NEW e \in Dirs PROVE e \in Lost' <=> e \in Lost
    BY <1>2, <1>5, SearchState, SearchStateNext
  <2> QED
    BY <2>1, SearchState, SearchStateNext, SameSet
<1>10. \A e \in Listing(d) : ~Left(e)
  <2> SUFFICES ASSUME NEW e \in Listing(d), NEW u \in Threads, e \in unread[u] PROVE FALSE
    BY DEF Left
  <2>1. u # t
    BY <1>2
  <2>2. Parent[e] = removed_dir_entry[u]
    BY <2>1, UnreadDisjoint
  <2> QED
    BY <1>3, <2>1, <2>2 DEF Listing
<1>11. \A e \in Listing(d) : /\ e \in Dirs \ Denied => e \in Found
                             /\ e \in Matches => e \in reported
  BY <1>3, <1>10, SearchState DEF Inv4, Progress
<1>12. Search!Children(d) = Listing(d)
  BY DEF Search!Children, Listing, Entries
<1> QED
  BY <1>2, <1>3, <1>7, <1>8, <1>9, <1>11, <1>12 DEF Search!Next, Search!Close

\* Every step of a thread is a step of the search, or one it does not see.
LEMMA SearchThread ==
    ASSUME FailsInSearch, Inv1, Inv2, Inv3, Inv4, Inv5, NEW t \in Threads, Thread(t)
    PROVE  Search!Next \/ UNCHANGED Search!vars
<1> USE PfindAssumption
<1>1. /\ pc \in [Threads -> ThreadPC] /\ dir_queue \in Seq(Dirs)
      /\ dir_to_handle \in [Threads -> Dirs \cup {NULL, GARBAGE}]
      /\ "thread_entry" \notin Faults /\ mpc # "crashed" /\ Begun /\ Begun'
  BY ThreadBegun DEF Inv1, TypeOK, FailsInSearch, Thread
<1>2. ASSUME UNCHANGED <<dir_queue, dir_to_handle, removed_dir_entry, visits, reported, exit_status>>,
             \A u \in Threads : pc'[u] \in {"fail", "dead"} <=> pc[u] \in {"fail", "dead"}
      PROVE  UNCHANGED Search!vars
  <2>1. \A d \in Dirs : Known(d)' <=> Known(d)
    BY <1>2 DEF Known, Visited
  <2> QED
    BY <1>1, <1>2, <2>1, Unseen
<1>3. ASSUME NEW l, Goto(t, l), {l, pc[t]} \subseteq {"fail", "dead"} \/ {l, pc[t]} \cap {"fail", "dead"} = {}
      PROVE  \A u \in Threads : pc'[u] \in {"fail", "dead"} <=> pc[u] \in {"fail", "dead"}
  <2>1. pc'[t] = l /\ \A u \in Threads \ {t} : pc'[u] = pc[u]
    BY <1>1, <1>3 DEF Goto
  <2> QED
    BY <1>3, <2>1
<1>4. CASE wait_for_start(t) \/ AllocEntry(t) \/ CheckSleep(t)
  <2>1. /\ UNCHANGED <<dir_queue, dir_to_handle, removed_dir_entry, visits, reported, exit_status>>
        /\ pc[t] \in {"start", "alloc", "lockq", "recheck"}
        /\ \E l \in {"alloc", "startwait", "lockq", "enqueue", "take"} : Goto(t, l)
    BY <1>1, <1>4 DEF wait_for_start, AllocEntry, CheckSleep, qvars, tvars, hvars, ivars
  <2> QED
    BY <1>2, <1>3, <2>1
<1>5. CASE BecomeIdle(t)
  <2>1. /\ UNCHANGED <<dir_queue, removed_dir_entry, visits, reported, exit_status>>
        /\ pc[t] = "enqueue" /\ Goto(t, "prewait")
        /\ dir_to_handle' = [dir_to_handle EXCEPT ![t] = NULL] \/ UNCHANGED dir_to_handle
    BY <1>5 DEF BecomeIdle, thread_enqueue, hvars, ivars
  <2>2. dir_to_handle[t] \notin Dirs
    BY <2>1 DEF Inv4, HandedTaken
  <2>3. \A d \in Dirs, u \in Threads : dir_to_handle'[u] = d <=> dir_to_handle[u] = d
    BY <1>1, <2>1, <2>2
  <2>4. \A d \in Dirs : Known(d)' <=> Known(d)
    BY <2>1, <2>3 DEF Known, Visited
  <2>5. \A u \in Threads : pc'[u] \in {"fail", "dead"} <=> pc[u] \in {"fail", "dead"}
    BY <1>3, <2>1
  <2> QED
    BY <1>1, <2>1, <2>4, <2>5, Unseen
<1>6. CASE OpenBarrier(t)
  <2>1. UNCHANGED <<dir_queue, dir_to_handle, removed_dir_entry, visits, reported, exit_status>>
    BY <1>6 DEF OpenBarrier, tvars, hvars, ivars
  <2>2. \A u \in Threads : pc'[u] \in {"fail", "dead"} <=> pc[u] \in {"fail", "dead"}
    BY <1>1, <1>6, BarrierMoves
  <2> QED
    BY <1>2, <2>1, <2>2
<1>7. CASE Sleep(t) \/ ThreadExit(t)
  <2>1. /\ UNCHANGED <<dir_queue, dir_to_handle, removed_dir_entry, visits, reported, exit_status>>
        /\ pc[t] \in {"prewait", "take"}
        /\ \E l \in {"wait", "exited"} : Goto(t, l)
    BY <1>7 DEF Sleep, ThreadExit, qvars, tvars, hvars, ivars
  <2> QED
    BY <1>2, <1>3, <2>1
<1>8. CASE TakeDir(t)
  BY <1>1, <1>8, SearchTake
<1>9. CASE open_dir_and_check(t) \/ get_stat_Failure(t) \/ QueueDirFailure(t)
  <2>1. UNCHANGED <<dir_queue, tvars, hvars, exit_status>> /\ pc[t] \in {"open", "iterate"}
    BY <1>9 DEF open_dir_and_check, get_stat_Failure, QueueDirFailure, qvars, ivars
  <2>2. CASE Goto(t, "fail")
    BY <1>1, <2>1, <2>2, SearchLose DEF Goto
  <2>3. CASE Goto(t, "iterate")
    <3>1. \A u \in Threads : pc'[u] \in {"fail", "dead"} <=> pc[u] \in {"fail", "dead"}
      BY <1>3, <2>1, <2>3
    <3> QED
      BY <1>2, <2>1, <3>1 DEF tvars, hvars
  <2> QED
    BY <1>9, <2>2, <2>3 DEF open_dir_and_check, get_stat_Failure, QueueDirFailure
<1>10. CASE ReadFile(t)
  <2>1. PICK f \in unread[t] \cap Files :
          IF f \in Matches THEN reported' = reported \cup {f} ELSE UNCHANGED reported
    BY <1>10 DEF ReadFile
  <2>2. /\ pc[t] = "iterate"
        /\ UNCHANGED <<dir_queue, dir_to_handle, removed_dir_entry, visits, exit_status, pc>>
    BY <1>10 DEF ReadFile, qvars, ivars
  <2>3. CASE f \in Matches
    <3>1. Parent[f] \in Search!Open /\ f \notin reported /\ exit_status = NULL
      BY <2>1, <2>2, SearchedIsOpen
    <3>2. Found' = Found
      <4>1. \A d \in Dirs : Known(d)' <=> Known(d)
        BY <2>2 DEF Known, Visited
      <4> QED
        BY <1>1, <4>1, SameFound
    <3>3. Closed' = Closed /\ Lost' = Lost
      BY <2>2, SameSearched
    <3> QED
      BY <2>1, <2>2, <2>3, <3>1, <3>2, <3>3 DEF Search!Next, Search!Report
  <2>4. CASE f \notin Matches
    BY <1>2, <2>1, <2>2, <2>4
  <2> QED
    BY <2>3, <2>4
<1>11. CASE SkipDir(t) \/ HandOverCrash(t)
  <2>1. UNCHANGED <<dir_queue, dir_to_handle, removed_dir_entry, visits, reported, exit_status, pc>>
    BY <1>11 DEF SkipDir, HandOverCrash, qvars, tvars, hvars, ivars
  <2> QED
    BY <1>2, <2>1
<1>12. CASE HandOver(t)
  <2>1. PICK u \in Threads, e \in Dirs :
          /\ u # t /\ pc[u] = "wait" /\ pc' = [pc EXCEPT ![u] = "lockq"]
          /\ e \in unread[t] \ Denied /\ dir_to_handle[u] = NULL
          /\ dir_to_handle' = [dir_to_handle EXCEPT ![u] = e]
    BY <1>1, <1>12, HandOverFacts
  <2>2. /\ pc[t] = "iterate"
        /\ UNCHANGED <<dir_queue, removed_dir_entry, visits, reported, exit_status>>
    BY <1>12 DEF HandOver, hvars, ivars
  <2>3. \A d \in Dirs : (\E v \in Threads : dir_to_handle'[v] = d)
                           <=> d = e \/ \E v \in Threads : dir_to_handle[v] = d
    BY <1>1, <2>1
  <2>4. \A d \in Dirs : Known(d)' <=> Known(d) \/ d = e
    BY <2>2, <2>3 DEF Known, Visited
  <2>5. \A v \in Threads : pc'[v] \in {"fail", "dead"} <=> pc[v] \in {"fail", "dead"}
    BY <1>1, <2>1
  <2> QED
    BY <1>1, <2>1, <2>2, <2>4, <2>5, SearchDiscover
<1>13. CASE QueueDir(t)
  <2>1. PICK e \in (unread[t] \cap Dirs) \ Denied : dir_queue' = Append(dir_queue, e)
    BY <1>13 DEF QueueDir, dir_enqueue
  <2>2. /\ pc[t] = "iterate"
        /\ UNCHANGED <<dir_to_handle, removed_dir_entry, visits, reported, exit_status, pc>>
    BY <1>13 DEF QueueDir, hvars, ivars
  <2>3. Range(dir_queue') = Range(dir_queue) \cup {e}
    BY <1>1, <2>1, EnqueueFacts
  <2>4. \A d \in Dirs : Known(d)' <=> Known(d) \/ d = e
    BY <2>2, <2>3 DEF Known, Visited
  <2> QED
    BY <1>1, <2>1, <2>2, <2>4, SearchDiscover
<1>14. CASE EndDir(t)
  BY <1>1, <1>14, SearchClose
<1>15. CASE thread_exit_on_error(t)
  <2>1. /\ UNCHANGED <<dir_queue, dir_to_handle, removed_dir_entry, visits, reported, exit_status>>
        /\ pc[t] = "fail" /\ Goto(t, "dead")
    BY <1>15 DEF thread_exit_on_error, qvars, tvars, hvars, ivars
  <2>2. \A u \in Threads : pc'[u] \in {"fail", "dead"} <=> pc[u] \in {"fail", "dead"}
    BY <1>3, <2>1
  <2> QED
    BY <1>2, <2>1, <2>2
<1> QED
  BY <1>4, <1>5, <1>6, <1>7, <1>8, <1>9, <1>10, <1>11, <1>12, <1>13, <1>14, <1>15 DEF Thread

\* pfind.c implements the abstract search: seen through the directories that
\* are found, closed and lost, the files reported and the exit status, every
\* interleaving of main (453-481, 529-565) and of the threads (361-448) is a
\* behaviour of one sequential search.  It ends with 0 only when all it found was
\* read to the end, and with 1 only when something was lost or main failed before
\* the search began (validation, or the allocations of main_init).
THEOREM SearchImplemented == ASSUME FailsInSearch PROVE Spec => ImplementsSearch
<1>1. NoSpurious
  BY DEF FailsInSearch, NoSpurious
<1>2. Init => Search!Init
  <2> SUFFICES ASSUME Init PROVE Search!Init
    OBVIOUS
  <2>1. \A d \in Dirs : ~Known(d) /\ ~Visited(d)
    BY PfindAssumption DEF Init, Known, Visited, Range
  <2>2. \A t \in Threads : pc[t] = "unborn"
    BY DEF Init
  <2>3. Found = {} /\ Closed = {} /\ Lost = {}
    BY <2>1, <2>2, SearchState
  <2> QED
    BY <2>3 DEF Init, Search!Init
<1>3. Inv1 /\ Inv2 /\ Inv3 /\ Inv4 /\ Inv5 /\ RootKnown /\ [Next]_vars => [Search!Next]_(Search!vars)
  <2> SUFFICES ASSUME Inv1, Inv2, Inv3, Inv4, Inv5, RootKnown, [Next]_vars
               PROVE  Search!Next \/ UNCHANGED Search!vars
    OBVIOUS
  <2>1. CASE UNCHANGED vars
    <3>1. (Begun' <=> Begun) /\ \A d \in Dirs : Known(d)' <=> Known(d)
      BY <2>1 DEF vars, qvars, tvars, hvars, Known, Visited, Begun
    <3> QED
      BY <2>1, <3>1, Unseen DEF vars, tvars, hvars, ivars
  <2> QED
    BY <1>1, <2>1, SearchMain, SearchThread DEF Next, Done, SpuriousWakeup, NoSpurious
<1> QED
  BY <1>1, <1>2, <1>3, Inv1Always, Inv2Always, Inv3Always, Inv4Always, Inv5Always,
     RootKnownAlways, PTL DEF Spec, ImplementsSearch, Search!Spec
=============================================================================
