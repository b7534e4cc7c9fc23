---------------------------- MODULE PfindProofs ----------------------------
(***************************************************************************)
(* Theorems about Pfind, for every tree, every number of threads and every *)
(* set of faults.                                                          *)
(***************************************************************************)
EXTENDS Pfind, FiniteSetTheorems, TLAPS

(***************************************************************************)
(* The two operations on the queues.                                       *)
(***************************************************************************)
LEMMA EnqueueFacts ==
    ASSUME NEW S, NEW q \in Seq(S), NEW e \in S
    PROVE  /\ Append(q, e) \in Seq(S)
           /\ Append(q, e) # <<>>
           /\ Len(Append(q, e)) = Len(q) + 1
           /\ Range(Append(q, e)) = Range(q) \cup {e}
           /\ IsInjective(q) /\ e \notin Range(q) => IsInjective(Append(q, e))
<1> DEFINE r == Append(q, e)
<1>1. /\ r \in Seq(S) /\ Len(r) = Len(q) + 1
      /\ DOMAIN q = 1 .. Len(q) /\ DOMAIN r = 1 .. Len(q) + 1 /\ Len(q) \in Nat
      /\ \A i \in 1 .. Len(q) : r[i] = q[i]
      /\ r[Len(q) + 1] = e
  OBVIOUS
<1> HIDE DEF r
<1>2. r # <<>>
  BY <1>1
<1>3. Range(r) = Range(q) \cup {e}
  <2>1. \A i \in DOMAIN r : r[i] = e \/ (i \in DOMAIN q /\ r[i] = q[i])
    BY <1>1
  <2>2. \A i \in DOMAIN q : i \in DOMAIN r /\ r[i] = q[i]
    BY <1>1
  <2>3. Len(q) + 1 \in DOMAIN r /\ r[Len(q) + 1] = e
    BY <1>1
  <2> QED
    BY ONLY <2>1, <2>2, <2>3 DEF Range
<1>4. IsInjective(q) /\ e \notin Range(q) => IsInjective(r)
  BY <1>1 DEF IsInjective, Range
<1> QED
  BY <1>1, <1>2, <1>3, <1>4 DEF r

\* What dequeue removes, keeps and returns.
LEMMA DequeueFacts ==
    ASSUME NEW S, NEW q \in Seq(S), q # <<>>
    PROVE  /\ Head(q) \in S
           /\ Tail(q) \in Seq(S)
           /\ Len(Tail(q)) = Len(q) - 1
           /\ Head(q) \in Range(q)
           /\ Range(q) = {Head(q)} \cup Range(Tail(q))
           /\ IsInjective(q) => IsInjective(Tail(q)) /\ Head(q) \notin Range(Tail(q))
<1> DEFINE r == Tail(q)
<1>1. /\ r \in Seq(S) /\ Len(r) = Len(q) - 1
      /\ DOMAIN q = 1 .. Len(q) /\ DOMAIN r = 1 .. Len(q) - 1
      /\ Len(q) \in Nat /\ Len(q) > 0
      /\ \A i \in 1 .. Len(q) - 1 : r[i] = q[i + 1]
      /\ Head(q) = q[1] /\ Head(q) \in S
  OBVIOUS
<1> HIDE DEF r
<1>2. Range(r) \subseteq Range(q) /\ Head(q) \in Range(q)
  <2>1. 1 \in DOMAIN q /\ \A i \in DOMAIN r : i + 1 \in DOMAIN q /\ r[i] = q[i + 1]
    BY <1>1
  <2>2. Head(q) \in Range(q)
    BY <1>1, <2>1 DEF Range
  <2>3. ASSUME NEW x \in Range(r) PROVE x \in Range(q)
    <3>1. PICK i \in DOMAIN r : x = r[i]
      BY <2>3 DEF Range
    <3> QED
      BY ONLY <2>1, <3>1 DEF Range
  <2> QED
    BY <2>2, <2>3
<1>3. ASSUME NEW x \in Range(q), x # Head(q) PROVE x \in Range(r)
  <2>1. PICK i \in 1 .. Len(q) : x = q[i]
    BY <1>1 DEF Range
  <2>2. i - 1 \in 1 .. Len(q) - 1 /\ r[i - 1] = q[i]
    BY <1>1, <1>3, <2>1
  <2> QED
    BY <1>1, <2>1, <2>2 DEF Range
<1>4. Range(q) = {Head(q)} \cup Range(r)
  BY <1>2, <1>3
<1>5. ASSUME IsInjective(q) PROVE IsInjective(r) /\ Head(q) \notin Range(r)
  <2>1. \A i, j \in 1 .. Len(q) : q[i] = q[j] => i = j
    BY <1>1, <1>5 DEF IsInjective
  <2>2. \A i \in 1 .. Len(q) - 1 : i + 1 \in 1 .. Len(q) /\ i + 1 # 1
    BY <1>1
  <2>3. \A i \in 1 .. Len(q) - 1 : r[i] # Head(q)
    BY <1>1, <2>1, <2>2
  <2>4. \A i, j \in 1 .. Len(q) - 1 : r[i] = r[j] => i = j
    BY <1>1, <2>1, <2>2
  <2> QED
    BY <1>1, <2>3, <2>4 DEF IsInjective, Range
<1> QED
  BY <1>1, <1>2, <1>4, <1>5 DEF r

\* The elements of a queue are of its type.
LEMMA RangeType == ASSUME NEW S, NEW q \in Seq(S) PROVE Range(q) \subseteq S
  BY DEF Range

\* The empty queue holds nothing, and nothing twice.
LEMMA EmptyQueue == Range(<<>>) = {} /\ IsInjective(<<>>)
  BY DEF Range, IsInjective

(***************************************************************************)
(* Facts the type invariant rests on.  A thread takes a directory from its *)
(* thread_entry only after the barrier, when every entry was initialised,  *)
(* and from the queue only when it has seen it non-empty under queue_mutex.*)
(***************************************************************************)
Holding == {"recheck", "enqueue", "prewait", "take"}
Waiting == {"unborn", "start", "startwait"}
Preparing == {"setup", "init", "create", "cvinit", "go"}

QueueOwner == \A t \in Threads : pc[t] \in Holding => queue_mutex = t
CreateLoop == mpc \in {"setup", "init", "create", "cvinit"} => t_id < g_threads_num
Gate == /\ g_is_search => mpc \notin Preparing
        /\ \A t \in Threads : pc[t] \notin Waiting => mpc \notin Preparing
IdleOnce == IsInjective(thread_queue)
IdleSet == \A t \in Range(thread_queue) : dir_to_handle[t] # GARBAGE
AllSet == g_all_threads_ready => \A t \in Threads : dir_to_handle[t] # GARBAGE
TakeReady ==
    \A t \in Threads : pc[t] = "take" /\ g_is_search =>
        /\ g_all_threads_ready
        /\ dir_queue # <<>> \/ dir_to_handle[t] # NULL

Inv1 == /\ TypeOK /\ QueueOwner /\ CreateLoop /\ Gate
        /\ IdleOnce /\ IdleSet /\ AllSet /\ TakeReady

\* When g_threads_num different threads are queued, every thread is queued:
\* the test of line 398 counts, and the count suffices.
LEMMA AllQueued ==
    ASSUME thread_queue \in Seq(Threads), IdleOnce,
           Len(thread_queue) = g_threads_num
    PROVE  Range(thread_queue) = Threads
<1> DEFINE I == 1 .. g_threads_num
<1>1. g_threads_num \in Nat /\ g_threads_num > 0
  BY PfindAssumption
<1>2. thread_queue \in [I -> Threads] /\ DOMAIN thread_queue = I
  BY <1>1
<1>3. thread_queue \in Injection(I, Threads)
  BY <1>2 DEF IdleOnce, Injection, IsInjective
<1>4. IsFiniteSet(Threads) /\ Cardinality(Threads) = g_threads_num
  BY <1>1, FS_Interval DEF Threads
<1>5. Cardinality(I) = g_threads_num
  BY <1>1, FS_Interval
<1>6. thread_queue \in Surjection(I, Threads)
  BY <1>3, <1>4, <1>5, FS_Injection
<1> QED
  BY <1>2, <1>6 DEF Surjection, Range

\* main starts in Inv1.
LEMMA Inv1Init == Init => Inv1
<1> SUFFICES ASSUME Init PROVE Inv1
  OBVIOUS
<1> USE PfindAssumption DEF Init
<1>1. TypeOK
  <2>1. unread \in [Threads -> SUBSET Entries]
    OBVIOUS
  <2>2. visits \in [Dirs -> Nat]
    OBVIOUS
  <2>3. pc \in [Threads -> ThreadPC] /\ mpc \in MainPC
    BY DEF ThreadPC, MainPC
  <2>4. /\ dir_queue \in Seq(Dirs) /\ thread_queue \in Seq(Threads)
        /\ dir_to_handle \in [Threads -> Dirs \cup {NULL, GARBAGE}]
        /\ removed_dir_entry \in [Threads -> Dirs \cup {NULL}]
    OBVIOUS
  <2>5. /\ g_failed_threads \in Nat /\ g_files_found \in Nat
        /\ t_id \in 0 .. g_threads_num
    OBVIOUS
  <2>6. g_is_search \in BOOLEAN /\ g_all_threads_ready \in BOOLEAN
    OBVIOUS
  <2>7. queue_cv \subseteq Threads /\ reported \subseteq Files
    OBVIOUS
  <2> QED
    BY <2>1, <2>2, <2>3, <2>4, <2>5, <2>6, <2>7 DEF TypeOK
<1>2. QueueOwner /\ CreateLoop /\ Gate
  BY DEF QueueOwner, CreateLoop, Gate, Holding, Waiting, Preparing
<1>3. IdleOnce /\ IdleSet /\ AllSet /\ TakeReady
  BY EmptyQueue DEF IdleOnce, IdleSet, AllSet, TakeReady
<1> QED
  BY <1>1, <1>2, <1>3 DEF Inv1

LEMMA Inv1Main == Inv1 /\ Main => Inv1'
<1> SUFFICES ASSUME Inv1, Main PROVE Inv1'
  OBVIOUS
<1> USE PfindAssumption DEF Inv1, TypeOK, QueueOwner, CreateLoop, Gate, IdleOnce, IdleSet,
     AllSet, TakeReady, Holding, Waiting, Preparing, ThreadPC, MainPC, vars, gvars,
     qvars, tvars, hvars, ivars
<1>1. CASE MainSetup
  <2> USE <1>1 DEF MainSetup, dir_enqueue
  <2>1. dir_queue' \in Seq(Dirs)
    <3>1. dir_queue \in Seq(Dirs) /\ Append(dir_queue, Root) \in Seq(Dirs)
      OBVIOUS
    <3> QED BY ONLY <3>1, MainSetup DEF MainSetup, dir_enqueue
  <2>2. TypeOK'
    BY <2>1
  <2>3. (QueueOwner /\ CreateLoop /\ Gate)'
    OBVIOUS
  <2>4. (IdleOnce /\ IdleSet /\ AllSet /\ TakeReady)'
    OBVIOUS
  <2> QED
    BY <2>2, <2>3, <2>4
<1>2. CASE MainCreate
  BY ZenonT(60), <1>2 DEF MainCreate, Goto
<1>3. CASE MainCvInit
  BY <1>3 DEF MainCvInit, Threads
<1>4. CASE MainStart
  BY <1>4 DEF MainStart
<1>5. CASE MainLockFinish
  BY <1>5 DEF MainLockFinish
<1>6. CASE MainEvalDir
  BY <1>6 DEF MainEvalDir, WaitOrStop
<1>7. CASE MainEvalThreads
  BY <1>7 DEF MainEvalThreads, WaitOrStop
<1>8. CASE MainStop
  BY <1>8 DEF MainStop
<1>9. CASE MainSignalAll
  BY <1>9 DEF MainSignalAll
<1>10. CASE MainJoin
  BY <1>10 DEF MainJoin
<1>11. CASE MainInit
  BY <1>11 DEF MainInit
<1> QED
  BY <1>1, <1>2, <1>3, <1>4, <1>5, <1>6, <1>7, <1>8, <1>9, <1>10, <1>11 DEF Main

LEMMA Inv1Thread == ASSUME NEW t \in Threads PROVE Inv1 /\ Thread(t) => Inv1'
<1> SUFFICES ASSUME Inv1, Thread(t) PROVE Inv1'
  OBVIOUS
<1> USE PfindAssumption DEF Inv1, TypeOK, QueueOwner, CreateLoop, Gate, IdleOnce, IdleSet,
     AllSet, TakeReady, Holding, Waiting, Preparing, ThreadPC, MainPC,
     gvars, qvars, tvars, hvars, ivars, Goto
<1>1. CASE wait_for_start(t)
  BY <1>1 DEF wait_for_start
<1>2. CASE AllocEntry(t)
  <2>1. PICK l \in {"lockq", "fail"} : pc' = [pc EXCEPT ![t] = l]
    BY <1>2 DEF AllocEntry
  <2> QED
    BY <1>2, <2>1 DEF AllocEntry
<1>3. CASE CheckSleep(t)
  BY <1>3 DEF CheckSleep, should_thread_sleep, is_dir_queue_empty
<1>4. CASE BecomeIdle(t)
  <2> USE <1>4 DEF BecomeIdle, SignalFinish
  <2>1. CASE is_thread_in_queue(t)
    BY <2>1
  <2>2. CASE ~is_thread_in_queue(t)
    <3>1. /\ t \in Threads /\ thread_queue \in Seq(Threads)
          /\ IsInjective(thread_queue) /\ t \notin Range(thread_queue)
          /\ thread_queue' = Append(thread_queue, t)
      BY <2>2 DEF thread_enqueue, is_thread_in_queue
    <3>2. /\ thread_queue' \in Seq(Threads)
          /\ Range(thread_queue') = Range(thread_queue) \cup {t}
          /\ IsInjective(thread_queue')
      BY ONLY <3>1, EnqueueFacts
    <3>3. /\ dir_to_handle' = [dir_to_handle EXCEPT ![t] = NULL]
      BY <2>2 DEF thread_enqueue
    <3> QED
      BY <3>2, <3>3
  <2> QED
    BY <2>1, <2>2
<1>5. CASE OpenBarrier(t)
  <2> USE <1>5 DEF OpenBarrier, thread_dequeue
  <2>1. thread_queue # <<>>
    OBVIOUS
  <2>2. /\ thread_queue' \in Seq(Threads) /\ Head(thread_queue) \in Threads
        /\ Range(thread_queue') \subseteq Range(thread_queue)
        /\ IsInjective(thread_queue')
    BY <2>1, DequeueFacts
  <2>3. \A u \in Threads : dir_to_handle[u] # GARBAGE
    BY AllQueued
  <2>4. CASE g_threads_num # 1
    <3> DEFINE u == Head(thread_queue)
               slept == [pc EXCEPT ![t] = "wait"]
    <3>1. slept \in [Threads -> ThreadPC]
      OBVIOUS
    <3>2. pc' = [slept EXCEPT ![u] = IF pc[u] = "wait" THEN "lockq" ELSE slept[u]]
      BY <2>4
    <3>3. /\ pc' \in [Threads -> ThreadPC] /\ pc'[t] \in {"wait", "lockq"}
          /\ \A v \in Threads \ {t} : pc'[v] = pc[v] \/ pc'[v] = "lockq"
      BY ONLY <2>2, <3>1, <3>2, TypeOK, t \in Threads DEF TypeOK, ThreadPC
    <3> HIDE DEF u, slept
    <3>4. /\ pc[t] = "prewait" /\ queue_mutex = t /\ queue_mutex' = FREE
          /\ g_all_threads_ready' = TRUE
          /\ mpc' = mpc /\ t_id' = t_id /\ g_is_search' = g_is_search
          /\ dir_to_handle' = dir_to_handle
      BY <2>4
    <3>5. TypeOK'
      BY <2>2, <2>4, <3>3
    <3>6. ASSUME NEW v \in Threads PROVE pc'[v] \notin Holding
      BY ONLY Inv1, t \in Threads, <3>3, <3>4, <3>6 DEF Inv1, QueueOwner, Holding
    <3>7. QueueOwner' /\ TakeReady'
      BY ONLY <3>6 DEF QueueOwner, TakeReady, Holding
    <3>8. CreateLoop' /\ Gate'
      <4>1. ASSUME NEW v \in Threads PROVE pc'[v] \notin Waiting => mpc \notin Preparing
        BY ONLY Inv1, t \in Threads, <3>4, <4>1 DEF Inv1, Gate, Waiting
      <4> QED
        BY ONLY Inv1, <3>4, <4>1 DEF Inv1, CreateLoop, Gate
    <3>9. IdleOnce' /\ IdleSet' /\ AllSet'
      BY ONLY Inv1, <2>2, <2>3, <3>4 DEF IdleOnce, IdleSet, AllSet, Inv1
    <3> QED
      BY ONLY <3>5, <3>7, <3>8, <3>9 DEF Inv1
  <2>5. CASE g_threads_num = 1
    <3>1. /\ pc' = [pc EXCEPT ![t] = "recheck"] /\ pc[t] = "prewait"
          /\ queue_mutex = t /\ queue_mutex' = queue_mutex
          /\ g_all_threads_ready' = TRUE
          /\ mpc' = mpc /\ t_id' = t_id /\ g_is_search' = g_is_search
          /\ dir_to_handle' = dir_to_handle /\ dir_queue' = dir_queue
      BY <2>5
    <3>2. /\ pc' \in [Threads -> ThreadPC] /\ pc'[t] = "recheck"
          /\ \A v \in Threads \ {t} : pc'[v] = pc[v]
      BY ONLY <3>1, TypeOK, t \in Threads DEF TypeOK, ThreadPC
    <3>3. TypeOK'
      BY <2>2, <2>5, <3>2
    <3>4. QueueOwner' /\ CreateLoop'
      BY ONLY Inv1, t \in Threads, <3>1, <3>2 DEF Inv1, QueueOwner, CreateLoop, Holding
    <3>5. Gate'
      BY ONLY Inv1, t \in Threads, <3>1, <3>2 DEF Inv1, Gate, Waiting
    <3>6. TakeReady'
      BY ONLY Inv1, t \in Threads, <3>1, <3>2 DEF Inv1, TakeReady
    <3>7. IdleOnce' /\ IdleSet' /\ AllSet'
      BY ONLY Inv1, <2>2, <2>3, <3>1 DEF IdleOnce, IdleSet, AllSet, Inv1
    <3> QED
      BY ONLY <3>3, <3>4, <3>5, <3>6, <3>7 DEF Inv1
  <2> QED
    BY <2>4, <2>5
<1>6. CASE Sleep(t)
  BY <1>6 DEF Sleep
<1>7. CASE ThreadExit(t)
  BY <1>7 DEF ThreadExit
<1>8. CASE TakeDir(t)
  <2> DEFINE d == IF dir_to_handle[t] # NULL THEN dir_to_handle[t] ELSE Head(dir_queue)
  <2>1. d \in Dirs /\ Listing(d) \subseteq Entries
    BY <1>8 DEF TakeDir, Listing
  <2>2. BeginDir(t, d)
    BY <1>8 DEF TakeDir
  <2>3. dir_queue' \in Seq(Dirs)
    <3>1. CASE dir_to_handle[t] # NULL
      BY <1>8, <3>1 DEF TakeDir
    <3>2. CASE dir_to_handle[t] = NULL
      <4>1. dir_queue \in Seq(Dirs) /\ dir_queue # <<>> /\ dir_queue' = Tail(dir_queue)
        BY <1>8, <3>2 DEF TakeDir, dir_dequeue
      <4> QED
        BY ONLY <4>1, DequeueFacts
    <3> QED
      BY <3>1, <3>2
  <2> HIDE DEF d
  <2> QED
    BY SMTT(30), <1>8, <2>1, <2>2, <2>3 DEF TakeDir, BeginDir
<1>9. CASE open_dir_and_check(t)
  <2>1. PICK l \in {"iterate", "fail"} : pc' = [pc EXCEPT ![t] = l]
    BY <1>9 DEF open_dir_and_check
  <2> QED
    BY <1>9, <2>1 DEF open_dir_and_check
<1>10. CASE get_stat_Failure(t)
  BY <1>10 DEF get_stat_Failure
<1>11. CASE ReadFile(t)
  BY <1>11 DEF ReadFile, Consume
<1>12. CASE SkipDir(t)
  BY <1>12 DEF SkipDir, Consume
<1>13. CASE HandOver(t)
  <2> DEFINE u == Head(thread_queue)
  <2>1. /\ u \in Threads /\ thread_queue' \in Seq(Threads)
        /\ Range(thread_queue') \subseteq Range(thread_queue)
        /\ IsInjective(thread_queue')
    BY <1>13, DequeueFacts DEF HandOver, is_thread_queue_empty, thread_dequeue
  <2> HIDE DEF u
  <2>2. PICK d \in (unread[t] \cap Dirs) \ Denied :
           /\ Consume(t, d)
           /\ dir_to_handle' = [dir_to_handle EXCEPT ![u] = d]
           /\ pc' = IF pc[u] = "wait" THEN [pc EXCEPT ![u] = "lockq"] ELSE pc
    BY <1>13 DEF HandOver, u
  <2>3. /\ pc' \in [Threads -> ThreadPC]
        /\ \A v \in Threads : pc'[v] = pc[v] \/ pc'[v] = "lockq"
    BY <2>1, <2>2
  <2>4. /\ unread' \in [Threads -> SUBSET Entries]
        /\ dir_to_handle' \in [Threads -> Dirs \cup {NULL, GARBAGE}]
        /\ \A v \in Threads : dir_to_handle[v] \notin {NULL, GARBAGE}
                                \/ dir_to_handle'[v] # dir_to_handle[v]
                                => dir_to_handle'[v] \notin {NULL, GARBAGE}
    BY <2>1, <2>2 DEF Consume
  <2> QED
    BY <1>13, <2>1, <2>3, <2>4 DEF HandOver
<1>14. CASE HandOverCrash(t)
  BY <1>14 DEF HandOverCrash
<1>15. CASE QueueDir(t)
  BY <1>15 DEF QueueDir, Consume, dir_enqueue
<1>16. CASE QueueDirFailure(t)
  BY <1>16 DEF QueueDirFailure
<1>17. CASE EndDir(t)
  BY <1>17 DEF EndDir
<1>18. CASE thread_exit_on_error(t)
  BY <1>18 DEF thread_exit_on_error, SignalFinish
<1> QED
  BY <1>1, <1>2, <1>3, <1>4, <1>5, <1>6, <1>7, <1>8, <1>9, <1>10, <1>11, <1>12,
     <1>13, <1>14, <1>15, <1>16, <1>17, <1>18 DEF Thread

\* Every step keeps Inv1.
LEMMA Inv1Step == Inv1 /\ [Next]_vars => Inv1'
<1> SUFFICES ASSUME Inv1, [Next]_vars PROVE Inv1'
  OBVIOUS
<1>1. CASE Main
  BY <1>1, Inv1Main
<1>2. CASE \E t \in Threads : Thread(t)
  BY <1>2, Inv1Thread
<1>3. CASE \E t \in Threads : mpc # "crashed" /\ SpuriousWakeup(t)
  BY <1>3 DEF SpuriousWakeup, Goto, Inv1, TypeOK, QueueOwner, CreateLoop, Gate, IdleOnce,
     IdleSet, AllSet, TakeReady, Holding, Waiting, Preparing, ThreadPC,
     gvars, qvars, tvars, hvars, ivars
<1>4. CASE UNCHANGED vars
  BY <1>4 DEF vars, Inv1, TypeOK, QueueOwner, CreateLoop, Gate, IdleOnce, IdleSet, AllSet,
     TakeReady, gvars, qvars, tvars, hvars, ivars
<1> QED
  BY <1>1, <1>2, <1>3, <1>4 DEF Next, Done

\* In every state pfind reaches, queue_mutex has the owner its control points say, a
\* queued thread is queued once, and a thread about to take a directory has one.
THEOREM Inv1Always == Spec => []Inv1
  BY Inv1Init, Inv1Step, PTL DEF Spec

\* Every variable keeps its type, whatever fails: in particular no thread
\* searches what malloc left in its entry or the head of an empty queue.
THEOREM TypeCorrect == Spec => []TypeOK
<1>1. Inv1 => TypeOK
  BY DEF Inv1
<1> QED
  BY <1>1, Inv1Always, PTL

\* The comments at lines 104 and 434 hold: dir_dequeue is called on a
\* non-empty queue only, and line 426 reads an initialised field.
THEOREM TakeHasWorkAlways == Spec => []TakeHasWork
<1>1. Inv1 => TakeHasWork
  BY DEF Inv1, TakeHasWork, TakeReady, AllSet, is_dir_queue_empty
<1> QED
  BY <1>1, Inv1Always, PTL

-----------------------------------------------------------------------------
(***************************************************************************)
(* Each directory is searched once.  A directory is known from the moment  *)
(* it is queued, handed over or taken; an entry still to be read is known  *)
(* to nobody, because only one thread ever reads the directory listing it. *)
(***************************************************************************)
Working == {"open", "iterate", "fail", "dead"}
Known(d) == \/ Visited(d)
            \/ d \in Range(dir_queue)
            \/ \E t \in Threads : dir_to_handle[t] = d

NothingKnown == mpc = "setup" => \A d \in Dirs : ~Known(d)
QueuedNew ==
    /\ IsInjective(dir_queue)
    /\ \A d \in Range(dir_queue) : /\ visits[d] = 0
                                   /\ \A t \in Threads : dir_to_handle[t] # d
HandedNew ==
    \A t \in Threads : dir_to_handle[t] \in Dirs =>
        /\ dir_to_handle[t] # removed_dir_entry[t] => visits[dir_to_handle[t]] = 0
        /\ \A u \in Threads \ {t} : dir_to_handle[u] # dir_to_handle[t]
Reading ==
    \A t \in Threads :
        /\ pc[t] \notin Working => removed_dir_entry[t] = NULL
        /\ removed_dir_entry[t] = NULL => unread[t] = {}
        /\ removed_dir_entry[t] # NULL =>
              /\ Visited(removed_dir_entry[t])
              /\ unread[t] \subseteq Listing(removed_dir_entry[t])
              /\ \A u \in Threads \ {t} : removed_dir_entry[u] # removed_dir_entry[t]
UnreadNew ==
    \A t \in Threads : \A e \in unread[t] :
        /\ e \in Dirs => ~Known(e)
        /\ e \notin reported
Lineage ==
    /\ \A d \in Dirs \ {Root} : Known(d) => Visited(Parent[d])
    /\ \A f \in reported : Visited(Parent[f])

Inv2 == /\ SearchedOnce /\ CountExact
        /\ NothingKnown /\ QueuedNew /\ HandedNew /\ Reading /\ UnreadNew /\ Lineage

\* main starts in Inv2.
LEMMA Inv2Init == Init => Inv2
<1> SUFFICES ASSUME Init PROVE Inv2
  OBVIOUS
<1> USE PfindAssumption DEF Init
<1>1. \A d \in Dirs : ~Known(d)
  BY EmptyQueue DEF Known, Visited
<1>2. SearchedOnce /\ CountExact
  BY FS_EmptySet DEF SearchedOnce, CountExact
<1>3. NothingKnown /\ QueuedNew /\ HandedNew
  BY <1>1, EmptyQueue DEF NothingKnown, QueuedNew, HandedNew
<1>4. Reading
  BY DEF Reading
<1>5. UnreadNew /\ Lineage
  BY <1>1 DEF UnreadNew, Lineage
<1> QED
  BY <1>2, <1>3, <1>4, <1>5 DEF Inv2

\* What is known, read and printed is the same before and after.
LEMMA Inv2Quiet ==
    ASSUME Inv2, UNCHANGED <<dir_queue, tvars, hvars>>,
           mpc' = "setup" => mpc = "setup",
           \A t \in Threads : pc[t] \in Working => pc'[t] \in Working
    PROVE  Inv2'
<1> USE DEF tvars, hvars
<1>1. \A d : Known(d)' <=> Known(d)
  BY DEF Known, Visited
<1>2. \A d : Visited(d)' <=> Visited(d)
  BY DEF Visited
<1>3. (SearchedOnce /\ CountExact /\ QueuedNew /\ HandedNew)'
  BY DEF Inv2, SearchedOnce, CountExact, QueuedNew, HandedNew
<1>4. (NothingKnown /\ UnreadNew /\ Lineage)'
  BY <1>1, <1>2 DEF Inv2, NothingKnown, UnreadNew, Lineage
<1>5. Reading'
  BY <1>2 DEF Inv2, Reading
<1> QED
  BY <1>3, <1>4, <1>5 DEF Inv2

\* A thread gives up what its entry points to: when it goes idle, and when it
\* is done with a directory.
LEMMA Inv2Forget ==
    ASSUME Inv1, Inv2, NEW t \in Threads,
           dir_to_handle' = [dir_to_handle EXCEPT ![t] = NULL],
           UNCHANGED <<dir_queue, unread, hvars>>,
           \/ UNCHANGED removed_dir_entry
           \/ /\ removed_dir_entry' = [removed_dir_entry EXCEPT ![t] = NULL]
              /\ unread[t] = {},
           mpc' = "setup" => mpc = "setup",
           \A u \in Threads :
              pc[u] \in Working => pc'[u] \in Working \/ removed_dir_entry'[u] = NULL
    PROVE  Inv2'
<1> USE PfindAssumption DEF hvars
<1>1. /\ dir_to_handle \in [Threads -> Dirs \cup {NULL, GARBAGE}]
      /\ removed_dir_entry \in [Threads -> Dirs \cup {NULL}]
      /\ removed_dir_entry' \in [Threads -> Dirs \cup {NULL}]
      /\ \A u \in Threads \ {t} : removed_dir_entry'[u] = removed_dir_entry[u]
      /\ Range(dir_queue) \subseteq Dirs
  BY DEF Inv1, TypeOK, Range
<1>2. \A d \in Dirs : Known(d)' => Known(d)
  BY <1>1 DEF Known, Visited
<1>3. \A d : Visited(d)' <=> Visited(d)
  BY DEF Visited
<1>4. (SearchedOnce /\ CountExact)'
  BY DEF Inv2, SearchedOnce, CountExact
<1>5. QueuedNew'
  BY <1>1 DEF Inv2, QueuedNew
<1>6. HandedNew'
  BY <1>1 DEF Inv2, HandedNew
<1>7. (NothingKnown /\ UnreadNew /\ Lineage)'
  BY <1>2, <1>3 DEF Inv2, NothingKnown, UnreadNew, Lineage
<1>8. Reading'
  BY <1>1, <1>3 DEF Inv2, Reading
<1> QED
  BY <1>4, <1>5, <1>6, <1>7, <1>8 DEF Inv2

\* Two threads never have an entry to read in common.
LEMMA UnreadDisjoint ==
    ASSUME Inv1, Inv2, NEW t \in Threads, NEW u \in Threads \ {t}, NEW e \in unread[t]
    PROVE  /\ e \notin unread[u]
           /\ e \in Entries \ {Root}
           /\ removed_dir_entry[t] \in Dirs
           /\ Parent[e] = removed_dir_entry[t]
           /\ Visited(Parent[e])
<1> USE PfindAssumption
<1>1. removed_dir_entry[t] # NULL /\ removed_dir_entry[t] \in Dirs
  BY DEF Inv1, Inv2, TypeOK, Reading
<1>2. /\ e \in Entries \ {Root} /\ Parent[e] = removed_dir_entry[t]
      /\ Visited(Parent[e])
  BY <1>1 DEF Inv2, Reading, Listing
<1>3. e \notin unread[u]
  BY <1>1, <1>2 DEF Inv2, Reading, Listing
<1> QED
  BY <1>1, <1>2, <1>3

\* The same for one thread alone.
LEMMA UnreadListed ==
    ASSUME Inv1, Inv2, NEW t \in Threads, NEW e \in unread[t]
    PROVE  /\ e \in Entries \ {Root}
           /\ Parent[e] \in Dirs
           /\ Visited(Parent[e])
<1> USE PfindAssumption
<1>1. removed_dir_entry[t] # NULL /\ removed_dir_entry[t] \in Dirs
  BY DEF Inv1, Inv2, TypeOK, Reading
<1> QED
  BY <1>1 DEF Inv2, Reading, Listing

LEMMA Inv2ReadFile == ASSUME Inv1, Inv2, NEW t \in Threads, ReadFile(t) PROVE Inv2'
<1> USE PfindAssumption
<1>1. PICK f \in unread[t] \cap Files :
         /\ unread' = [unread EXCEPT ![t] = @ \ {f}]
         /\ \/ f \in Matches /\ reported' = reported \cup {f}
               /\ g_files_found' = g_files_found + 1
            \/ UNCHANGED <<reported, g_files_found>>
  BY DEF ReadFile, Consume
<1>2. /\ UNCHANGED <<dir_queue, dir_to_handle, removed_dir_entry, visits, pc, mpc>>
      /\ unread \in [Threads -> SUBSET Entries] /\ reported \subseteq Files
  BY DEF ReadFile, qvars, Inv1, TypeOK
<1>3. f \notin reported /\ Visited(Parent[f]) /\ \A u \in Threads \ {t} : f \notin unread[u]
  BY UnreadListed, UnreadDisjoint DEF Inv2, UnreadNew
<1>4. \A d : (Known(d)' <=> Known(d)) /\ (Visited(d)' <=> Visited(d))
  BY <1>2 DEF Known, Visited
<1>5. CountExact'
  <2>1. IsFiniteSet(reported)
    BY <1>2, FS_Subset
  <2>2. f \notin reported => Cardinality(reported \cup {f}) = Cardinality(reported) + 1
    BY <2>1, FS_AddElement
  <2> QED
    BY <1>1, <1>3, <2>2 DEF CountExact, Inv2
<1>6. (SearchedOnce /\ QueuedNew /\ HandedNew /\ NothingKnown)'
  BY <1>2, <1>4 DEF Inv2, SearchedOnce, QueuedNew, HandedNew, NothingKnown
<1>7. Reading'
  BY <1>1, <1>2, <1>4 DEF Inv2, Reading
<1>8. UnreadNew'
  BY <1>1, <1>2, <1>3, <1>4 DEF Inv2, UnreadNew
<1>9. Lineage'
  BY <1>1, <1>3, <1>4 DEF Inv2, Lineage
<1> QED
  BY <1>5, <1>6, <1>7, <1>8, <1>9 DEF Inv2

LEMMA Inv2SkipDir == ASSUME Inv1, Inv2, NEW t \in Threads, SkipDir(t) PROVE Inv2'
<1>1. PICK d \in unread[t] : unread' = [unread EXCEPT ![t] = @ \ {d}]
  BY DEF SkipDir, Consume
<1>2. /\ UNCHANGED <<dir_queue, dir_to_handle, removed_dir_entry, hvars, pc, mpc>>
      /\ unread \in [Threads -> SUBSET Entries]
  BY DEF SkipDir, qvars, Inv1, TypeOK
<1>3. \A e : (Known(e)' <=> Known(e)) /\ (Visited(e)' <=> Visited(e))
  BY <1>2 DEF Known, Visited, hvars
<1>4. (SearchedOnce /\ CountExact /\ QueuedNew /\ HandedNew /\ NothingKnown /\ Lineage)'
  BY <1>2, <1>3 DEF Inv2, SearchedOnce, CountExact, QueuedNew, HandedNew, NothingKnown,
     Lineage, hvars
<1>5. Reading' /\ UnreadNew'
  BY <1>1, <1>2, <1>3 DEF Inv2, Reading, UnreadNew, hvars
<1> QED
  BY <1>4, <1>5 DEF Inv2

\* One directory becomes known, to the queue or to an idle thread.
LEMMA Inv2Learn ==
    ASSUME Inv1, Inv2, NEW t \in Threads, NEW d \in (unread[t] \cap Dirs) \ Denied,
           unread' = [unread EXCEPT ![t] = @ \ {d}],
           UNCHANGED <<removed_dir_entry, hvars, mpc>>,
           \A u \in Threads : pc[u] \in Working => pc'[u] \in Working,
           \/ dir_queue' = Append(dir_queue, d) /\ UNCHANGED dir_to_handle
           \/ /\ UNCHANGED dir_queue
              /\ \E u \in Threads : dir_to_handle' = [dir_to_handle EXCEPT ![u] = d]
    PROVE  Inv2'
<1> USE PfindAssumption DEF hvars
<1>1. /\ dir_to_handle \in [Threads -> Dirs \cup {NULL, GARBAGE}]
      /\ removed_dir_entry \in [Threads -> Dirs \cup {NULL}]
      /\ unread \in [Threads -> SUBSET Entries]
      /\ dir_queue \in Seq(Dirs)
  BY DEF Inv1, TypeOK
<1>2. /\ ~Known(d) /\ d # Root /\ Visited(Parent[d])
      /\ \A u \in Threads \ {t} : d \notin unread[u]
  BY UnreadListed, UnreadDisjoint DEF Inv2, UnreadNew
<1>3. /\ visits[d] = 0 /\ d \notin Range(dir_queue)
      /\ \A u \in Threads : dir_to_handle[u] # d
  BY <1>1, <1>2 DEF Known, Visited, Inv1, TypeOK
<1>4. ASSUME dir_queue' = Append(dir_queue, d), UNCHANGED dir_to_handle
      PROVE  (\A e \in Dirs : Known(e)' => Known(e) \/ e = d) /\ QueuedNew' /\ HandedNew'
  <2>1. Range(dir_queue') = Range(dir_queue) \cup {d}
        /\ (IsInjective(dir_queue) => IsInjective(dir_queue'))
    BY <1>1, <1>3, <1>4, EnqueueFacts
  <2>2. \A e \in Dirs : Known(e)' => Known(e) \/ e = d
    BY <1>4, <2>1 DEF Known, Visited
  <2>3. QueuedNew' /\ HandedNew'
    BY <1>3, <1>4, <2>1 DEF Inv2, QueuedNew, HandedNew
  <2> QED
    BY <2>2, <2>3
<1>5. ASSUME UNCHANGED dir_queue,
             \E u \in Threads : dir_to_handle' = [dir_to_handle EXCEPT ![u] = d]
      PROVE  (\A e \in Dirs : Known(e)' => Known(e) \/ e = d) /\ QueuedNew' /\ HandedNew'
  <2>1. PICK u \in Threads : dir_to_handle' = [dir_to_handle EXCEPT ![u] = d]
    BY <1>5
  <2>2. dir_to_handle'[u] = d
        /\ \A v \in Threads \ {u} : dir_to_handle'[v] = dir_to_handle[v]
    BY <1>1, <2>1
  <2>3. \A e \in Dirs : Known(e)' => Known(e) \/ e = d
    BY <1>5, <2>2 DEF Known, Visited
  <2>4. QueuedNew'
    BY <1>3, <1>5, <2>2 DEF Inv2, QueuedNew
  <2>5. HandedNew'
    BY <1>3, <2>2 DEF Inv2, HandedNew
  <2> QED
    BY <2>3, <2>4, <2>5
<1>6. (\A e \in Dirs : Known(e)' => Known(e) \/ e = d) /\ QueuedNew' /\ HandedNew'
  BY <1>4, <1>5
<1>7. \A e : Visited(e)' <=> Visited(e)
  BY DEF Visited
<1>8. (SearchedOnce /\ CountExact)'
  BY DEF Inv2, SearchedOnce, CountExact
<1>9. NothingKnown'
  <2>1. Parent[d] \in Dirs
    BY UnreadListed
  <2> QED
    BY <1>2, <2>1 DEF Inv2, NothingKnown, Known
<1>10. Reading'
  BY <1>1, <1>7 DEF Inv2, Reading
<1>11. UnreadNew'
  BY <1>1, <1>2, <1>6 DEF Inv2, UnreadNew
<1>12. Lineage'
  BY <1>2, <1>6, <1>7 DEF Inv2, Lineage
<1> QED
  BY <1>6, <1>8, <1>9, <1>10, <1>11, <1>12 DEF Inv2

LEMMA Inv2TakeDir == ASSUME Inv1, Inv2, NEW t \in Threads, TakeDir(t) PROVE Inv2'
<1> USE PfindAssumption
<1> DEFINE d == IF dir_to_handle[t] # NULL THEN dir_to_handle[t] ELSE Head(dir_queue)
<1>1. /\ dir_to_handle \in [Threads -> Dirs \cup {NULL, GARBAGE}]
      /\ removed_dir_entry \in [Threads -> Dirs \cup {NULL}]
      /\ unread \in [Threads -> SUBSET Entries]
      /\ dir_queue \in Seq(Dirs)
      /\ visits \in [Dirs -> Nat]
      /\ reported \subseteq Files
  BY DEF Inv1, TypeOK
<1>2. /\ pc[t] = "take" /\ pc' = [pc EXCEPT ![t] = "open"] /\ g_is_search
      /\ UNCHANGED <<dir_to_handle, g_files_found, reported, mpc>>
      /\ BeginDir(t, d)
  BY DEF TakeDir, Goto
<1>3. removed_dir_entry[t] = NULL
  BY <1>2 DEF Inv2, Reading, Working
<1>4. /\ d \in Dirs /\ visits[d] = 0 /\ Known(d)
      /\ Range(dir_queue') = Range(dir_queue) \ {d}
      /\ IsInjective(dir_queue')
      /\ dir_to_handle[t] \in {d, NULL}
      /\ \A u \in Threads \ {t} : dir_to_handle[u] # d
  <2>1. CASE dir_to_handle[t] # NULL
    <3>1. d = dir_to_handle[t] /\ d \in Dirs /\ UNCHANGED dir_queue
      BY <1>1, <1>2, <2>1 DEF TakeDir, Inv1, TakeReady, AllSet
    <3>2. visits[d] = 0 /\ \A u \in Threads \ {t} : dir_to_handle[u] # d
      BY <1>3, <3>1 DEF Inv2, HandedNew
    <3>3. d \notin Range(dir_queue) /\ IsInjective(dir_queue)
      BY <3>1 DEF Inv2, QueuedNew
    <3> QED
      BY <3>1, <3>2, <3>3 DEF Known
  <2>2. CASE dir_to_handle[t] = NULL
    <3>1. dir_queue # <<>> /\ d = Head(dir_queue) /\ dir_queue' = Tail(dir_queue)
      BY <1>2, <2>2 DEF TakeDir, dir_dequeue, Inv1, TakeReady
    <3>2. /\ d \in Dirs /\ d \in Range(dir_queue)
          /\ Range(dir_queue) = {d} \cup Range(dir_queue')
          /\ IsInjective(dir_queue) => IsInjective(dir_queue') /\ d \notin Range(dir_queue')
      BY <1>1, <3>1, DequeueFacts
    <3> QED
      BY <2>2, <3>2 DEF Inv2, QueuedNew, Known
  <2> QED
    BY <2>1, <2>2
<1> HIDE DEF d
<1>5. /\ removed_dir_entry' = [removed_dir_entry EXCEPT ![t] = d]
      /\ unread' = [unread EXCEPT ![t] = Listing(d)]
      /\ visits' = [visits EXCEPT ![d] = @ + 1]
  BY <1>2 DEF BeginDir
<1>6. /\ \A e \in Dirs : Visited(e)' <=> Visited(e) \/ e = d
      /\ ~Visited(d)
  BY <1>1, <1>4, <1>5 DEF Visited
<1>7. \A e \in Dirs : Known(e)' <=> Known(e)
  BY <1>2, <1>4, <1>6 DEF Known
<1>8. SearchedOnce' /\ CountExact'
  BY <1>1, <1>2, <1>4, <1>5 DEF Inv2, SearchedOnce, CountExact
<1>9. NothingKnown'
  BY <1>2, <1>7 DEF Inv2, NothingKnown
<1>10. QueuedNew'
  BY <1>1, <1>2, <1>4, <1>5 DEF Inv2, QueuedNew
<1>11. HandedNew'
  BY <1>1, <1>2, <1>4, <1>5 DEF Inv2, HandedNew
<1>12. Reading'
  <2>1. \A u \in Threads \ {t} : removed_dir_entry[u] # d
    BY <1>4, <1>6 DEF Inv2, Reading
  <2>2. /\ pc'[t] \in Working /\ removed_dir_entry'[t] = d /\ d # NULL
        /\ unread'[t] = Listing(d)
    BY <1>1, <1>2, <1>4, <1>5 DEF Working, Inv1, TypeOK
  <2>3. \A u \in Threads \ {t} : /\ pc'[u] = pc[u] /\ unread'[u] = unread[u]
                                 /\ removed_dir_entry'[u] = removed_dir_entry[u]
    BY <1>1, <1>2, <1>5
  <2>4. \A u \in Threads : removed_dir_entry[u] # NULL => removed_dir_entry[u] \in Dirs
    BY <1>1
  <2> QED
    BY <1>4, <1>6, <2>1, <2>2, <2>3, <2>4 DEF Inv2, Reading
<1>13. UnreadNew'
  <2>1. \A e \in Listing(d) : (e \in Dirs => ~Known(e)) /\ e \notin reported
    BY <1>4, <1>6 DEF Inv2, Lineage, Listing
  <2>2. \A u \in Threads \ {t} : \A e \in unread[u] : (e \in Dirs => ~Known(e)) /\ e \notin reported
    BY DEF Inv2, UnreadNew
  <2> QED
    BY <1>1, <1>2, <1>5, <1>7, <2>1, <2>2 DEF UnreadNew
<1>14. Lineage'
  <2>1. \A f \in reported : Parent[f] \in Dirs
    BY <1>1 DEF Entries
  <2>2. \A e \in Dirs \ {Root} : Parent[e] \in Dirs
    BY DEF Entries
  <2> QED
    BY <1>2, <1>6, <1>7, <2>1, <2>2 DEF Inv2, Lineage
<1> QED
  BY <1>8, <1>9, <1>10, <1>11, <1>12, <1>13, <1>14 DEF Inv2

LEMMA Inv2MainSetup == ASSUME Inv1, Inv2, MainSetup PROVE Inv2'
<1> USE PfindAssumption
<1>1. CASE UNCHANGED dir_queue
  <2>1. UNCHANGED <<dir_queue, tvars, hvars, pc>> /\ mpc' # "setup"
    BY <1>1 DEF MainSetup
  <2> QED
    BY <2>1, Inv2Quiet
<1>2. CASE dir_queue' = Append(dir_queue, Root)
  <2>1. UNCHANGED <<tvars, hvars, pc>> /\ mpc' # "setup" /\ mpc = "setup"
    BY DEF MainSetup
  <2>2. \A d \in Dirs : ~Known(d)
    BY <2>1 DEF Inv2, NothingKnown
  <2>3. dir_queue \in Seq(Dirs) /\ visits \in [Dirs -> Nat]
    BY DEF Inv1, TypeOK
  <2>4. /\ Range(dir_queue') = Range(dir_queue) \cup {Root}
        /\ IsInjective(dir_queue) /\ Root \notin Range(dir_queue) => IsInjective(dir_queue')
    BY <1>2, <2>3, EnqueueFacts
  <2>5. \A d \in Dirs : Known(d)' <=> d = Root
    BY <2>1, <2>2, <2>4 DEF Known, Visited, tvars, hvars
  <2>6. (SearchedOnce /\ CountExact /\ NothingKnown /\ HandedNew)'
    BY <2>1 DEF Inv2, SearchedOnce, CountExact, NothingKnown, HandedNew, tvars, hvars
  <2>7. QueuedNew'
    BY <2>1, <2>2, <2>3, <2>4 DEF Inv2, QueuedNew, Known, Visited, tvars, hvars
  <2>8. Reading'
    BY <2>1 DEF Inv2, Reading, Visited, tvars, hvars
  <2>9. UnreadNew'
    BY <2>1, <2>5, UnreadListed DEF Inv2, UnreadNew, tvars, hvars
  <2>10. Lineage'
    BY <2>1, <2>5 DEF Inv2, Lineage, Visited, hvars
  <2> QED
    BY <2>6, <2>7, <2>8, <2>9, <2>10 DEF Inv2
<1> QED
  BY <1>1, <1>2 DEF MainSetup, dir_enqueue

LEMMA Inv2Main == ASSUME Inv1, Inv2, Main PROVE Inv2'
<1>1. CASE MainSetup
  BY <1>1, Inv2MainSetup
<1>2. CASE Main /\ ~MainSetup
  <2>1. UNCHANGED <<dir_queue, tvars, hvars>> /\ mpc' # "setup"
    BY <1>2 DEF Main, MainInit, MainCreate, MainCvInit, MainStart, MainLockFinish, MainEvalDir,
       MainEvalThreads, MainStop, MainSignalAll, MainJoin, WaitOrStop, qvars
  <2>2. \A u \in Threads : pc[u] \in Working => pc'[u] \in Working
    <3>1. CASE MainCreate
      <4>1. \A u \in Threads : pc[u] \in Waiting
        BY <3>1 DEF MainCreate, Inv1, Gate, Preparing
      <4> QED
        BY <4>1 DEF Waiting, Working
    <3>2. CASE MainStart \/ MainSignalAll
      BY <3>2 DEF MainStart, MainSignalAll, Working
    <3>3. CASE UNCHANGED pc
      BY <3>3
    <3> QED
      BY <1>2, <3>1, <3>2, <3>3 DEF Main, MainInit, MainCvInit, MainLockFinish, MainEvalDir,
         MainEvalThreads, MainStop, MainJoin
  <2> QED
    BY <2>1, <2>2, Inv2Quiet
<1> QED
  BY <1>1, <1>2

LEMMA Inv2Thread == ASSUME Inv1, Inv2, NEW t \in Threads, Thread(t) PROVE Inv2'
<1> USE DEF Goto
<1>0. pc \in [Threads -> ThreadPC] /\ mpc \in MainPC
  BY DEF Inv1, TypeOK
<1>1. CASE \/ wait_for_start(t) \/ AllocEntry(t) \/ CheckSleep(t) \/ Sleep(t) \/ ThreadExit(t)
           \/ open_dir_and_check(t) \/ get_stat_Failure(t) \/ HandOverCrash(t)
           \/ QueueDirFailure(t) \/ thread_exit_on_error(t)
  <2>1. UNCHANGED <<dir_queue, tvars, hvars>> /\ (mpc' = "setup" => mpc = "setup")
    BY <1>1 DEF wait_for_start, AllocEntry, CheckSleep, Sleep, ThreadExit, qvars, SignalFinish,
       open_dir_and_check, get_stat_Failure, HandOverCrash, QueueDirFailure, thread_exit_on_error
  <2>2. \E l \in ThreadPC : /\ pc' = [pc EXCEPT ![t] = l] \/ UNCHANGED pc
                            /\ pc[t] \in Working => l \in Working
    BY <1>1 DEF wait_for_start, AllocEntry, CheckSleep, Sleep, ThreadExit, ThreadPC, Working,
       open_dir_and_check, get_stat_Failure, HandOverCrash, QueueDirFailure, thread_exit_on_error
  <2>3. \A u \in Threads : pc[u] \in Working => pc'[u] \in Working
    BY <1>0, <2>2
  <2> QED
    BY <2>1, <2>3, Inv2Quiet
<1>2. CASE BecomeIdle(t)
  <2>1. UNCHANGED <<dir_queue, unread, removed_dir_entry, hvars>>
        /\ (mpc' = "setup" => mpc = "setup")
    BY <1>2 DEF BecomeIdle, SignalFinish
  <2>2. \A u \in Threads : pc[u] \in Working => pc'[u] \in Working
    BY <1>0, <1>2 DEF BecomeIdle, Working
  <2>3. CASE UNCHANGED dir_to_handle
    BY <2>1, <2>2, <2>3, Inv2Quiet DEF tvars
  <2>4. CASE dir_to_handle' = [dir_to_handle EXCEPT ![t] = NULL]
    BY <2>1, <2>2, <2>4, Inv2Forget
  <2> QED
    BY <1>2, <2>3, <2>4 DEF BecomeIdle, thread_enqueue
<1>3. CASE OpenBarrier(t)
  <2>1. UNCHANGED <<dir_queue, tvars, hvars, mpc>>
    BY <1>3 DEF OpenBarrier
  <2>2. \A u \in Threads : pc[u] \in Working => pc'[u] \in Working
    BY <1>0, <1>3 DEF OpenBarrier, Working
  <2> QED
    BY <2>1, <2>2, Inv2Quiet
<1>4. CASE TakeDir(t)
  BY <1>4, Inv2TakeDir
<1>5. CASE ReadFile(t)
  BY <1>5, Inv2ReadFile
<1>6. CASE SkipDir(t)
  BY <1>6, Inv2SkipDir
<1>7. CASE HandOver(t)
  <2>1. Head(thread_queue) \in Threads
    BY <1>7, DequeueFacts DEF HandOver, is_thread_queue_empty, Inv1, TypeOK
  <2>2. PICK d \in (unread[t] \cap Dirs) \ Denied :
           /\ unread' = [unread EXCEPT ![t] = @ \ {d}]
           /\ dir_to_handle' = [dir_to_handle EXCEPT ![Head(thread_queue)] = d]
    BY <1>7 DEF HandOver, Consume
  <2>3. UNCHANGED <<dir_queue, removed_dir_entry, hvars, mpc>>
    BY <1>7 DEF HandOver
  <2>4. \A u \in Threads : pc[u] \in Working => pc'[u] \in Working
    BY <1>0, <1>7, <2>1 DEF HandOver, Working
  <2> QED
    BY <2>1, <2>2, <2>3, <2>4, Inv2Learn
<1>8. CASE QueueDir(t)
  <2>1. PICK d \in (unread[t] \cap Dirs) \ Denied :
           /\ unread' = [unread EXCEPT ![t] = @ \ {d}]
           /\ dir_queue' = Append(dir_queue, d)
    BY <1>8 DEF QueueDir, Consume, dir_enqueue
  <2>2. UNCHANGED <<dir_to_handle, removed_dir_entry, hvars, mpc, pc>>
    BY <1>8 DEF QueueDir
  <2> QED
    BY <2>1, <2>2, Inv2Learn
<1>9. CASE EndDir(t)
  <2>1. /\ dir_to_handle' = [dir_to_handle EXCEPT ![t] = NULL]
        /\ removed_dir_entry' = [removed_dir_entry EXCEPT ![t] = NULL]
        /\ unread[t] = {} /\ UNCHANGED <<dir_queue, unread, hvars, mpc>>
        /\ pc' = [pc EXCEPT ![t] = "lockq"]
    BY <1>9 DEF EndDir, qvars
  <2>2. \A u \in Threads :
           pc[u] \in Working => pc'[u] \in Working \/ removed_dir_entry'[u] = NULL
    BY <1>0, <2>1 DEF Inv1, TypeOK
  <2> QED
    BY <2>1, <2>2, Inv2Forget
<1> QED
  BY <1>1, <1>2, <1>3, <1>4, <1>5, <1>6, <1>7, <1>8, <1>9 DEF Thread

\* Every step keeps Inv2.
LEMMA Inv2Step == Inv1 /\ Inv2 /\ [Next]_vars => Inv2'
<1> SUFFICES ASSUME Inv1, Inv2, [Next]_vars PROVE Inv2'
  OBVIOUS
<1>1. CASE Main
  BY <1>1, Inv2Main
<1>2. CASE \E t \in Threads : Thread(t)
  BY <1>2, Inv2Thread
<1>3. CASE \E t \in Threads : mpc # "crashed" /\ SpuriousWakeup(t)
  <2>1. UNCHANGED <<dir_queue, tvars, hvars, mpc>>
    BY <1>3 DEF SpuriousWakeup, qvars
  <2>2. \A u \in Threads : pc[u] \in Working => pc'[u] \in Working
    BY <1>3 DEF SpuriousWakeup, Goto, Working, Inv1, TypeOK
  <2> QED
    BY <2>1, <2>2, Inv2Quiet
<1>4. CASE UNCHANGED vars
  BY <1>4, Inv2Quiet DEF vars, qvars
<1> QED
  BY <1>1, <1>2, <1>3, <1>4 DEF Next, Done

\* In every state pfind reaches, a directory is unread, queued, handed over or visited,
\* never two of these, and only one thread reads it.
THEOREM Inv2Always == Spec => []Inv2
  BY Inv2Init, Inv2Step, Inv1Always, PTL DEF Spec

\* No directory is searched twice: for every tree, any number of threads and
\* whatever fails, wakeups without a signal included.
THEOREM SearchedOnceAlways == Spec => []SearchedOnce
<1>1. Inv2 => SearchedOnce
  BY DEF Inv2
<1> QED
  BY <1>1, Inv2Always, PTL

\* The number printed at line 560 is the number of paths printed at line 342.
THEOREM CountExactAlways == Spec => []CountExact
<1>1. Inv2 => CountExact
  BY DEF Inv2
<1> QED
  BY <1>1, Inv2Always, PTL
=============================================================================
