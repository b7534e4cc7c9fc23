------------------------------- MODULE Pfind -------------------------------
(***************************************************************************)
(* hw4_os/pfind.c: a parallel search of a directory tree.                  *)
(*                                                                         *)
(* The main thread creates g_threads_num searching threads, opens the      *)
(* start gate (search_cv) and then sleeps on finish_cv until the directory *)
(* queue is empty and every thread is idle or has failed.  A searching     *)
(* thread takes a directory, reads its entries, reports matching files and *)
(* hands every searchable subdirectory to the longest idle thread, or to   *)
(* the directory queue when nobody is idle.                                *)
(*                                                                         *)
(* An action is a stretch of code between two points where another thread  *)
(* can interfere.  A critical section whose data only its own mutex        *)
(* protects is one action, guarded by the mutex being free; main's exit    *)
(* test (line 535) reads the two queues without queue_mutex, so it is two  *)
(* actions.                                                                *)
(***************************************************************************)
EXTENDS Integers, Sequences, FiniteSets, Functions

CONSTANTS
    g_threads_num,  \* argv[3]
    Dirs, Files,    \* path names of the tree under argv[1]
    Root,           \* argv[1]
    Parent,         \* the directory an entry is listed in
    Matches,        \* files whose name contains argv[2]
    Denied,         \* directories without the owner's r and x bits
    Faults,         \* what the environment may do to this run
    NULL, GARBAGE,  \* no directory; the content of fresh malloc memory
    MAIN, FREE      \* owners of a mutex other than the threads

Threads == 0 .. g_threads_num - 1
Entries == Dirs \cup Files

(***************************************************************************)
(* "opendir" and "stat" are the failures a searching thread handles.       *)
(* "create" is a failing pthread_create.  A malloc returns NULL: "arrays"  *)
(* at lines 455 and 470, "root_entry" at line 142 when main queues the     *)
(* root, "dir_entry" there when a thread queues a subdirectory,            *)
(* "thread_entry" at line 372, "new_dir" at line 315.  "spurious" is a     *)
(* pthread_cond_wait that returns without a signal, as POSIX allows.       *)
(***************************************************************************)
FaultKinds == {"opendir", "stat", "create", "arrays", "root_entry", "dir_entry",
               "thread_entry", "new_dir", "spurious"}

ASSUME PfindAssumption ==
    /\ g_threads_num \in Nat \ {0}
    /\ Root \in Dirs
    /\ Dirs \cap Files = {}
    /\ IsFiniteSet(Files)
    /\ Parent \in [Entries \ {Root} -> Dirs]
    /\ Matches \subseteq Files
    /\ Denied \subseteq Dirs
    /\ Faults \subseteq FaultKinds
    /\ NULL \notin Dirs \cup {0, 1} /\ GARBAGE \notin Dirs /\ NULL # GARBAGE
    /\ MAIN \notin Threads /\ FREE \notin Threads /\ MAIN # FREE

VARIABLES
    g_is_search, g_all_threads_ready, g_failed_threads, g_files_found,
    dir_queue,          \* g_dir_queue, from its tail (next out) to its head
    thread_queue,       \* g_thread_queue, likewise: the longest idle first
    dir_to_handle,      \* the field of each thread's thread_entry
    removed_dir_entry,  \* the directory a thread is searching
    unread,             \* entries of that directory readdir has yet to return
    queue_mutex, finish_mutex,  \* their owners
    queue_cv,           \* the condition variables that are initialised
    t_id,               \* main's loop variable in main_init
    pc, mpc,            \* control points of the threads and of main
    exit_status,        \* what main returns
    visits,             \* history: how often a directory was taken for search
    reported            \* history: the files printed

gvars == <<g_is_search, g_all_threads_ready>>
qvars == <<dir_queue, thread_queue>>
tvars == <<dir_to_handle, removed_dir_entry, unread>>
hvars == <<g_files_found, visits, reported>>
ivars == <<queue_cv, t_id, exit_status>>

vars == <<gvars, qvars, tvars, hvars, ivars, g_failed_threads,
          queue_mutex, finish_mutex, pc, mpc>>

(***************************************************************************)
(* Control points.  A thread at "lockq" wants queue_mutex: it arrives at   *)
(* line 380, or was woken inside pthread_cond_wait on its queue_cv.        *)
(***************************************************************************)
ThreadPC == {"unborn", "start", "startwait", "alloc", "lockq", "recheck",
             "enqueue", "prewait", "wait", "take", "open", "iterate",
             "fail", "dead", "exited"}
MainPC == {"setup", "init", "create", "cvinit", "go", "flock", "evaldir",
           "evalthreads", "fwait", "stop", "signal", "join", "exit", "aborted", "crashed"}

Init ==
    /\ g_is_search = FALSE
    /\ g_all_threads_ready = FALSE
    /\ g_failed_threads = 0
    /\ g_files_found = 0
    /\ dir_queue = <<>>
    /\ thread_queue = <<>>
    /\ dir_to_handle = [t \in Threads |-> GARBAGE]
    /\ removed_dir_entry = [t \in Threads |-> NULL]
    /\ unread = [t \in Threads |-> {}]
    /\ queue_mutex = FREE
    /\ finish_mutex = FREE
    /\ queue_cv = {}
    /\ t_id = 0
    /\ pc = [t \in Threads |-> "unborn"]
    /\ mpc = "setup"
    /\ exit_status = NULL
    /\ visits = [d \in Dirs |-> 0]
    /\ reported = {}

-----------------------------------------------------------------------------
(***************************************************************************)
(* The two queues and the helpers of pfind.c.                              *)
(***************************************************************************)
is_dir_queue_empty == dir_queue = <<>>

is_thread_queue_empty == thread_queue = <<>>

is_thread_in_queue(t) == t \in Range(thread_queue)

dir_enqueue(d) == dir_queue' = Append(dir_queue, d)

dir_dequeue == dir_queue' = Tail(dir_queue)

\* Mutation: the idle thread is put at the end it is taken from.
thread_enqueue_Lifo(t) ==
    /\ thread_queue' = <<t>> \o thread_queue
    /\ dir_to_handle' = [dir_to_handle EXCEPT ![t] = NULL]

thread_enqueue(t) ==
    /\ thread_queue' = Append(thread_queue, t)
    /\ dir_to_handle' = [dir_to_handle EXCEPT ![t] = NULL]

thread_dequeue == thread_queue' = Tail(thread_queue)

\* Mutations: no barrier; a directory handed over is not looked at; a queued
\* directory is not looked at.
should_thread_sleep_NoBarrier(t) ==
    g_is_search /\ is_dir_queue_empty /\ dir_to_handle[t] = NULL

should_thread_sleep_NoHandover(t) ==
    g_is_search /\ (~g_all_threads_ready \/ is_dir_queue_empty)

should_thread_sleep_NoQueue(t) ==
    g_is_search /\ (~g_all_threads_ready \/ dir_to_handle[t] = NULL)

should_thread_sleep(t) ==
    /\ g_is_search
    /\ \/ ~g_all_threads_ready
       \/ is_dir_queue_empty /\ dir_to_handle[t] = NULL

\* The entries readdir returns for d, without "." and ".."
Listing(d) == {e \in Entries \ {Root} : Parent[e] = d}

Goto(t, l) == pc' = [pc EXCEPT ![t] = l]

\* pthread_cond_signal(&finish_cv): only main waits on it.
SignalFinish == mpc' = IF mpc = "fwait" THEN "flock" ELSE mpc

-----------------------------------------------------------------------------
(***************************************************************************)
(* Main: validation, creation of the threads, start of the search.         *)
(***************************************************************************)
\* The arguments are validated and the root is queued.  Failing validation
\* main returns FAILURE; failing malloc in dir_enqueue it leaves through
\* thread_exit_on_error, and as the only thread ends the process with 0.
MainSetup ==
    /\ mpc = "setup"
    /\ \/ /\ dir_enqueue(Root)
          /\ mpc' = "init"
          /\ UNCHANGED <<exit_status, g_failed_threads>>
       \/ /\ mpc' = "aborted"
          /\ exit_status' = 1
          /\ UNCHANGED <<dir_queue, g_failed_threads>>
       \/ /\ "root_entry" \in Faults
          /\ mpc' = "aborted"
          /\ exit_status' = 0
          /\ g_failed_threads' = g_failed_threads + 1
          /\ UNCHANGED dir_queue
    /\ UNCHANGED <<gvars, thread_queue, tvars, hvars, queue_cv, t_id,
                   queue_mutex, finish_mutex, pc>>

\* main_init allocates threads_arr and queue_cv; failing, it exits with FAILURE
\* although the root is queued.
MainInit ==
    /\ mpc = "init"
    /\ \/ mpc' = "create" /\ UNCHANGED exit_status
       \/ /\ "arrays" \in Faults
          /\ mpc' = "aborted"
          /\ exit_status' = 1
    /\ UNCHANGED <<gvars, qvars, tvars, hvars, queue_cv, t_id, g_failed_threads,
                   queue_mutex, finish_mutex, pc>>

\* pthread_create; its result is not looked at.
MainCreate ==
    /\ mpc = "create"
    /\ \/ Goto(t_id, "start")
       \/ "create" \in Faults /\ UNCHANGED pc
    /\ mpc' = "cvinit"
    /\ UNCHANGED <<gvars, qvars, tvars, hvars, ivars, g_failed_threads,
                   queue_mutex, finish_mutex>>

\* Mutations: the loop of main_init runs once too often; the condition
\* variable is not initialised.
MainCvInit_OneMore ==
    /\ mpc = "cvinit"
    /\ queue_cv' = queue_cv \cup {t_id}
    /\ t_id' = t_id + 1
    /\ mpc' = IF t_id < g_threads_num THEN "create" ELSE "go"
    /\ UNCHANGED <<gvars, qvars, tvars, hvars, exit_status, g_failed_threads,
                   queue_mutex, finish_mutex, pc>>

MainCvInit_Forgotten ==
    /\ mpc = "cvinit"
    /\ t_id' = t_id + 1
    /\ mpc' = IF t_id + 1 < g_threads_num THEN "create" ELSE "go"
    /\ UNCHANGED <<gvars, qvars, tvars, hvars, queue_cv, exit_status,
                   g_failed_threads, queue_mutex, finish_mutex, pc>>

\* The condition variable is initialised after its thread was created.
MainCvInit ==
    /\ mpc = "cvinit"
    /\ queue_cv' = queue_cv \cup {t_id}
    /\ t_id' = t_id + 1
    /\ mpc' = IF t_id + 1 < g_threads_num THEN "create" ELSE "go"
    /\ UNCHANGED <<gvars, qvars, tvars, hvars, exit_status, g_failed_threads,
                   queue_mutex, finish_mutex, pc>>

\* The search_mutex section that opens the start gate.
MainStart ==
    /\ mpc = "go"
    /\ g_is_search' = TRUE
    /\ pc' = [t \in Threads |-> IF pc[t] = "startwait" THEN "start" ELSE pc[t]]
    /\ mpc' = "flock"
    /\ UNCHANGED <<g_all_threads_ready, qvars, tvars, hvars, ivars,
                   g_failed_threads, queue_mutex, finish_mutex>>

-----------------------------------------------------------------------------
(***************************************************************************)
(* Main: waiting for the end of the search.                                *)
(***************************************************************************)
MainLockFinish ==
    /\ mpc = "flock"
    /\ finish_mutex = FREE
    /\ finish_mutex' = MAIN
    /\ mpc' = "evaldir"
    /\ UNCHANGED <<gvars, qvars, tvars, hvars, ivars, g_failed_threads,
                   queue_mutex, pc>>

\* The rest of the loop condition once its first conjunct is known to hold
\* (g_failed_threads only changes under finish_mutex): wait, or leave.
WaitOrStop ==
    IF g_failed_threads # g_threads_num
    THEN mpc' = "fwait" /\ finish_mutex' = FREE
    ELSE mpc' = "stop" /\ UNCHANGED finish_mutex

\* Mutation: the exit test forgets the directory queue.
MainEvalDir_Skipped ==
    /\ mpc = "evaldir"
    /\ mpc' = "evalthreads"
    /\ UNCHANGED <<gvars, qvars, tvars, hvars, ivars, g_failed_threads,
                   queue_mutex, finish_mutex, pc>>

\* is_dir_queue_empty() of the exit test, without queue_mutex.
MainEvalDir ==
    /\ mpc = "evaldir"
    /\ IF is_dir_queue_empty
       THEN mpc' = "evalthreads" /\ UNCHANGED finish_mutex
       ELSE WaitOrStop
    /\ UNCHANGED <<gvars, qvars, tvars, hvars, ivars, g_failed_threads,
                   queue_mutex, pc>>

\* Mutation: the exit test is satisfied one thread early.
MainEvalThreads_OneShort ==
    /\ mpc = "evalthreads"
    /\ IF Len(thread_queue) + g_failed_threads + 1 >= g_threads_num
       THEN mpc' = "stop" /\ UNCHANGED finish_mutex
       ELSE WaitOrStop
    /\ UNCHANGED <<gvars, qvars, tvars, hvars, ivars, g_failed_threads,
                   queue_mutex, pc>>

\* The thread count of the exit test, also without queue_mutex.
MainEvalThreads ==
    /\ mpc = "evalthreads"
    /\ IF Len(thread_queue) + g_failed_threads = g_threads_num
       THEN mpc' = "stop" /\ UNCHANGED finish_mutex
       ELSE WaitOrStop
    /\ UNCHANGED <<gvars, qvars, tvars, hvars, ivars, g_failed_threads,
                   queue_mutex, pc>>

\* g_is_search is lowered under finish_mutex alone.
MainStop ==
    /\ mpc = "stop"
    /\ g_is_search' = FALSE
    /\ mpc' = "signal"
    /\ UNCHANGED <<g_all_threads_ready, qvars, tvars, hvars, ivars,
                   g_failed_threads, queue_mutex, finish_mutex, pc>>

\* With finish_mutex held, lock queue_mutex, signal every thread, unlock both.
MainSignalAll ==
    /\ mpc = "signal"
    /\ queue_mutex = FREE
    /\ pc' = [t \in Threads |-> IF pc[t] = "wait" THEN "lockq" ELSE pc[t]]
    /\ finish_mutex' = FREE
    /\ mpc' = "join"
    /\ UNCHANGED <<gvars, qvars, tvars, hvars, ivars, g_failed_threads,
                   queue_mutex>>

MainJoin ==
    /\ mpc = "join"
    /\ \A t \in Threads : pc[t] \in {"dead", "exited"}
    /\ mpc' = "exit"
    /\ exit_status' = IF g_failed_threads # 0 THEN 1 ELSE 0
    /\ UNCHANGED <<gvars, qvars, tvars, hvars, queue_cv, t_id,
                   g_failed_threads, queue_mutex, finish_mutex, pc>>

Main == \/ MainSetup \/ MainInit \/ MainCreate \/ MainCvInit \/ MainStart
        \/ MainLockFinish \/ MainEvalDir \/ MainEvalThreads
        \/ MainStop \/ MainSignalAll \/ MainJoin

-----------------------------------------------------------------------------
(***************************************************************************)
(* A searching thread: the start gate and the barrier before the search.   *)
(***************************************************************************)
\* wait_for_start: the test and the wait are one search_mutex section.
wait_for_start(t) ==
    /\ pc[t] = "start"
    /\ Goto(t, IF g_is_search THEN "alloc" ELSE "startwait")
    /\ UNCHANGED <<gvars, qvars, tvars, hvars, ivars, g_failed_threads,
                   queue_mutex, finish_mutex, mpc>>

\* malloc of thread_entry.
AllocEntry(t) ==
    /\ pc[t] = "alloc"
    /\ \/ Goto(t, "lockq")
       \/ "thread_entry" \in Faults /\ Goto(t, "fail")
    /\ UNCHANGED <<gvars, qvars, tvars, hvars, ivars, g_failed_threads,
                   queue_mutex, finish_mutex, mpc>>

\* Obtain queue_mutex (unless it is held already) and test whether to sleep.
CheckSleep(t) ==
    /\ \/ pc[t] = "lockq" /\ queue_mutex = FREE
       \/ pc[t] = "recheck"
    /\ queue_mutex' = t
    /\ Goto(t, IF should_thread_sleep(t) THEN "enqueue" ELSE "take")
    /\ UNCHANGED <<gvars, qvars, tvars, hvars, ivars, g_failed_threads,
                   finish_mutex, mpc>>

\* The finish_mutex section, inside queue_mutex, that makes the thread idle.
BecomeIdle(t) ==
    /\ pc[t] = "enqueue"
    /\ finish_mutex = FREE
    /\ IF is_thread_in_queue(t)
       THEN UNCHANGED <<thread_queue, dir_to_handle>>
       ELSE thread_enqueue(t)
    /\ SignalFinish
    /\ Goto(t, "prewait")
    /\ UNCHANGED <<gvars, dir_queue, removed_dir_entry, unread, hvars, ivars,
                   g_failed_threads, queue_mutex, finish_mutex>>

\* Mutation: the thread that opens the barrier always goes to sleep.
OpenBarrier_Sleeps(t) ==
    /\ pc[t] = "prewait"
    /\ ~g_all_threads_ready /\ Len(thread_queue) = g_threads_num
    /\ g_all_threads_ready' = TRUE
    /\ thread_dequeue
    /\ queue_mutex' = FREE
    /\ pc' = [u \in Threads |-> IF u = t THEN "wait" ELSE
                             IF u = Head(thread_queue) THEN "lockq" ELSE pc[u]]
    /\ UNCHANGED <<g_is_search, dir_queue, tvars, hvars, ivars,
                   g_failed_threads, finish_mutex, mpc>>

\* The last thread to arrive opens the search and wakes the first one that
\* arrived, which is the thread itself when there is only one.
OpenBarrier(t) ==
    /\ pc[t] = "prewait"
    /\ ~g_all_threads_ready /\ Len(thread_queue) = g_threads_num
    /\ g_all_threads_ready' = TRUE
    /\ thread_dequeue
    /\ IF g_threads_num # 1
       THEN /\ queue_mutex' = FREE
            /\ LET u == Head(thread_queue)
                   slept == [pc EXCEPT ![t] = "wait"]
               IN  pc' = [slept EXCEPT ![u] = IF pc[u] = "wait"
                                               THEN "lockq" ELSE slept[u]]
       ELSE Goto(t, "recheck") /\ UNCHANGED queue_mutex
    /\ UNCHANGED <<g_is_search, dir_queue, tvars, hvars, ivars,
                   g_failed_threads, finish_mutex, mpc>>

\* pthread_cond_wait(&queue_cv[t], &queue_mutex)
Sleep(t) ==
    /\ pc[t] = "prewait"
    /\ g_all_threads_ready \/ Len(thread_queue) # g_threads_num
    /\ Goto(t, "wait")
    /\ queue_mutex' = FREE
    /\ UNCHANGED <<gvars, qvars, tvars, hvars, ivars, g_failed_threads,
                   finish_mutex, mpc>>

\* The wait returns although nobody signalled.
SpuriousWakeup(t) ==
    /\ "spurious" \in Faults
    /\ pc[t] = "wait"
    /\ Goto(t, "lockq")
    /\ UNCHANGED <<gvars, qvars, tvars, hvars, ivars, g_failed_threads,
                   queue_mutex, finish_mutex, mpc>>

-----------------------------------------------------------------------------
(***************************************************************************)
(* A searching thread: taking a directory and reading it.                  *)
(***************************************************************************)
\* The search is over: release queue_mutex and end.
ThreadExit(t) ==
    /\ pc[t] = "take"
    /\ ~g_is_search
    /\ Goto(t, "exited")
    /\ queue_mutex' = FREE
    /\ UNCHANGED <<gvars, qvars, tvars, hvars, ivars, g_failed_threads,
                   finish_mutex, mpc>>

\* Begin with directory d, outside the critical section.
BeginDir(t, d) ==
    /\ removed_dir_entry' = [removed_dir_entry EXCEPT ![t] = d]
    /\ unread' = [unread EXCEPT ![t] = Listing(d)]
    /\ visits' = [visits EXCEPT ![d] = @ + 1]

\* Take the directory another thread handed over, else the oldest queued one.
TakeDir(t) ==
    /\ pc[t] = "take"
    /\ g_is_search
    /\ IF dir_to_handle[t] # NULL
       THEN BeginDir(t, dir_to_handle[t]) /\ UNCHANGED dir_queue
       ELSE BeginDir(t, Head(dir_queue)) /\ dir_dequeue
    /\ queue_mutex' = FREE
    /\ Goto(t, "open")
    /\ UNCHANGED <<gvars, thread_queue, dir_to_handle, g_files_found, reported,
                   ivars, g_failed_threads, finish_mutex, mpc>>

\* opendir, which may fail for reasons other than permissions.
open_dir_and_check(t) ==
    /\ pc[t] = "open"
    /\ \/ Goto(t, "iterate")
       \/ "opendir" \in Faults /\ Goto(t, "fail")
    /\ UNCHANGED <<gvars, qvars, tvars, hvars, ivars, g_failed_threads,
                   queue_mutex, finish_mutex, mpc>>

\* Mutation: the same entry is returned again.
Consume_Again(t, e) == UNCHANGED unread

\* readdir has returned e, which is then done with.
Consume(t, e) == unread' = [unread EXCEPT ![t] = @ \ {e}]

\* stat fails on the next entry.
get_stat_Failure(t) ==
    /\ "stat" \in Faults
    /\ pc[t] = "iterate" /\ unread[t] # {}
    /\ Goto(t, "fail")
    /\ UNCHANGED <<gvars, qvars, tvars, hvars, ivars, g_failed_threads,
                   queue_mutex, finish_mutex, mpc>>

\* Mutation: files that do not match are counted too.
ReadFile_CountsAll(t) ==
    /\ pc[t] = "iterate"
    /\ \E f \in unread[t] \cap Files :
          /\ Consume(t, f)
          /\ reported' = reported \cup ({f} \cap Matches)
    /\ g_files_found' = g_files_found + 1
    /\ UNCHANGED <<gvars, qvars, dir_to_handle, removed_dir_entry, visits,
                   ivars, g_failed_threads, queue_mutex, finish_mutex, pc, mpc>>

\* An entry that is not a directory: print and count it when it matches.
ReadFile(t) ==
    /\ pc[t] = "iterate"
    /\ \E f \in unread[t] \cap Files :
          /\ Consume(t, f)
          /\ IF f \in Matches
             THEN reported' = reported \cup {f} /\ g_files_found' = g_files_found + 1
             ELSE UNCHANGED <<reported, g_files_found>>
    /\ UNCHANGED <<gvars, qvars, dir_to_handle, removed_dir_entry, visits,
                   ivars, g_failed_threads, queue_mutex, finish_mutex, pc, mpc>>

\* A subdirectory that cannot be searched is only mentioned.
SkipDir(t) ==
    /\ pc[t] = "iterate"
    /\ \E d \in unread[t] \cap Denied : Consume(t, d)
    /\ UNCHANGED <<gvars, qvars, dir_to_handle, removed_dir_entry, hvars,
                   ivars, g_failed_threads, queue_mutex, finish_mutex, pc, mpc>>

\* A searchable subdirectory, the longest idle thread's to search.
HandOver(t) ==
    /\ pc[t] = "iterate"
    /\ queue_mutex = FREE
    /\ ~is_thread_queue_empty
    /\ \E d \in (unread[t] \cap Dirs) \ Denied :
          LET u == Head(thread_queue) IN
          /\ Consume(t, d)
          /\ thread_dequeue
          /\ dir_to_handle' = [dir_to_handle EXCEPT ![u] = d]
          /\ pc' = IF pc[u] = "wait" THEN [pc EXCEPT ![u] = "lockq"] ELSE pc
    /\ UNCHANGED <<gvars, dir_queue, removed_dir_entry, hvars, ivars,
                   g_failed_threads, queue_mutex, finish_mutex, mpc>>

\* The result of malloc at line 315 is used unchecked: the process dies.
HandOverCrash(t) ==
    /\ "new_dir" \in Faults
    /\ pc[t] = "iterate"
    /\ queue_mutex = FREE
    /\ ~is_thread_queue_empty
    /\ (unread[t] \cap Dirs) \ Denied # {}
    /\ mpc' = "crashed"
    /\ UNCHANGED <<gvars, qvars, tvars, hvars, ivars, g_failed_threads,
                   queue_mutex, finish_mutex, pc>>

\* Mutation: a subdirectory is queued although a thread is idle.
QueueDir_Always(t) ==
    /\ pc[t] = "iterate"
    /\ queue_mutex = FREE
    /\ \E d \in (unread[t] \cap Dirs) \ Denied : dir_enqueue(d) /\ Consume(t, d)
    /\ UNCHANGED <<gvars, thread_queue, dir_to_handle, removed_dir_entry, hvars,
                   ivars, g_failed_threads, queue_mutex, finish_mutex, pc, mpc>>

\* A searchable subdirectory while nobody is idle.
QueueDir(t) ==
    /\ pc[t] = "iterate"
    /\ queue_mutex = FREE
    /\ is_thread_queue_empty
    /\ \E d \in (unread[t] \cap Dirs) \ Denied : dir_enqueue(d) /\ Consume(t, d)
    /\ UNCHANGED <<gvars, thread_queue, dir_to_handle, removed_dir_entry, hvars,
                   ivars, g_failed_threads, queue_mutex, finish_mutex, pc, mpc>>

\* The malloc of dir_enqueue fails: the thread ends with queue_mutex locked.
QueueDirFailure(t) ==
    /\ "dir_entry" \in Faults
    /\ pc[t] = "iterate"
    /\ queue_mutex = FREE
    /\ is_thread_queue_empty
    /\ (unread[t] \cap Dirs) \ Denied # {}
    /\ queue_mutex' = t
    /\ Goto(t, "fail")
    /\ UNCHANGED <<gvars, qvars, tvars, hvars, ivars, g_failed_threads,
                   finish_mutex, mpc>>

\* Mutations: the handed-over directory stays assigned (line 446 missing); the
\* directory is left before its last entry.
EndDir_KeepsHandover(t) ==
    /\ pc[t] = "iterate"
    /\ unread[t] = {}
    /\ removed_dir_entry' = [removed_dir_entry EXCEPT ![t] = NULL]
    /\ Goto(t, "lockq")
    /\ UNCHANGED <<gvars, qvars, dir_to_handle, unread, hvars, ivars,
                   g_failed_threads, queue_mutex, finish_mutex, mpc>>

EndDir_Early(t) ==
    /\ pc[t] = "iterate"
    /\ dir_to_handle' = [dir_to_handle EXCEPT ![t] = NULL]
    /\ removed_dir_entry' = [removed_dir_entry EXCEPT ![t] = NULL]
    /\ Goto(t, "lockq")
    /\ UNCHANGED <<gvars, qvars, unread, hvars, ivars, g_failed_threads,
                   queue_mutex, finish_mutex, mpc>>

\* readdir has returned every entry.
EndDir(t) ==
    /\ pc[t] = "iterate"
    /\ unread[t] = {}
    /\ dir_to_handle' = [dir_to_handle EXCEPT ![t] = NULL]
    /\ removed_dir_entry' = [removed_dir_entry EXCEPT ![t] = NULL]
    /\ Goto(t, "lockq")
    /\ UNCHANGED <<gvars, qvars, unread, hvars, ivars, g_failed_threads,
                   queue_mutex, finish_mutex, mpc>>

\* Mutation: main is not told of the failure.
thread_exit_on_error_Silent(t) ==
    /\ pc[t] = "fail"
    /\ finish_mutex = FREE
    /\ g_failed_threads' = g_failed_threads + 1
    /\ Goto(t, "dead")
    /\ UNCHANGED <<gvars, qvars, tvars, hvars, ivars, queue_mutex, finish_mutex, mpc>>

\* The one exit of a thread that met an error.
thread_exit_on_error(t) ==
    /\ pc[t] = "fail"
    /\ finish_mutex = FREE
    /\ g_failed_threads' = g_failed_threads + 1
    /\ SignalFinish
    /\ Goto(t, "dead")
    /\ UNCHANGED <<gvars, qvars, tvars, hvars, ivars, queue_mutex, finish_mutex>>

\* A crash ends every thread.
Thread(t) ==
    /\ mpc # "crashed"
    /\ \/ wait_for_start(t) \/ AllocEntry(t) \/ CheckSleep(t)
       \/ BecomeIdle(t) \/ OpenBarrier(t) \/ Sleep(t)
       \/ ThreadExit(t) \/ TakeDir(t) \/ open_dir_and_check(t)
       \/ get_stat_Failure(t) \/ ReadFile(t) \/ SkipDir(t)
       \/ HandOver(t) \/ HandOverCrash(t) \/ QueueDir(t) \/ QueueDirFailure(t)
       \/ EndDir(t) \/ thread_exit_on_error(t)

-----------------------------------------------------------------------------
Ended == mpc \in {"exit", "aborted", "crashed"}

\* The process is gone.
Done == Ended /\ UNCHANGED vars

Next == \/ Main
        \/ \E t \in Threads : Thread(t)
        \/ \E t \in Threads : mpc # "crashed" /\ SpuriousWakeup(t)
        \/ Done

Spec == Init /\ [][Next]_vars

(***************************************************************************)
(* The scheduler runs every thread that is not blocked.  A tree gives each *)
(* thread a bounded amount of work, so no stronger promise about contended *)
(* mutexes is needed.  Nothing obliges the environment to wake a thread.   *)
(***************************************************************************)
FairSpec ==
    /\ Spec
    /\ WF_vars(Main)
    /\ \A t \in Threads : WF_vars(Thread(t))

-----------------------------------------------------------------------------
\* The types of main's and the threads' state; in particular main_init's loop
\* stays inside the arrays it allocated and only main ever keeps finish_mutex.
TypeOK ==
    /\ g_is_search \in BOOLEAN
    /\ g_all_threads_ready \in BOOLEAN
    /\ g_failed_threads \in Nat
    /\ g_files_found \in Nat
    /\ dir_queue \in Seq(Dirs)
    /\ thread_queue \in Seq(Threads)
    /\ dir_to_handle \in [Threads -> Dirs \cup {NULL, GARBAGE}]
    /\ removed_dir_entry \in [Threads -> Dirs \cup {NULL}]
    /\ unread \in [Threads -> SUBSET Entries]
    /\ queue_mutex \in Threads \cup {FREE}
    /\ finish_mutex \in {MAIN, FREE}
    /\ queue_cv \subseteq Threads
    /\ t_id \in 0 .. g_threads_num
    /\ pc \in [Threads -> ThreadPC]
    /\ mpc \in MainPC
    /\ exit_status \in {NULL, 0, 1}
    /\ visits \in [Dirs -> Nat]
    /\ reported \subseteq Files

Idle(t) == t \in Range(thread_queue)
Failed(t) == pc[t] = "dead"
Searching(t) == pc[t] \in {"open", "iterate", "fail"}
Visited(d) == visits[d] > 0

\* The same directory is never searched twice (pfind.pdf, correctness
\* requirements): it is queued or handed over once, and taken once.
SearchedOnce == \A d \in Dirs : visits[d] <= 1

\* The printed total is the number of paths printed: no file is reported
\* twice, and the counter of line 343 misses none.
CountExact == g_files_found = Cardinality(reported)

\* A process that ends with status 0 has searched the root, every searchable
\* subdirectory of a searched directory, and printed every matching file.  It
\* does not hold with the fault "root_entry": when line 142 fails for the root,
\* main leaves through pthread_exit and the status is 0 (pfind.pdf asks for 1).
CompleteSearch ==
    exit_status = 0 =>
        /\ Visited(Root)
        /\ \A d \in Dirs : Visited(d) =>
              \A e \in Listing(d) : /\ e \in Dirs \ Denied => Visited(e)
                                    /\ e \in Matches => e \in reported

\* The comment at lines 541-545: once the search is declared over, either
\* every thread failed, or no directory is pending and no live thread works.
NoEarlyStop ==
    mpc \in {"stop", "signal", "join", "exit"} =>
        \/ \A t \in Threads : Failed(t)
        \/ /\ is_dir_queue_empty
           /\ \A t \in Threads : ~Searching(t) /\ pc[t] # "recheck"
           /\ \A t \in Threads : ~Failed(t) => dir_to_handle[t] = NULL

\* dir_dequeue never meets an empty queue ("which can't be empty here", line
\* 434), and the field a thread branches on at line 426 was assigned.
TakeHasWork ==
    \A t \in Threads : pc[t] = "take" /\ g_is_search =>
        /\ dir_to_handle[t] # GARBAGE
        /\ dir_to_handle[t] = NULL => ~is_dir_queue_empty

\* After the root was taken no thread sleeps while a directory is queued: a
\* wakeup is never missing.
NoIdleWhileQueued ==
    Visited(Root) /\ ~is_dir_queue_empty => is_thread_queue_empty

\* main locks finish_mutex before queue_mutex, a thread going idle the other
\* way round: while main holds the first and asks for the second, no thread
\* holds the second and asks for the first.
NoLockCycle ==
    mpc = "signal" => \A t \in Threads : ~(queue_mutex = t /\ pc[t] \in {"enqueue", "fail"})

\* No wait or signal on a condition variable line 482 has yet to initialise.
CvInitialised ==
    /\ \A t \in Threads : pc[t] \in {"prewait", "wait"} => t \in queue_cv
    /\ Range(thread_queue) \subseteq queue_cv
    /\ mpc = "signal" => queue_cv = Threads

\* Work goes to the sleeping threads in the order they went to sleep
\* (pfind.pdf, correctness requirements), and to threads that really sleep: a
\* thread is handed a directory only as the longest idle one and inside its
\* pthread_cond_wait, whose signal it then cannot miss.
FifoHandover ==
    [][/\ \/ thread_queue' = thread_queue
          \/ thread_queue # <<>> /\ thread_queue' = Tail(thread_queue)
          \/ \E t \in Threads : thread_queue' = Append(thread_queue, t)
       /\ \A t \in Threads : dir_to_handle'[t] \in Dirs \ {dir_to_handle[t]} =>
             /\ t = Head(thread_queue) /\ thread_queue' = Tail(thread_queue)
             /\ pc[t] = "wait" /\ pc'[t] = "lockq"]_vars

\* The program exits, also when threads fail while they search: main is never
\* left asleep on finish_cv and no join waits for ever.
Termination == <>(mpc \in {"exit", "aborted"})

\* The program ends, unless it hangs for one of these reasons: a thread was never
\* created (line 481 looks at no result); one died inside dir_enqueue with
\* queue_mutex locked (line 145); one failed before the barrier while others wait
\* for it there (line 398); or one whose wait returned without a signal asks for
\* finish_mutex (line 384) while main, holding it, asks for queue_mutex (line 546).
\* With several threads wakeups without a signal have more ways to hang it.
HungBy(t) ==
    \/ pc[t] = "unborn" /\ t < t_id
    \/ Failed(t) /\ queue_mutex = t
    \/ Failed(t) /\ ~g_all_threads_ready /\ \E u \in Threads : ~Failed(u)
    \/ pc[t] = "enqueue" /\ mpc = "signal"
EndsOrHung == <>Ended \/ <>[](\E t \in Threads : HungBy(t))

\* A directory that was queued is searched, unless every thread has failed or main
\* gave up before it created them.
QueuedIsSearched ==
    \A d \in Dirs : d \in Range(dir_queue) ~>
        (Visited(d) \/ mpc = "aborted" \/ \A t \in Threads : Failed(t))

-----------------------------------------------------------------------------
(***************************************************************************)
(* The search pfind.c implements.  It begins when main has what it needs   *)
(* to create the threads.  A directory is found when it is queued, handed  *)
(* over or taken, closed when its thread is done with it, and lost with    *)
(* the thread that failed on it.                                           *)
(***************************************************************************)
Begun == mpc \notin {"setup", "init", "aborted"}
Found == {d \in Dirs : Begun /\ \/ Visited(d)
                                \/ d \in Range(dir_queue)
                                \/ \E t \in Threads : dir_to_handle[t] = d}
Closed == {d \in Dirs : Visited(d) /\ \A t \in Threads : removed_dir_entry[t] # d}
Lost == {d \in Dirs : \E t \in Threads : removed_dir_entry[t] = d
                                         /\ pc[t] \in {"fail", "dead"}}

Search == INSTANCE FileSearch WITH
    found <- Found, closed <- Closed, lost <- Lost, status <- exit_status

\* The program implements the abstract search: every interleaving of the
\* threads' steps looks like one sequential search; the exit status is 0 only when
\* every directory that was found was read to its end, and 1 only when one was lost
\* or main failed before the search began.
ImplementsSearch == Search!Spec

=============================================================================
