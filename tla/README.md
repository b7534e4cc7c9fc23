# Verification of the OS course programs

The repository holds five independent programs, one per directory. This project
models them in TLA+, checks the models with TLC and proves what matters most with
TLAPS: the page table (`hw1_os`), the shell (`hw2_os`), the message slot driver and
the two programs that use it (`hw3_os`), the parallel file search (`hw4_os`), and the
TCP server and client that count printable characters (`hw5_os`).

## 1. Inventory

### pfind, `hw4_os/pfind.c`
*State*: the directory queue `g_dir_queue`, the queue of idle threads
`g_thread_queue`, each thread's `thread_entry` with the directory handed to it, the
flags `g_is_search` and `g_all_threads_ready`, the counters `g_failed_threads` and
`g_files_found`, three mutexes, `search_cv`, `finish_cv` and one `queue_cv` per thread.
*Operations*: main validates, queues the root, creates the threads, opens the start
gate, waits for the end, stops and joins the threads. A searching thread passes the
gate and a barrier, then repeatedly takes a directory, reads it, reports files, and
hands each subdirectory to the longest idle thread or to the queue.
*Interaction*: shared memory under two mutexes locked in both orders, condition
variables, and an exit test that reads the queues without their mutex.
*Hard*: lost and spurious wakeups, the lock order, termination detection, failing
threads, the barrier.
*Correct when*: no directory is searched twice, a run with status 0 searched
everything and printed every match once, work is handed out in FIFO order, the
program ends, and main ends the search only when nothing is left to do.

### message_slot, `hw3_os/message_slot.c`, with message_sender and message_reader
*State*: per minor number a slot (allocated on first open), a list of channels with
`msg_buffer`, `curr_msg_len`, `active`; per open file a channel id in `private_data`.
*Operations*: `msg_slot_init`, `msg_slot_cleanup`, `device_open`, `device_release`,
`device_ioctl`, `device_read`, `device_write`. The sender and the reader are
sequences open, ioctl, write or read, close; the reader then prints what it read.
*Hard*: long sequences of calls by several files; an allocation or a copy that fails
half way through a write; unloading.
*Correct when*: a read returns the last message written to that minor and channel,
whole; a failed call changes no message; unloading frees everything; the reader prints
one message and nothing else.

### Page table, `hw1_os/pt.c` over `hw1_os/os.c`
*State*: page frames, their allocator, one trie per page table root.
*Operations*: `page_table_update`, `page_table_query`, both by `page_walk`;
`alloc_page_frame`, `phys_to_virt`.
*Hard*: several tables over one allocator, memory exhausted in the middle of a walk,
entries written with `|=`.
*Correct when*: each table is a map from virtual to physical pages, independent of the
others.

### pcc_server and pcc_client, `hw5_os`
*State*: `pcc_total`, `pcc_client`, `g_server_is_running`, `g_server_is_processing`; a
TCP connection per client; a backlog of connections.
*Operations*: the server sets up, accepts, reads a length and that many bytes, answers
and adds up; SIGINT ends it. The client announces its file's length, sends the file
and prints the answer.
*Hard*: SIGINT at any point of the loop (the handler and the loop share two flags),
clients that fail in the middle, partial reads and writes, EINTR.
*Correct when*: the totals count exactly the clients that were answered; SIGINT ends
the server after the current client, with the totals printed; a client ends.

### myshell, `hw2_os/myshell.c`, called from `shell.c`
*State*: `is_foreground`, `current_fg_id`, `current_pipe_writer`,
`current_pipe_reader`; child processes and pending signals.
*Operations*: a line is a foreground command, one with redirected output, a background
command or a pipe of two; the handlers of SIGCHLD and SIGINT reset the flags.
*Hard*: SIGCHLD before the flags are set, coalesced SIGCHLDs, SIGINT while waiting.
*Correct when*: the shell waits for a foreground command, no more and no less, and
leaves no zombies.

`back.c`, `my_tester.c` and `tester (1).py` are test programs without logic of their own.

## 2. Modules

| Module | Models |
|---|---|
| `Pfind` | pfind.c: main and the searching threads; its properties |
| `FileSearch` | what a search promises, without threads |
| `MCPfind` | a tree of five directories and three files for TLC |
| `PfindProofs` | type correctness, `TakeHasWork`, `SearchedOnce`, `CountExact` |
| `PfindStopProofs` | `NoEarlyStop`, `NoIdleWhileQueued`, `NoLockCycle`, `CvInitialised`, `FifoHandover`, `CompleteSearch`; the refinement of `FileSearch` |
| `MessageSlot` | message_slot.c: the driver and the open files; its properties |
| `MessageBoard` | what a message slot promises |
| `MCMessageSlot` | small messages and symmetry for TLC |
| `MessageSlotProofs` | type correctness, `UniqueChannels`, `ChannelsKept` |
| `MessengerProofs` | `MessageWhole`, `NoLeak`, `ImplementsBoard`; the programs: `PrintsMessage`, `ReaderServed` |
| `Messenger` | message_sender.c and message_reader.c over `MessageSlot` |
| `MCMessenger` | `Messenger` with the messages of `MCMessageSlot` |
| `PageTable` | pt.c and os.c: the tries, the walk and the allocator |
| `AddressMap` | what page tables promise |
| `MCPageTable` | small page numbers for TLC |
| `PageTableProofs` | type correctness, `NoSharing`, `InvalidIsZero` |
| `PageTableMapProofs` | the refinement of `AddressMap` |
| `Connection` | TCP as both programs use it (external), `htonl`, `is_printable` |
| `PccServer` | pcc_server.c |
| `PccClient` | pcc_client.c |
| `PccSystem` | the server, its clients and the network; the properties |
| `MCPcc` | small files for TLC |
| `PccProofs` | type correctness, `NoAcceptAfterSigint`, `TotalsExact`, `AnswerExact` |
| `MyShell` | myshell.c under the loop of shell.c; its properties |
| `MyShellProofs` | type correctness, `ZombieSignalled`, `SigintSpares`, `WaitKept` |

Operators whose names have a suffix after an underscore, such as
`EndDir_Early`, are plausible bugs: each is a variation of the definition that
follows it, and shows that a property notices when the code is changed that way.

### Pfind
Variables have the names of the C globals. `dir_queue` and `thread_queue` are
sequences from the tail (next out) to the head. `dir_to_handle[t]`,
`removed_dir_entry[t]` and `unread[t]` (the entries `readdir` has yet to return) are a
thread's own. `pc[t]` and `mpc` are control points; a thread at `"lockq"` wants
`queue_mutex`, coming from line 380 or from inside `pthread_cond_wait`. A critical
section is one action where nothing outside it can observe its middle. The exit test
of line 535 is two actions, because it reads the queues without `queue_mutex`, and so
are the nested sections (`CheckSleep`, `BecomeIdle`), because they take the second
mutex while holding the first. `visits` and `reported` are history variables.

The tree is given by `Parent`; `Denied` directories lack the r or x bit. `Faults` says
what the environment may do: failing `opendir`, `stat`, `pthread_create`, spurious
wakeups, and the five `malloc`s, which have five different outcomes. The two of
`main_init` (`"arrays"`, lines 455 and 470) end the process with status 1 although the root
is queued. The one in `dir_enqueue` (line 142) ends the process with status 0 when main
calls it (`"root_entry"`: `thread_exit_on_error` makes the only thread leave through
`pthread_exit`), and kills a thread that holds `queue_mutex` when a thread calls it
(`"dir_entry"`). The one of the thread entry (`"thread_entry"`, line 372) fails a thread
before the barrier. The one of the new path (`"new_dir"`, line 315) is not checked and
crashes the process. Not modelled: path strings and their `PATH_MAX` limit, symbolic links
(`stat` follows them, so the tree is assumed to be one), changes of the tree during
the search, `argv[3]` equal to 0.

### MessageSlot
A system call is one action because the assignment promises that calls run one at a
time (msgslot.pdf 3.1, item 11); calls of different files interleave freely. A slot is
a sequence of channel records, head first. A buffer is a sequence of bytes;
`GARBAGE` is the content of fresh memory, and a failing `copy_from_user` leaves a
prefix followed by zeroes, as the kernel does. `curr_msg_len` is uninitialised until a
write succeeds; reading it then is a choice. An access through a NULL pointer is the
module state `"oops"`. `allocated` counts the blocks held for each minor.

`MessageBoard` keeps the set of pairs of a place and its message; the refinement
mapping collects the active channels of all slots. `caller` is a history variable of both,
the file on which the last call was made: a read must be matched by a read of the same
file, a refusal by a reason that the same file has.

### Messenger
The programs' calls are the driver's actions, each followed by the program's reaction
to the result. A file of `ProgramFiles` is opened by the sender, the reader or any other
program, which may make every call in every order. A program can be killed between
any two calls. `buffer` and `ret_val` are the reader's variables. Its write to standard
output may fail or accept only the beginning of the message; line 54 tells the first
from success, and not the second. A failing `malloc`
(unchecked) makes `read` fail with EFAULT, like any inaccessible buffer.

### Connection, PccServer, PccClient, PccSystem
A connection is a byte stream in each direction, and each `read` returns any part of
what has arrived. Closing with unread bytes, or writing to a closed end, resets the
connection, and so may the network.

The server's variables have the names of the C variables; `spc` is its control point,
and there is one point between any two statements that the SIGINT handler can tell
apart. The handler runs as one action at any of them. With the compile line that pcc.pdf
prescribes (`-std=c11 -D_POSIX_C_SOURCE=200809`), `signal()` is `__sysv_signal`: the
handler is removed when it runs, so a second SIGINT kills the process, and a blocked
`accept` or `read` fails with EINTR. A failing `accept` ends the process, be it
interrupted or for want of a resource (`AcceptError`); a failing `read` gives up the
client. SIGPIPE is not ignored, so an answer to a client that is gone may kill the
server. Counters are `uint32_t` and wrap; `UINT_MAX` is `Power[SIZEOF] - 1`, the largest
number of `SIZEOF` digits. `answered` and `failed` are history variables.

The client has no signal handlers, so a blocking `write` takes all it is given and
the loops around `write` run once. A file is a record of the length that `stat`
reports and the bytes that `read` returns, so a file that shrinks and one of 2^31
bytes and more can be expressed. A client whose server has closed the connection
reads 0 bytes for ever; it has no step then. Not modelled: addresses and ports,
failing `setsockopt` apart from other failures of the setup.

### MyShell
The shell's statements that a handler can tell apart are actions: setting
`is_foreground` and setting `current_fg_id` are two (gcc keeps their order). A child is
`"forked"` until `execvp`, then `"running"` or `"stopped"`, and after its end a
`"zombie"` until `waitpid` reports it. `si_pid` is the one pending SIGCHLD; further ones
are dropped while it is pending. It is delivered before the shell's next step
(`UserCode`), since the kernel delivers signals whenever it returns to the process.
SIGCHLD is blocked during its handler, whose loop takes one action per child; SIGINT is
not. `write_end` says which process has the write end of which pipe open. What a child
does between `signal` and `execvp` is one action, which may fail. SIGINT reaches the
shell alone (`kill`) or the children too (the terminal). Not modelled: the words of a
line, the reallocated `arglist` that shell.c frees, process ids being reused, SIGCONT.

### PageTable
A virtual page number is the sequence of its index groups (the bits above the 45
used are dropped by `VPN_I`, so pages that differ only there are one page). A
physical page number is the set of its one bits: `|=` is a union, `<< 12` an
intersection with the bits that survive. `page_walk` takes one action per level.
`level` is a history variable: the level a frame was allocated for.

## 3. Runs

| Run | Instance | Shows |
|---|---|---|
| `pfind_safety` | 3 threads, faults opendir, stat, arrays, new_dir | all safety properties and the refinement of `FileSearch` |
| `pfind_live` | 2 threads, faults opendir, stat, arrays, root_entry, weak fairness | `Termination`, `QueuedIsSearched` |
| `pfind_faults` | 1 thread, every fault but root_entry and new_dir, weak fairness | the single-thread path of the barrier: status 0 still means a complete search, main does not stop early, and the program ends or hangs for a reason that `HungBy` lists |
| `pfind_spurious` | 3 threads, spurious wakeups | a violation of `NoEarlyStop` |
| `pfind_barrier` | 2 threads, malloc of the thread entry | a violation of `Termination` |
| `msgslot_driver` | 2 minors, 2 channels, 2 files, one of them the programs' | the refinement of `MessageBoard`, whole messages, no leak; the reader gives its write one whole message and is refused only when there is none |
| `msgslot_faults` | 1 minor, 2 channels, 2 files, all faults | ids unique, nothing lost, whatever fails |
| `msgslot_enomem` | 2 minors, failing channel allocation | a violation of `OwnChannelOnly` |
| `pagetable` | 2 tables, 3 levels, 6 frames | disjoint trees, clean entries, the refinement of `AddressMap` |
| `pcc_system` | 2 clients, 2 SIGINTs, 1 client killed or cut off or 1 failing accept, weak fairness | exact totals and answers, SIGINT ends the server, clients are served |
| `shell_jobs` | 3 children, 1 SIGINT, 1 stopped child, weak fairness | zombies, waiting, SIGINT, the end of a pipe |
| `shell_wait` | 2 children, weak fairness | a violation of `ForegroundReturns` |

*Bounds.* Three threads are the least with one searching, one just handed work and
one idle; the tree has two levels below the root, an unsearchable directory, an
empty one, a match at the top and one at the bottom, so that hand-over, queueing and
both file cases happen. Liveness uses two threads to stay small. For the driver two
files on two channels of two minors show every aliasing between them; buffers of two
bytes have a short, a full and an over-long message. `MaxAllocated` bounds the leak of
repeated failing `krealloc`s. Six frames hold one full path in each of two tables, or
run out earlier; the two page numbers share a bit, so that or-ing and overwriting
differ; `MaxTables` bounds the tables in use.

For pcc, bytes are 0 to 3, of which 1 and 2 are printable, and numbers have two bytes,
so that every number and the three-byte file arrive in pieces; the file takes two
buffers, and the other file is empty. Two clients show what one leaves to the next;
two SIGINTs show the handler and its absence. In the shell, three children are a pipe
beside a background command, or two commands beside one.

*Deadlock* is checked in `pfind_safety`, `pfind_live` and `msgslot_driver`. It is not in
`pfind_faults` (a missing thread, or one that dies with `queue_mutex` locked, does hang
the program; `EndsOrHung` lists all it can hang by), `msgslot_faults` (an oops ends the
run), `pagetable` (the process exits when memory runs out), `pcc_system` and
`shell_jobs` (programs end).

*Fairness.* `FairSpec` assumes weak fairness of main and of every thread: the scheduler
runs each thread that is not blocked. No strong fairness of mutexes is needed, since
every thread has a bounded amount of work between two waits. Wakeups by the environment
are never assumed. In `PccSystem` the server and each client that is not blocked runs,
and a client on a connection that was reset sees the error; nothing is assumed of
SIGINT, of users, of the network or of `accept` failing, and no client has to connect.
In `MyShell` the shell runs outside its prompt (the user may stop typing), a pending
handler runs, and a child reaches its `execvp`; programs need not end, except that a
pipe's reader ends when it has met the end of its input.

*Symmetry* is used in `msgslot_driver`, over minors and channels, and in `msgslot_faults`,
over files too; all properties there are safety properties and treat these alike.

### Findings
1. `pfind_spurious` (pfind.c:417). POSIX lets `pthread_cond_wait` return without a
   signal. The loop re-tests its condition, but the woken thread is still in
   `g_thread_queue`: it can take a directory while main counts it as idle, and main
   ends the search under it.
2. `pfind_barrier` (pfind.c:398). The barrier does not count failed threads; if one
   fails before it, everybody sleeps for ever.
3. `msgslot_enomem` (message_slot.c:164). `-ENOMEM` is compared with `-1`; after a
   failed allocation the message is written into the channel at the head of the list.

4. `shell_wait` (myshell.c:151). SIGCHLD is not blocked between `fork` and the
   assignments that note the child's pid. A child that ends in between is reaped by a
   handler that does not recognise it, and the shell spins for ever; the same for both
   ends of a pipe.

### Conditions of the properties
`CompleteSearch` does not hold with the fault `"root_entry"`: main then ends the process
with status 0 and nothing searched. pfind.pdf says "the exit code should be 0 if and only
if no thread (searching or main) has encountered an error. Otherwise, the exit code should
be 1". `pfind_safety` and `pfind_faults` leave this fault to `pfind_live`, which shows that
the process ends all the same.

`EndsOrHung` is checked with one thread. It lists the reasons to hang that the code has:
a thread that was never created (line 481), one that died with `queue_mutex` (line 145),
one that failed before the barrier that others wait at (line 398), and one that was woken
without a signal and meets main in the opposite lock order (lines 384 and 546). With more
threads spurious wakeups find more ways, which finding 1 is about.

`ImplementsBoard` and `MessageWhole` do not hold when `copy_from_user` or `krealloc`
fails (the old message is lost), and `NoLeak` does not when `krealloc` does, which is
why `msgslot_driver` leaves these two faults to `msgslot_faults`.

`WaitKept` excludes runs with a SIGINT, whose handler releases the shell before the
children have ended, and with a stopped child, which `WUNTRACED` reports like one that
ended. A dropped SIGCHLD (`si_pid` names another child) also makes `ForegroundReturns`
fail, at line 46.

`NoAcceptAfterSigint` and `SigintEnds` exclude runs in which a client failed: lines 252,
264 and 274 continue with `g_server_is_processing` set, and a SIGINT that then finds the
server in `accept` ends it with status 1 and without totals, or lets it accept one more
client. A SIGINT that interrupts a `read` from the current client makes the server
give that client up, although pcc.pdf 2.2 wants it "processed to completion";
`TotalsExact` holds even so. `Served` excludes runs with a SIGINT or a failing `accept`,
because an unaccepted client is then reset or reads 0 bytes for ever, and a server killed
by SIGPIPE.
It would fail for a file that is shorter than `stat` said, and for one of 2^31 bytes
or more, whose length is negative as an `int`: client and server wait for each other.

## 4. Proofs

All theorems hold for every value of the constants that satisfies the named
assumptions of the modules: `PfindAssumption`, `MessageSlotAssumption`,
`MessengerAssumption`, `PageTableAssumption`, `ConnectionAssumption`,
`EncodingAssumption`, `ServerAssumption`, `ClientAssumption`, `ShellAssumption`. They say
that sizes are numbers, that model values such as `NULL` differ from the data, and that
the tree of pfind is a tree. TLC evaluates them in every run. Where a theorem needs more,
the condition is its hypothesis:

| Hypothesis | Theorems | Without it |
|---|---|---|
| no spurious wakeups | `NoEarlyStop`, `NoIdleWhileQueued`, `NoLockCycle`, `FifoHandover` | finding 1 |
| no spurious wakeups, no failing `malloc` of the root's queue entry | `CompleteSearch` | finding 1; main that fails at line 142 ends the process with 0 |
| `FailsInSearch`: no spurious wakeups, no failing `malloc` of a thread entry or of the root's queue entry | `ImplementsSearch` | a thread that fails before it has a directory makes the status 1 although nothing was lost (line 372); main that fails at line 142 ends the process with 0 |
| no failing `krealloc`, `copy_from_user` | `MessageWhole`, `PrintsMessage`, `ReaderServed` | a message is lost half way |
| no failing `krealloc` | `NoLeak` | line 175 forgets the old block |
| no failing channel allocation, `krealloc`, `copy_from_user` | `ImplementsBoard` | finding 3 |
| `WholeFiles`: each file has the length `stat` saw, which fits a `uint32_t` | `TotalsExact`, `AnswerExact` | the bytes after the announced length are not counted |

**Pfind.** `Inv1` (in `PfindProofs`) adds to `TypeOK` who holds `queue_mutex` at which
control point, that a thread's `dir_to_handle` is assigned before it is read, and that
a thread about to take a directory has one (`TakeReady`). The last needs the mutex part,
since only the holder of `queue_mutex` may change the queues. `Inv2` says where a
directory can be: unread in exactly one open directory, in the queue once, handed to
one thread, or visited, and never in two of these places; `SearchedOnce` alone is not
inductive because it says nothing about directories on their way. The same for files
gives `CountExact`. Both hold with every fault.

`Inv3` (in `PfindStopProofs`) assumes that there are no spurious wakeups, and finding 1
shows that the assumption is needed. It says that the idle queue holds exactly the
threads that have no work, are in or about to enter their wait and have not failed, and
that after the barrier a queued directory implies an empty idle queue. Then `count +
g_failed_threads = g_threads_num` leaves no thread that could be working (`CountAll`, by
cardinality), although main reads the two queues one after the other: once the first
read saw an empty queue, only a working thread could fill it. This gives `NoEarlyStop`,
`NoIdleWhileQueued` and `NoLockCycle`.

`CvInv` counts the initialised condition variables with main's loop and says that nobody
sleeps or is idle before the loop is done; it gives `CvInitialised` with every fault.
`FifoHandover` follows from `Inv3`, step by step: the head of the idle queue sleeps and
holds no directory when it is handed one. `CompleteSearch` needs `Inv4`: whatever a
visited directory lists is known (visited, queued or handed over) or reported, or is
still unread by a thread (`Progress`); a directory that was handed over is not dropped
by a thread that goes to sleep, and is the one its thread searches (`HandedTaken`);
status 0 is only ever set by main's return (`ZeroAtExit`), and means that no thread
failed (`ExitStatus`). When the search is over and nobody failed, `Inv3` leaves nothing
unread, queued or handed over (`AllSearched`), so all that is known is visited.

`SearchImplemented` proves the refinement of `FileSearch` with one lemma per kind of
step: `SearchMain` (`Begin` when `MainInit` has succeeded, and `End`, also for a main
that gives up earlier: the queued root is not yet found then), `SearchDiscover`,
`SearchClose`, `SearchLose` and, for taking a directory, `SearchTake`; `Unseen` covers
the steps that leave the abstract variables alone. A thread's directory is open in the
abstract search (`SearchedIsOpen`), because no other thread has it (`Inv2`) and main has
not returned yet (`Inv5`); `EndDir` closes it, because by `Progress` nothing it lists is
left. `Inv5` also says that a thread that fails has a directory, so that status 1 has
something lost to show.

**MessageSlot.** `Inv` is `TypeOK` and `UniqueChannels`. `FindChannel` states what the
list search returns; `WriteChannelEffect` that lines 172 to 197 rewrite one entry and
keep its id; `WriteMessageEffect` covers the three ways to come by that entry, the
wrong one of finding 3 included. `ChannelsKept` follows as an action property.

**Messenger.** `MessengerUsesDriver`: a step of the programs is a step of the driver or
none, so what is proved of the driver holds with its programs. `Kept` says that an
active channel holds a legal message and its length; it needs `Inv`, since a
write rewrites the one entry that `FindChannel` returns. `Balanced` says that as many
blocks are held for a minor as its release frees; `Unloaded` that a module that is not
loaded has no slots. `ProgramsOK` says what the reader knows at its control points: it has
set a channel before it reads, and `buffer` and `ret_val` hold a whole message
once `read` succeeded, whatever other programs write meanwhile; what `write` accepts of it
is a prefix (`BytesPrefix`). For
`ImplementsBoard` each call is shown to change the set of active messages as
`MessageBoard` does for the calling file, or not at all (a failing call, a new slot, a new
channel that no write completed).

**PageTable.** `TrieInv` adds to `NoSharing` and `InvalidIsZero` that only frames handed
out are in use, with the roots at level 1 (`FramesInv`), and that a walk is at an allocated
node of its own level (`WalkInv`). `NoSharing` alone is not inductive: a new node is
disjoint from the others only because no entry leads to a frame that was not handed out,
and it belongs one level down only because the walk knows its level. `ImplementsMap`
needs `CallInv` as well: the walk is on the path of its own page from its own root.
`IsPath` defines that path as a recursive function over the levels; paths exist, an
update changes at most one entry on one path, and paths of different tables or pages end
in different entries. Such facts about every level are proved with a set: the levels at
which the fact holds contain the first, and with a level the next (`RangeInduction`, a
consequence of well-foundedness), so they are all levels. Every step of a walk but its
last leaves the map as it was.

**Pcc.** `TypeInv` adds to `TypeOK` when a client is attached. `SignalInv` relates the two
flags of the handler to the control point; with it, a server in `accept` has seen no
SIGINT. `CountInv` follows the bytes of each client:

- `Places`: a client waits in the backlog, is served, or was answered, once;
- `Buffered`: the client's buffer holds the part of its file before `file_read`;
- `Streams`: the bytes on their way continue, on the wire (length, then data), where the
  server has stopped reading, and end where the client has stopped writing;
- `Requests`: `size_bytes` is the beginning of the announced length, and the counters
  count the bytes of the file up to `total_bytes_read`;
- `Answers`: `unsent`, the stream to the client and `pcc_from_server` are the parts of the
  one answer;
- `Totals`: `pcc_total` counts the answered clients but the one that `update_pcc_total` is
  about to add.

Each part needs the ones before it, and cutting a stream anywhere keeps them. That
`ntohl` undoes `htonl` for every width is proved with the same set-form induction over
the bytes (`UpTo`).

**MyShell.** `ZombieSignalled` is inductive with `TypeOK`. `BackgroundIgnores` says that
a background child has either the inherited handler or `SIG_IGN`, which gives
`SigintSpares`. `WaitKept` needs `Waiting`: as long as there was no SIGINT and no
stopped child, each foreground child that has not ended is one that the shell, at its
control point, still waits for (`Awaited`), and a foreground command that the shell has
left will send no SIGCHLD that could release the next one (`ForegroundDone`); and
`Unborn`: pids not yet handed out name no process. `ShellInv` is the conjunction of them
all.

**Only model-checked.** Liveness and fairness are out of TLAPS's reach: `Termination`,
`QueuedIsSearched` and `EndsOrHung` of pfind, `SigintEnds` and `Served` of pcc,
`PipeDrains` of the shell. Every other property of a passing run is stated by a theorem.

## 5. Not modelled

`back.c`, `my_tester.c` and `tester (1).py`: they start the programs above and keep no
state of their own; what `my_tester.c` does to the driver is what any other program of
`Messenger` may do. Output is left out except where a property is about it (the files
pfind reports, the number and the totals of pcc, the reader's message).

## 6. Plan

1. Done: every program, its abstract specification where one is worth stating; every
   safety property of a passing run, action properties and refinements included, proved.
2. To come: theorems with weaker hypotheses where the code allows it, first
   `ImplementsBoard` with failing calls, for which `MessageBoard` would have to describe a
   message that a failed write loses.
