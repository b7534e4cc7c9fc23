------------------------------ MODULE MyShell ------------------------------
(***************************************************************************)
(* hw2_os/myshell.c under the loop of hw2_os/shell.c: the shell, its child *)
(* processes and the signals between them.                                 *)
(*                                                                         *)
(* The kernel's part (external): a child that ends or stops sends SIGCHLD; *)
(* while one is pending others are dropped, and si_pid names the first;    *)
(* SIGCHLD is blocked while its handler runs.  A handler that a process    *)
(* inherits is in force until execvp resets it; SIG_IGN and SIG_DFL stay.  *)
(* Process ids are not reused.                                             *)
(***************************************************************************)
EXTENDS Integers

CONSTANTS
    MaxPid,             \* bound: children forked
    MaxSigint,          \* bound: SIGINTs sent
    MaxStops            \* bound: children stopped

SHELL == 0
Pids == 1 .. MaxPid

ASSUME ShellAssumption == MaxPid \in Nat /\ MaxSigint \in Nat /\ MaxStops \in Nat

VARIABLES
    is_foreground, current_fg_id, current_pipe_writer, current_pipe_reader,
    spc,            \* control point of the shell
    npid,           \* children forked so far; the last one is the current pid
    state,          \* of each child
    command,        \* what each child was forked for
    disposition,    \* what each child does on SIGINT
    write_end,      \* <<p, q>>: process q has the write end of the pipe of writer p
    si_pid,         \* the child whose SIGCHLD is pending, or 0
    in_handler,     \* sigchld_handler is running
    unreported,     \* stopped children that waitpid has not reported
    sigints, stops  \* history: how often that happened

flags == <<is_foreground, current_fg_id, current_pipe_writer, current_pipe_reader>>
children == <<npid, state, command, disposition, write_end>>
signals == <<si_pid, in_handler, unreported>>
env == <<sigints, stops>>
vars == <<flags, spc, children, signals, env>>

Init ==
    /\ is_foreground = FALSE /\ current_fg_id = 0
    /\ current_pipe_writer = 0 /\ current_pipe_reader = 0
    /\ spc = "start"
    /\ npid = 0
    /\ state = [p \in Pids |-> "none"]
    /\ command = [p \in Pids |-> "none"]
    /\ disposition = [p \in Pids |-> "none"]
    /\ write_end = {}
    /\ si_pid = 0 /\ in_handler = FALSE /\ unreported = {}
    /\ sigints = 0 /\ stops = 0

Ended(p) == state[p] \in {"zombie", "reaped"}
Alive == spc # "exit"

\* A SIGCHLD that is pending is delivered before the shell goes on.
UserCode == si_pid = 0 /\ ~in_handler

-----------------------------------------------------------------------------
(***************************************************************************)
(* The shell process, between its signal handlers.                         *)
(***************************************************************************)
\* exit() or the end of main; the fds of the shell are closed.
ShellExit ==
    /\ spc' = "exit"
    /\ write_end' = {e \in write_end : e[2] # SHELL}
    /\ UNCHANGED <<npid, state, command, disposition>>

\* The sigactions may fail.
prepare ==
    /\ spc = "start"
    /\ (spc' = "prompt" /\ UNCHANGED children) \/ ShellExit
    /\ UNCHANGED <<flags, signals, env>>

\* The types of command, told apart by the first |, > or & of the line.
find_command_type == {"foreground", "redirect", "background", "pipe"}

process_arglist == spc' \in find_command_type /\ UNCHANGED children

\* The loop of shell.c: a line is read and process_arglist called for it; at the
\* end of the input, or when malloc fails, the shell ends.
ReadLine ==
    /\ spc = "prompt" /\ UserCode
    /\ process_arglist \/ ShellExit
    /\ UNCHANGED <<flags, signals, env>>

\* fork for command c; the child inherits the handlers and the open pipe.
Fork(c, next) ==
    \/ /\ npid < MaxPid
       /\ npid' = npid + 1
       /\ state' = [state EXCEPT ![npid + 1] = "forked"]
       /\ command' = [command EXCEPT ![npid + 1] = c]
       /\ disposition' = [disposition EXCEPT ![npid + 1] = "handler"]
       /\ write_end' = write_end \cup {<<e[1], npid + 1>> : e \in {w \in write_end : w[2] = SHELL}}
       /\ spc' = next
    \/ ShellExit

ForkForeground == spc = "foreground" /\ Fork(spc, "set_flag")
ForkRedirect == spc = "redirect" /\ Fork(spc, "set_flag")
handle_background == spc = "background" /\ Fork(spc, "prompt")
ForkWriter == spc = "fork_writer" /\ Fork("writer", "set_writer")
ForkReader == spc = "fork_reader" /\ Fork("reader", "set_reader")

ForkCommand ==
    /\ UserCode
    /\ ForkForeground \/ ForkRedirect \/ handle_background \/ ForkWriter \/ ForkReader
    /\ UNCHANGED <<flags, signals, env>>

\* Lines 151 and 280, in the shell after the fork.
SetForeground ==
    /\ spc = "set_flag" /\ UserCode
    /\ is_foreground' = TRUE
    /\ spc' = "set_id"
    /\ UNCHANGED <<current_fg_id, current_pipe_writer, current_pipe_reader, children, signals, env>>

\* Lines 152 and 281.
SetForegroundId ==
    /\ spc = "set_id" /\ UserCode
    /\ current_fg_id' = npid
    /\ spc' = "wait"
    /\ UNCHANGED <<is_foreground, current_pipe_writer, current_pipe_reader, children, signals, env>>

\* while (is_foreground) {}, lines 153 and 282.
WaitForeground ==
    /\ spc = "wait" /\ UserCode
    /\ ~is_foreground
    /\ spc' = "prompt"
    /\ UNCHANGED <<flags, children, signals, env>>

\* pipe(); the pipe is named after the writer that will be forked.
OpenPipe ==
    /\ spc = "pipe" /\ UserCode
    /\ \/ /\ npid + 1 < MaxPid
          /\ write_end' = write_end \cup {<<npid + 1, SHELL>>}
          /\ spc' = "fork_writer"
          /\ UNCHANGED <<npid, state, command, disposition>>
       \/ ShellExit
    /\ UNCHANGED <<flags, signals, env>>

SetWriter ==
    /\ spc = "set_writer" /\ UserCode
    /\ current_pipe_writer' = npid
    /\ spc' = "fork_reader"
    /\ UNCHANGED <<is_foreground, current_fg_id, current_pipe_reader, children, signals, env>>

\* Mutation: the result of fork is stored although fork failed.
SetReader_Unchecked ==
    /\ spc = "set_reader" /\ UserCode
    /\ current_pipe_reader' \in {npid, -1}
    /\ spc' = "close"
    /\ UNCHANGED <<is_foreground, current_fg_id, current_pipe_writer, children, signals, env>>

SetReader ==
    /\ spc = "set_reader" /\ UserCode
    /\ current_pipe_reader' = npid
    /\ spc' = "close"
    /\ UNCHANGED <<is_foreground, current_fg_id, current_pipe_writer, children, signals, env>>

\* Mutation: the shell keeps its end of the pipe.
ClosePipe_Kept ==
    /\ spc = "close" /\ UserCode
    /\ spc' = "wait_pipe"
    /\ UNCHANGED <<flags, children, signals, env>>

ClosePipe ==
    /\ spc = "close" /\ UserCode
    /\ write_end' = {e \in write_end : e[2] # SHELL}
    /\ spc' = "wait_pipe"
    /\ UNCHANGED <<flags, npid, state, command, disposition, signals, env>>

\* while (current_pipe_reader || current_pipe_writer) {}
WaitPipe ==
    /\ spc = "wait_pipe" /\ UserCode
    /\ current_pipe_reader = 0 /\ current_pipe_writer = 0
    /\ spc' = "prompt"
    /\ UNCHANGED <<flags, children, signals, env>>

-----------------------------------------------------------------------------
(***************************************************************************)
(* The signal handlers of the shell.                                       *)
(***************************************************************************)
\* Mutation: any child releases the shell.
EnterHandler_AnyChild ==
    /\ Alive /\ spc # "start" /\ si_pid # 0 /\ ~in_handler
    /\ is_foreground' = FALSE
    /\ in_handler' = TRUE /\ si_pid' = 0
    /\ UNCHANGED <<current_fg_id, current_pipe_writer, current_pipe_reader, unreported,
                   spc, children, env>>

\* sigchld_handler up to its loop.
EnterHandler ==
    /\ Alive /\ spc # "start" /\ si_pid # 0 /\ ~in_handler
    /\ is_foreground' = (is_foreground /\ si_pid # current_fg_id)
    /\ in_handler' = TRUE /\ si_pid' = 0
    /\ UNCHANGED <<current_fg_id, current_pipe_writer, current_pipe_reader, unreported,
                   spc, children, env>>

\* Children that waitpid(-1, WNOHANG | WUNTRACED) would report.
Waitable == {p \in Pids : state[p] = "zombie"} \cup unreported

\* Mutation: one child is reaped per signal.
Waitpid_Once(p) ==
    /\ Alive /\ in_handler
    /\ state' = [state EXCEPT ![p] = IF @ = "zombie" THEN "reaped" ELSE @]
    /\ unreported' = unreported \ {p}
    /\ current_pipe_writer' = IF p = current_pipe_writer THEN 0 ELSE current_pipe_writer
    /\ current_pipe_reader' = IF p = current_pipe_reader THEN 0 ELSE current_pipe_reader
    /\ in_handler' = FALSE
    /\ UNCHANGED <<is_foreground, current_fg_id, spc, npid, command, disposition, write_end,
                   si_pid, env>>

\* One iteration of the loop of sigchld_handler, with p reported.
Waitpid(p) ==
    /\ Alive /\ in_handler
    /\ state' = [state EXCEPT ![p] = IF @ = "zombie" THEN "reaped" ELSE @]
    /\ unreported' = unreported \ {p}
    /\ current_pipe_writer' = IF p = current_pipe_writer THEN 0 ELSE current_pipe_writer
    /\ current_pipe_reader' = IF p = current_pipe_reader THEN 0 ELSE current_pipe_reader
    /\ UNCHANGED <<is_foreground, current_fg_id, spc, npid, command, disposition, write_end,
                   si_pid, in_handler, env>>

LeaveHandler ==
    /\ Alive /\ in_handler /\ Waitable = {}
    /\ in_handler' = FALSE
    /\ UNCHANGED <<flags, spc, children, si_pid, unreported, env>>

sigint_handler ==
    /\ is_foreground' = FALSE
    /\ current_pipe_writer' = 0 /\ current_pipe_reader' = 0
    /\ UNCHANGED current_fg_id

-----------------------------------------------------------------------------
(***************************************************************************)
(* The children.                                                           *)
(***************************************************************************)
\* The children P change state; SIGCHLD is sent for each of them, in any order,
\* and names the first one.
Notify(P) ==
    si_pid' \in IF Alive /\ si_pid = 0 /\ P # {} THEN P ELSE {si_pid}

\* The children P end; their file descriptors are closed.
End(P) ==
    /\ state' = [p \in Pids |-> IF p \in P THEN "zombie" ELSE state[p]]
    /\ write_end' = {e \in write_end : e[2] \notin P}
    /\ Notify(P)
    /\ UNCHANGED <<npid, command, disposition, in_handler>>

\* Mutation: a background child keeps the handler it inherits.
ChildSignal_NoIgnore(p) ==
    /\ state[p] = "forked" /\ disposition[p] = "handler"
    /\ command[p] \in {"foreground", "background"}
    /\ disposition' = [disposition EXCEPT ![p] = "default"]
    /\ UNCHANGED <<flags, spc, npid, state, command, write_end, signals, env>>

\* signal(SIGINT, ...) in a foreground and in a background child.
ChildSignal(p) ==
    /\ state[p] = "forked" /\ disposition[p] = "handler"
    /\ command[p] \in {"foreground", "background"}
    /\ disposition' = [disposition EXCEPT ![p] =
                          IF command[p] = "foreground" THEN "default" ELSE "ignore"]
    /\ UNCHANGED <<flags, spc, npid, state, command, write_end, signals, env>>

ReadyToExec(p) ==
    /\ state[p] = "forked"
    /\ command[p] \in {"foreground", "background"} => disposition[p] # "handler"

\* What is left until execvp has succeeded: dup2 and closing the pipe's other end,
\* opening the output file.
Exec(p) ==
    /\ ReadyToExec(p)
    /\ state' = [state EXCEPT ![p] = "running"]
    /\ disposition' = [disposition EXCEPT ![p] = IF @ = "handler" THEN "default" ELSE @]
    /\ write_end' = IF command[p] = "reader" THEN {e \in write_end : e[2] # p} ELSE write_end
    /\ UNCHANGED <<flags, spc, npid, command, signals, env>>

\* One of these calls fails: the child exits.  Or the program it runs ends.
ChildEnd(p) ==
    /\ ReadyToExec(p) \/ state[p] = "running"
    /\ End({p})
    /\ UNCHANGED <<flags, spc, unreported, env>>

\* A reader that reads until the end of its input meets it.
ReaderEof(p) ==
    /\ command[p] = "reader" /\ state[p] = "running"
    /\ \A e \in write_end : e[1] # p - 1
    /\ ChildEnd(p)

\* Somebody stops a child with SIGSTOP; nobody continues it.
Stop(p) ==
    /\ state[p] = "running" /\ stops < MaxStops
    /\ stops' = stops + 1
    /\ state' = [state EXCEPT ![p] = "stopped"]
    /\ unreported' = unreported \cup {p}
    /\ Notify({p})
    /\ UNCHANGED <<flags, spc, npid, command, disposition, write_end, in_handler, sigints>>

\* Children that SIGINT ends.
Interruptible == {p \in Pids : state[p] \in {"forked", "running"} /\ disposition[p] = "default"}

\* SIGINT, from the terminal to the shell and its children, or from kill to the
\* shell alone.  The shell dies of it before prepare.
Sigint ==
    /\ Alive /\ sigints < MaxSigint
    /\ sigints' = sigints + 1
    /\ IF spc = "start" THEN ShellExit /\ UNCHANGED <<flags, signals>>
       ELSE /\ sigint_handler
            /\ End(Interruptible) \/ UNCHANGED <<children, si_pid, in_handler>>
            /\ UNCHANGED <<spc, unreported>>
    /\ UNCHANGED stops

-----------------------------------------------------------------------------
Shell ==
    \/ prepare \/ ReadLine \/ ForkCommand
    \/ SetForeground \/ SetForegroundId \/ WaitForeground
    \/ OpenPipe \/ SetWriter \/ SetReader \/ ClosePipe \/ WaitPipe

Handler == EnterHandler \/ LeaveHandler \/ \E p \in Waitable : Waitpid(p)

Child(p) == ChildSignal(p) \/ Exec(p)

Next ==
    \/ Shell \/ Handler \/ Sigint
    \/ \E p \in Pids : Child(p) \/ ChildEnd(p) \/ Stop(p)

Spec == Init /\ [][Next]_vars

\* The shell, its handler and its children run.  A program need not end, but a
\* pipe's reader ends when it has met the end of its input.  ReadLine is left out:
\* the user may stop typing.
FairSpec ==
    /\ Spec
    /\ WF_vars(Shell /\ spc # "prompt") /\ WF_vars(Handler)
    /\ \A p \in Pids : WF_vars(Child(p)) /\ WF_vars(ReaderEof(p))

-----------------------------------------------------------------------------
\* The types of the state of the shell and of its children.
TypeOK ==
    /\ is_foreground \in BOOLEAN
    /\ {current_fg_id, current_pipe_writer, current_pipe_reader, si_pid, npid} \subseteq 0 .. MaxPid
    /\ spc \in find_command_type \cup
               {"start", "prompt", "set_flag", "set_id", "wait", "fork_writer", "set_writer",
                "fork_reader", "set_reader", "close", "wait_pipe", "exit"}
    /\ state \in [Pids -> {"none", "forked", "running", "stopped", "zombie", "reaped"}]
    /\ command \in [Pids -> {"none", "foreground", "redirect", "background", "writer", "reader"}]
    /\ disposition \in [Pids -> {"none", "handler", "default", "ignore"}]
    /\ write_end \subseteq Pids \X (Pids \cup {SHELL})
    /\ in_handler \in BOOLEAN
    /\ unreported \subseteq Pids
    /\ sigints \in Nat /\ stops \in Nat

\* "You should prevent zombies" (shell.pdf 2.2, item 7): although SIGCHLDs are
\* dropped, a child that ended and was not reaped always has a SIGCHLD, its own or
\* another one's, or a running handler, that will reap it.
ZombieSignalled ==
    Alive /\ Waitable # {} => si_pid # 0 \/ in_handler

ForegroundEnded == \A p \in Pids : command[p] \notin {"none", "background"} => Ended(p)

\* The shell reads the next line only when every foreground child of the earlier
\* ones has ended (shell.pdf 2.2, Output), whatever background children do.  After
\* a SIGINT or a stopped child it may not: both release it early.
WaitKept ==
    spc = "prompt" /\ sigints = 0 /\ stops = 0 => ForegroundEnded

\* "Background child processes should not terminate upon SIGINT" (shell.pdf 2.2),
\* from fork on, and neither does the shell after prepare.
SigintSpares ==
    [][sigints' # sigints =>
         /\ spc # "start" => spc' # "exit"
         /\ \A p \in Pids : command[p] = "background" => state'[p] = state[p]]_vars

\* A pipe's reader meets the end of its input once the writer has ended: nobody
\* else keeps the write end open.
PipeDrains ==
    \A p \in Pids :
        p > 1 /\ command[p] = "reader" /\ Ended(p - 1) ~> Ended(p) \/ state[p] = "stopped"

\* "The shell executes the command and waits until it completes before accepting
\* another command" (shell.pdf 1.2, item 1): it does accept one then, after a
\* command as after a pipe.
ForegroundReturns ==
    spc \in {"wait", "wait_pipe"} /\ ForegroundEnded ~> spc \notin {"wait", "wait_pipe"}
=============================================================================
