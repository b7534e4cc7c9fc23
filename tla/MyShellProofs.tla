--------------------------- MODULE MyShellProofs ---------------------------
(***************************************************************************)
(* Proofs about MyShell, for any number of children, SIGINTs and stops:    *)
(* its type invariant, that no zombie is forgotten, that SIGINT spares the *)
(* background children, and that the shell waits for its foreground        *)
(* children.                                                               *)
(***************************************************************************)
EXTENDS MyShell, TLAPS

-----------------------------------------------------------------------------
(***************************************************************************)
(* The inductive invariant.                                                *)
(***************************************************************************)
\* The children that are the shell's business and have not ended.
Pending == {p \in Pids : command[p] \notin {"none", "background"} /\ ~Ended(p)}

\* The children that the shell, at its control point, will still wait for.
Awaited ==
    CASE spc \in {"set_flag", "set_id", "set_writer"} -> {npid}
      [] spc = "wait" -> IF is_foreground THEN {npid} ELSE {}
      [] spc = "fork_reader" -> {current_pipe_writer}
      [] spc = "set_reader" -> {current_pipe_writer, npid}
      [] spc \in {"close", "wait_pipe"} -> {current_pipe_writer, current_pipe_reader}
      [] OTHER -> {}

\* Between two foreground commands, the last one has ended and its SIGCHLD will not
\* come any more: it cannot release the next one.
ForegroundDone ==
    current_fg_id # 0 /\ (spc # "wait" \/ ~is_foreground)
        => Ended(current_fg_id) /\ si_pid # current_fg_id

\* What holds as long as there was no SIGINT and no child was stopped.
Waiting ==
    /\ spc # "exit" => Pending \subseteq Awaited
    /\ spc = "set_id" => is_foreground
    /\ spc = "wait" => current_fg_id = npid
    /\ si_pid # 0 => Ended(si_pid)
    /\ unreported = {}
    /\ ForegroundDone

WaitingInv == sigints = 0 /\ stops = 0 => Waiting

\* A background child leaves the inherited handler only for SIG_IGN.
BackgroundIgnores ==
    \A p \in Pids : command[p] = "background" => disposition[p] \in {"handler", "ignore"}

\* Children that were not forked yet are nobody's.
Unborn == \A p \in Pids : p > npid => state[p] = "none" /\ command[p] = "none"

ShellInv == TypeOK /\ ZombieSignalled /\ BackgroundIgnores /\ Unborn /\ WaitingInv

-----------------------------------------------------------------------------
(***************************************************************************)
(* The steps that several actions share.                                   *)
(***************************************************************************)
\* exit() leaves the children as they are.
LEMMA ShellExitType ==
    ASSUME TypeOK, ShellExit, UNCHANGED <<flags, signals, env>>
    PROVE  TypeOK'
BY DEF TypeOK, ShellExit, flags, signals, env

\* A fork adds one child, inside the bound, that has the shell's write ends.
LEMMA ForkType ==
    ASSUME TypeOK, NEW c \in {"foreground", "redirect", "background", "writer", "reader"},
           NEW next \in {"set_flag", "prompt", "set_writer", "set_reader"},
           Fork(c, next), UNCHANGED <<flags, signals, env>>
    PROVE  TypeOK'
<1>1. CASE ShellExit
  BY <1>1, ShellExitType
<1>2. CASE /\ npid < MaxPid
           /\ npid' = npid + 1
           /\ state' = [state EXCEPT ![npid + 1] = "forked"]
           /\ command' = [command EXCEPT ![npid + 1] = c]
           /\ disposition' = [disposition EXCEPT ![npid + 1] = "handler"]
           /\ write_end' = write_end \cup
                              {<<e[1], npid + 1>> : e \in {w \in write_end : w[2] = SHELL}}
           /\ spc' = next
  <2>1. npid + 1 \in Pids
    BY <1>2, ShellAssumption DEF TypeOK, Pids
  <2>2. write_end' \subseteq Pids \X (Pids \cup {SHELL})
    BY <1>2, <2>1 DEF TypeOK
  <2>3. {current_fg_id', current_pipe_writer', current_pipe_reader', si_pid', npid'}
          \subseteq 0 .. MaxPid
    BY <1>2, <2>1 DEF TypeOK, flags, signals, Pids
  <2> QED
    BY <1>2, <2>1, <2>2, <2>3 DEF TypeOK, flags, signals, env
<1> QED
  BY <1>1, <1>2 DEF Fork

\* Children that end become zombies, and SIGCHLD names one of them.
LEMMA EndType ==
    ASSUME TypeOK, NEW P \in SUBSET Pids, End(P), UNCHANGED <<spc, unreported, stops>>,
           is_foreground' \in BOOLEAN, sigints' \in Nat,
           {current_fg_id', current_pipe_writer', current_pipe_reader'} \subseteq 0 .. MaxPid
    PROVE  TypeOK'
<1>1. si_pid' \in 0 .. MaxPid
  BY ShellAssumption DEF TypeOK, End, Notify, Pids
<1>2. npid' \in 0 .. MaxPid
  BY DEF TypeOK, End
<1>3. state' \in [Pids -> {"none", "forked", "running", "stopped", "zombie", "reaped"}]
  BY DEF TypeOK, End
<1> QED
  BY <1>1, <1>2, <1>3 DEF TypeOK, End

\* The types of the shell's state are preserved by every step.
LEMMA TypeStep == TypeOK /\ [Next]_vars => TypeOK'
<1> SUFFICES ASSUME TypeOK, [Next]_vars PROVE TypeOK'
  OBVIOUS
<1> USE ShellAssumption
<1>1. CASE prepare
  BY <1>1, ShellExitType DEF prepare, TypeOK, children, flags, signals, env
<1>2. CASE ReadLine
  BY <1>2, ShellExitType
     DEF ReadLine, process_arglist, find_command_type, TypeOK, children, flags, signals, env
<1>3. CASE ForkCommand
  BY <1>3, ForkType DEF ForkCommand, ForkForeground, ForkRedirect, handle_background,
                        ForkWriter, ForkReader
<1>4. CASE SetForeground
  BY <1>4 DEF SetForeground, TypeOK, children, signals, env
<1>5. CASE SetForegroundId
  BY <1>5 DEF SetForegroundId, TypeOK, children, signals, env
<1>6. CASE WaitForeground
  BY <1>6 DEF WaitForeground, TypeOK, flags, children, signals, env
<1>7. CASE OpenPipe
  <2>1. CASE ShellExit
    BY <1>7, <2>1, ShellExitType DEF OpenPipe
  <2>2. CASE ~ShellExit
    <3>1. npid + 1 \in Pids
      BY <1>7, <2>2 DEF OpenPipe, TypeOK, Pids
    <3> QED
      BY <1>7, <2>2, <3>1 DEF OpenPipe, TypeOK, flags, signals, env, SHELL
  <2> QED
    BY <2>1, <2>2
<1>8. CASE SetWriter
  BY <1>8 DEF SetWriter, TypeOK, children, signals, env
<1>9. CASE SetReader
  BY <1>9 DEF SetReader, TypeOK, children, signals, env
<1>10. CASE ClosePipe
  BY <1>10 DEF ClosePipe, TypeOK, flags, signals, env
<1>11. CASE WaitPipe
  BY <1>11 DEF WaitPipe, TypeOK, flags, children, signals, env
<1>12. CASE EnterHandler
  BY <1>12 DEF EnterHandler, TypeOK, children, env
<1>13. CASE LeaveHandler
  BY <1>13 DEF LeaveHandler, TypeOK, flags, children, env
<1>14. ASSUME NEW p \in Waitable, Waitpid(p) PROVE TypeOK'
  BY <1>14 DEF Waitpid, Waitable, TypeOK, env
<1>15. CASE Sigint
  <2>1. CASE spc = "start"
    <3>1. sigints' \in Nat
      BY <1>15, <2>1 DEF Sigint, TypeOK
    <3> QED
      BY <1>15, <2>1, <3>1 DEF Sigint, ShellExit, TypeOK, flags, signals
  <2>2. CASE spc # "start"
    <3>a. current_fg_id \in 0 .. MaxPid /\ 0 \in 0 .. MaxPid
      BY DEF TypeOK
    <3>b. sigint_handler
      BY <1>15, <2>2 DEF Sigint
    <3>c. sigints' \in Nat
      BY <1>15 DEF Sigint, TypeOK
    <3>1. /\ sigints' \in Nat
          /\ {current_fg_id', current_pipe_writer', current_pipe_reader'} \subseteq 0 .. MaxPid
          /\ is_foreground' \in BOOLEAN
      BY <3>a, <3>b, <3>c DEF sigint_handler
    <3>2. CASE End(Interruptible)
      BY <1>15, <2>2, <3>1, <3>2, EndType DEF Sigint, Interruptible
    <3>3. CASE UNCHANGED <<children, si_pid, in_handler>>
      BY <1>15, <2>2, <3>1, <3>3 DEF Sigint, TypeOK, children
    <3> QED
      BY <1>15, <2>2, <3>2, <3>3 DEF Sigint
  <2> QED
    BY <2>1, <2>2
<1>16. ASSUME NEW p \in Pids, ChildSignal(p) PROVE TypeOK'
  BY <1>16 DEF ChildSignal, TypeOK, flags, signals, env
<1>17. ASSUME NEW p \in Pids, Exec(p) PROVE TypeOK'
  BY <1>17 DEF Exec, TypeOK, flags, signals, env
<1>18. ASSUME NEW p \in Pids, ChildEnd(p) PROVE TypeOK'
  BY <1>18, EndType DEF ChildEnd, TypeOK, flags, env
<1>19. ASSUME NEW p \in Pids, Stop(p) PROVE TypeOK'
  <2>1. si_pid' \in 0 .. MaxPid
    BY <1>19 DEF Stop, Notify, TypeOK, Pids
  <2> QED
    BY <1>19, <2>1 DEF Stop, TypeOK, flags
<1>20. CASE UNCHANGED vars
  BY <1>20 DEF TypeOK, vars, flags, children, signals, env
<1> QED
  BY <1>1, <1>2, <1>3, <1>4, <1>5, <1>6, <1>7, <1>8, <1>9, <1>10, <1>11, <1>12, <1>13, <1>14,
     <1>15, <1>16, <1>17, <1>18, <1>19, <1>20 DEF Next, Shell, Handler, Child

\* The variables of the shell, its handlers and its children keep their types.
THEOREM TypeCorrect == Spec => []TypeOK
<1>1. Init => TypeOK
  <2> SUFFICES ASSUME Init PROVE TypeOK
    OBVIOUS
  <2>1. {current_fg_id, current_pipe_writer, current_pipe_reader, si_pid, npid}
          \subseteq 0 .. MaxPid
    BY ShellAssumption DEF Init
  <2>2. is_foreground \in BOOLEAN /\ in_handler \in BOOLEAN
    BY DEF Init
  <2> QED
    BY <2>1, <2>2 DEF Init, TypeOK
<1> QED
  BY <1>1, TypeStep, PTL DEF Spec

-----------------------------------------------------------------------------
(***************************************************************************)
(* No zombie is forgotten.                                                 *)
(***************************************************************************)
\* A step that leaves the children that waitpid would report, and their signals, alone.
LEMMA ZombieUnchanged ==
    ASSUME ZombieSignalled, UNCHANGED <<state, signals>>, spc = "exit" => spc' = "exit"
    PROVE  ZombieSignalled'
BY DEF ZombieSignalled, Waitable, Alive, signals

\* Children that change state leave a SIGCHLD behind.
LEMMA ZombieNotified ==
    ASSUME ZombieSignalled, NEW P \in SUBSET Pids, Notify(P), UNCHANGED <<in_handler, spc>>,
           P = {} => Waitable' = Waitable
    PROVE  ZombieSignalled'
<1> SUFFICES ASSUME Alive, si_pid' = 0, Waitable' # {} PROVE in_handler
  BY DEF ZombieSignalled, Alive
<1>1. si_pid = 0 /\ P = {}
  BY DEF Notify, Pids
<1> QED
  BY <1>1 DEF ZombieSignalled

\* SIGCHLDs are dropped while one is pending, but every one that is delivered leads
\* to a loop over all the children that waitpid reports, and one that comes while
\* this loop runs stays pending.
LEMMA ZombieStep == TypeOK /\ ZombieSignalled /\ [Next]_vars => ZombieSignalled'
<1> SUFFICES ASSUME TypeOK, ZombieSignalled, [Next]_vars PROVE ZombieSignalled'
  OBVIOUS
<1>1. CASE prepare
  BY <1>1, ZombieUnchanged DEF prepare, ShellExit, children
<1>2. CASE ReadLine
  BY <1>2, ZombieUnchanged DEF ReadLine, process_arglist, ShellExit, children
<1>3. CASE ForkCommand
  <2>1. UserCode /\ UNCHANGED signals
    BY <1>3 DEF ForkCommand
  <2>2. \A p \in Pids : state'[p] = "zombie" => state[p] = "zombie"
    BY <1>3 DEF ForkCommand, ForkForeground, ForkRedirect, handle_background, ForkWriter,
                ForkReader, Fork, ShellExit, TypeOK
  <2>3. spc # "exit"
    BY <1>3 DEF ForkCommand, ForkForeground, ForkRedirect, handle_background, ForkWriter,
                ForkReader
  <2> QED
    BY <2>1, <2>2, <2>3 DEF ZombieSignalled, Waitable, Alive, UserCode, signals
<1>4. CASE SetForeground \/ SetForegroundId \/ WaitForeground
  BY <1>4, ZombieUnchanged DEF SetForeground, SetForegroundId, WaitForeground, children
<1>5. CASE OpenPipe \/ ClosePipe \/ WaitPipe
  BY <1>5, ZombieUnchanged DEF OpenPipe, ShellExit, ClosePipe, WaitPipe, children
<1>6. CASE SetWriter \/ SetReader
  BY <1>6, ZombieUnchanged DEF SetWriter, SetReader, children
<1>7. CASE EnterHandler
  BY <1>7 DEF EnterHandler, ZombieSignalled
<1>8. CASE LeaveHandler
  BY <1>8 DEF LeaveHandler, ZombieSignalled, Waitable, children
<1>9. ASSUME NEW p \in Waitable, Waitpid(p) PROVE ZombieSignalled'
  BY <1>9 DEF Waitpid, ZombieSignalled
<1>10. CASE Sigint
  <2>1. CASE spc = "start" \/ UNCHANGED <<children, si_pid, in_handler>>
    BY <1>10, <2>1, ZombieUnchanged DEF Sigint, ShellExit, Alive, children, signals
  <2>2. CASE spc # "start" /\ End(Interruptible)
    <3>1. Interruptible = {} => Waitable' = Waitable
      BY <1>10, <2>2 DEF Sigint, End, Waitable, TypeOK
    <3>2. Notify(Interruptible) /\ UNCHANGED <<in_handler, spc>> /\ Interruptible \subseteq Pids
      BY <1>10, <2>2 DEF Sigint, End, Interruptible
    <3> QED
      BY <3>1, <3>2, ZombieNotified
  <2> QED
    BY <1>10, <2>1, <2>2 DEF Sigint
<1>11. ASSUME NEW p \in Pids, ChildSignal(p) PROVE ZombieSignalled'
  BY <1>11, ZombieUnchanged DEF ChildSignal
<1>12. ASSUME NEW p \in Pids, Exec(p) PROVE ZombieSignalled'
  BY <1>12 DEF Exec, ReadyToExec, ZombieSignalled, Waitable, Alive, signals, TypeOK
<1>13. ASSUME NEW p \in Pids, ChildEnd(p) PROVE ZombieSignalled'
  BY <1>13, ZombieNotified DEF ChildEnd, End
<1>14. ASSUME NEW p \in Pids, Stop(p) PROVE ZombieSignalled'
  BY <1>14, ZombieNotified DEF Stop
<1>15. CASE UNCHANGED vars
  BY <1>15, ZombieUnchanged DEF vars, children
<1> QED
  BY <1>1, <1>2, <1>3, <1>4, <1>5, <1>6, <1>7, <1>8, <1>9, <1>10, <1>11, <1>12, <1>13, <1>14,
     <1>15 DEF Next, Shell, Handler, Child

\* sigchld_handler's loop prevents zombies although SIGCHLDs are dropped: a child
\* that ended, or stopped, and was not reported always has a signal or a running
\* handler ahead of it.
THEOREM NoZombieForgotten == Spec => []ZombieSignalled
<1>1. Init => ZombieSignalled
  BY DEF Init, ZombieSignalled, Waitable
<1> QED
  BY <1>1, TypeCorrect, ZombieStep, PTL DEF Spec

-----------------------------------------------------------------------------
(***************************************************************************)
(* SIGINT spares the background children.                                  *)
(***************************************************************************)
\* Between its fork and its exec a background child has the shell's handler or
\* ignores SIGINT, and execvp keeps SIG_IGN.
LEMMA BackgroundStep ==
    TypeOK /\ BackgroundIgnores /\ [Next]_vars => BackgroundIgnores'
<1> SUFFICES ASSUME TypeOK, BackgroundIgnores, [Next]_vars PROVE BackgroundIgnores'
  OBVIOUS
<1>1. CASE UNCHANGED <<command, disposition>>
  BY <1>1 DEF BackgroundIgnores
<1>2. CASE ForkCommand
  BY <1>2 DEF ForkCommand, ForkForeground, ForkRedirect, handle_background, ForkWriter,
              ForkReader, Fork, ShellExit, TypeOK, BackgroundIgnores
<1>3. ASSUME NEW p \in Pids, ChildSignal(p) PROVE BackgroundIgnores'
  BY <1>3 DEF ChildSignal, TypeOK, BackgroundIgnores
<1>4. ASSUME NEW p \in Pids, Exec(p) PROVE BackgroundIgnores'
  BY <1>4 DEF Exec, ReadyToExec, TypeOK, BackgroundIgnores
<1>5. CASE Sigint
  BY <1>1, <1>5 DEF Sigint, ShellExit, End, children
<1>6. ASSUME NEW p \in Pids, ChildEnd(p) \/ Stop(p) PROVE BackgroundIgnores'
  BY <1>1, <1>6 DEF ChildEnd, End, Stop
<1>7. ASSUME NEW p \in Waitable, Waitpid(p) PROVE BackgroundIgnores'
  BY <1>1, <1>7 DEF Waitpid
<1>8. CASE prepare \/ ReadLine \/ OpenPipe
  BY <1>1, <1>8 DEF prepare, ReadLine, OpenPipe, process_arglist, ShellExit, children
<1>9. CASE SetForeground \/ SetForegroundId \/ WaitForeground \/ SetWriter \/ SetReader
           \/ ClosePipe \/ WaitPipe \/ EnterHandler \/ LeaveHandler \/ UNCHANGED vars
  BY <1>1, <1>9 DEF SetForeground, SetForegroundId, WaitForeground, SetWriter, SetReader,
                    ClosePipe, WaitPipe, EnterHandler, LeaveHandler, vars, children
<1> QED
  BY <1>2, <1>3, <1>4, <1>5, <1>6, <1>7, <1>8, <1>9 DEF Next, Shell, Handler, Child

\* SIGINT ends the children with the default disposition, and no step but a SIGINT
\* counts one.
LEMMA SigintStep ==
    ASSUME TypeOK, BackgroundIgnores, [Next]_vars, sigints' # sigints
    PROVE  /\ spc # "start" => spc' # "exit"
           /\ \A p \in Pids : command[p] = "background" => state'[p] = state[p]
<1>1. Sigint
  <2>1. \A p \in Waitable : Waitpid(p) => UNCHANGED sigints
    BY DEF Waitpid, env
  <2>2. \A p \in Pids : Child(p) \/ ChildEnd(p) \/ Stop(p) => UNCHANGED sigints
    BY DEF Child, ChildSignal, Exec, ChildEnd, Stop, env
  <2>3. Shell \/ EnterHandler \/ LeaveHandler \/ UNCHANGED vars => UNCHANGED sigints
    BY DEF Shell, prepare, ReadLine, ForkCommand, SetForeground, SetForegroundId, WaitForeground,
           OpenPipe, SetWriter, SetReader, ClosePipe, WaitPipe, EnterHandler, LeaveHandler,
           vars, env
  <2> QED
    BY <2>1, <2>2, <2>3 DEF Next, Handler
<1>2. spc # "start" => spc' # "exit"
  BY <1>1 DEF Sigint, Alive
<1>3. ASSUME NEW p \in Pids, command[p] = "background" PROVE state'[p] = state[p]
  BY <1>1, <1>3 DEF Sigint, ShellExit, End, Interruptible, children, BackgroundIgnores
<1> QED
  BY <1>2, <1>3

\* A SIGINT, also one between fork and signal(SIGINT, SIG_IGN) in the child, ends no
\* background child, and not the shell once prepare has run.
THEOREM SigintSparesBackground == Spec => SigintSpares
<1>1. Init => BackgroundIgnores
  BY DEF Init, BackgroundIgnores
<1>2. TypeOK /\ BackgroundIgnores /\ [Next]_vars
        => [sigints' # sigints =>
              /\ spc # "start" => spc' # "exit"
              /\ \A p \in Pids : command[p] = "background" => state'[p] = state[p]]_vars
  BY SigintStep
<1> QED
  BY <1>1, <1>2, TypeCorrect, BackgroundStep, PTL DEF Spec, SigintSpares

-----------------------------------------------------------------------------
(***************************************************************************)
(* The shell waits for its foreground children.                            *)
(***************************************************************************)
\* A child that has ended stays ended.
LEMMA EndedStays ==
    ASSUME TypeOK, Unborn, [Next]_vars, NEW q \in Pids, Ended(q)
    PROVE  Ended(q)'
<1>1. CASE UNCHANGED state
  BY <1>1 DEF Ended
<1>2. CASE ForkCommand
  <2>1. npid + 1 > npid
    BY DEF TypeOK
  <2> QED
    BY <1>2, <2>1 DEF ForkCommand, ForkForeground, ForkRedirect, handle_background, ForkWriter,
              ForkReader, Fork, ShellExit, TypeOK, Unborn, Ended
<1>3. ASSUME NEW p \in Pids, Child(p) \/ ChildEnd(p) \/ Stop(p) PROVE Ended(q)'
  BY <1>3 DEF Child, ChildSignal, Exec, ReadyToExec, ChildEnd, End, Stop, TypeOK, Ended
<1>4. CASE Sigint
  BY <1>4 DEF Sigint, ShellExit, End, Interruptible, children, TypeOK, Ended
<1>5. ASSUME NEW p \in Waitable, Waitpid(p) PROVE Ended(q)'
  BY <1>5 DEF Waitpid, Waitable, TypeOK, Ended
<1>6. CASE prepare \/ ReadLine \/ OpenPipe
  BY <1>1, <1>6 DEF prepare, ReadLine, OpenPipe, process_arglist, ShellExit, children
<1>7. CASE SetForeground \/ SetForegroundId \/ WaitForeground \/ SetWriter \/ SetReader
           \/ ClosePipe \/ WaitPipe \/ EnterHandler \/ LeaveHandler \/ UNCHANGED vars
  BY <1>1, <1>7 DEF SetForeground, SetForegroundId, WaitForeground, SetWriter, SetReader,
                    ClosePipe, WaitPipe, EnterHandler, LeaveHandler, vars, children
<1> QED
  BY <1>2, <1>3, <1>4, <1>5, <1>6, <1>7 DEF Next, Shell, Handler

\* Only a fork gives a child a command.
LEMMA UnbornStep == TypeOK /\ Unborn /\ [Next]_vars => Unborn'
<1> SUFFICES ASSUME TypeOK, Unborn, [Next]_vars PROVE Unborn'
  OBVIOUS
<1>1. CASE UNCHANGED <<npid, state, command>>
  BY <1>1 DEF Unborn
<1>2. CASE ForkCommand
  <2>1. CASE UNCHANGED <<npid, state, command>>
    BY <2>1, <1>1
  <2>2. CASE npid' = npid + 1 /\ \A p \in Pids : p # npid + 1 => UNCHANGED <<state[p], command[p]>>
    BY <2>2 DEF TypeOK, Unborn, Pids
  <2> QED
    BY <1>2, <2>1, <2>2 DEF ForkCommand, ForkForeground, ForkRedirect, handle_background,
                            ForkWriter, ForkReader, Fork, ShellExit, TypeOK
<1>3. ASSUME NEW p \in Pids, Child(p) \/ ChildEnd(p) \/ Stop(p) PROVE Unborn'
  BY <1>3 DEF Child, ChildSignal, Exec, ReadyToExec, ChildEnd, End, Stop, TypeOK, Unborn
<1>4. CASE Sigint
  BY <1>4 DEF Sigint, ShellExit, End, Interruptible, children, TypeOK, Unborn
<1>5. ASSUME NEW p \in Waitable, Waitpid(p) PROVE Unborn'
  BY <1>5 DEF Waitpid, Waitable, TypeOK, Unborn
<1>6. CASE prepare \/ ReadLine \/ OpenPipe
  BY <1>1, <1>6 DEF prepare, ReadLine, OpenPipe, process_arglist, ShellExit, children
<1>7. CASE SetForeground \/ SetForegroundId \/ WaitForeground \/ SetWriter \/ SetReader
           \/ ClosePipe \/ WaitPipe \/ EnterHandler \/ LeaveHandler \/ UNCHANGED vars
  BY <1>1, <1>7 DEF SetForeground, SetForegroundId, WaitForeground, SetWriter, SetReader,
                    ClosePipe, WaitPipe, EnterHandler, LeaveHandler, vars, children
<1> QED
  BY <1>2, <1>3, <1>4, <1>5, <1>6, <1>7 DEF Next, Shell, Handler

\* The steps of the shell between its forks: they touch no child.
LEMMA WaitingShell ==
    ASSUME TypeOK, Waiting, Shell, ~ForkCommand
    PROVE  Waiting'
<1>1. UNCHANGED <<state, command, npid, si_pid, unreported>>
  BY DEF Shell, prepare, ReadLine, OpenPipe, process_arglist, ShellExit, SetForeground,
         SetForegroundId, WaitForeground, SetWriter, SetReader, ClosePipe, WaitPipe,
         children, signals
<1>2. Pending' = Pending /\ \A p : Ended(p)' = Ended(p)
  BY <1>1 DEF Pending, Ended
<1>3. CASE prepare \/ ReadLine \/ OpenPipe \/ ClosePipe
  BY <1>1, <1>2, <1>3
     DEF prepare, ReadLine, OpenPipe, ClosePipe, process_arglist, ShellExit, find_command_type,
         flags, Waiting, ForegroundDone, Awaited
<1>4. CASE SetForeground
  BY <1>1, <1>2, <1>4 DEF SetForeground, Waiting, ForegroundDone, Awaited
<1>5. CASE SetForegroundId
  BY <1>1, <1>2, <1>5 DEF SetForegroundId, Waiting, ForegroundDone, Awaited
<1>6. CASE WaitForeground
  BY <1>1, <1>2, <1>6 DEF WaitForeground, flags, Waiting, ForegroundDone, Awaited
<1>7. CASE SetWriter \/ SetReader
  BY <1>1, <1>2, <1>7 DEF SetWriter, SetReader, Waiting, ForegroundDone, Awaited
<1>8. CASE WaitPipe
  <2>1. 0 \notin Pending
    BY DEF Pending, Pids
  <2> QED
    BY <1>1, <1>2, <1>8, <2>1 DEF WaitPipe, flags, Waiting, ForegroundDone, Awaited
<1> QED
  BY <1>3, <1>4, <1>5, <1>6, <1>7, <1>8 DEF Shell

\* A fork adds the child that the shell goes on to wait for, unless it is in the
\* background.
LEMMA WaitingFork ==
    ASSUME TypeOK, Unborn, Waiting, ForkCommand
    PROVE  Waiting'
<1>1. UNCHANGED <<flags, si_pid, unreported>>
  BY DEF ForkCommand, signals
<1>2. spc # "wait" /\ spc # "exit" /\ spc' # "wait" /\ spc' # "set_id"
  BY DEF ForkCommand, ForkForeground, ForkRedirect, handle_background, ForkWriter, ForkReader,
         Fork, ShellExit
<1>3. \A q \in Pids : Ended(q) => Ended(q)'
  BY EndedStays DEF Next, Shell
<1>4. ForegroundDone' /\ (si_pid' # 0 => Ended(si_pid)')
  BY <1>1, <1>2, <1>3 DEF Waiting, ForegroundDone, flags, TypeOK, Pids
<1>5. spc' # "exit" => Pending' \subseteq Awaited'
  <2> SUFFICES ASSUME spc' # "exit" PROVE Pending' \subseteq Awaited'
    OBVIOUS
  <2>1. PICK c, next :
          /\ Fork(c, next)
          /\ \/ c \in {"foreground", "redirect"} /\ next = "set_flag"
             \/ c = "background" /\ next = "prompt"
             \/ c = "writer" /\ next = "set_writer"
             \/ c = "reader" /\ next = "set_reader"
          /\ c = "reader" <=> spc = "fork_reader"
          /\ spc \in {"foreground", "redirect", "background", "fork_writer", "fork_reader"}
    BY DEF ForkCommand, ForkForeground, ForkRedirect, handle_background, ForkWriter, ForkReader
  <2>2. /\ npid' = npid + 1 /\ spc' = next
        /\ state' = [state EXCEPT ![npid + 1] = "forked"]
        /\ command' = [command EXCEPT ![npid + 1] = c]
    BY <2>1 DEF Fork, ShellExit
  <2>3. Pending' \subseteq Pending \cup (IF c = "background" THEN {} ELSE {npid'})
    BY <2>2 DEF Pending, Ended, TypeOK
  <2>4. Pending \subseteq IF c = "reader" THEN {current_pipe_writer} ELSE {}
    BY <2>1 DEF Waiting, Awaited
  <2> QED
    BY <1>1, <2>1, <2>2, <2>3, <2>4 DEF Awaited, flags
<1> QED
  BY <1>1, <1>2, <1>4, <1>5 DEF Waiting, flags

\* sigchld_handler gives up waiting only for children that have ended.
LEMMA WaitingHandler ==
    ASSUME TypeOK, Unborn, Waiting, Handler
    PROVE  Waiting'
<1>0. \A q \in Pids : Ended(q) => Ended(q)'
  BY EndedStays DEF Next
<1>1. CASE EnterHandler
  <2>1. UNCHANGED <<state, command, npid, spc, unreported, current_fg_id,
                    current_pipe_writer, current_pipe_reader>> /\ si_pid' = 0 /\ si_pid # 0
    BY <1>1 DEF EnterHandler, children
  <2>2. Pending' = Pending /\ \A p : Ended(p)' = Ended(p)
    BY <2>1 DEF Pending, Ended
  <2>3. CASE is_foreground' = is_foreground
    BY <2>1, <2>2, <2>3 DEF Waiting, ForegroundDone, Awaited
  <2>4. CASE is_foreground /\ ~is_foreground' /\ si_pid = current_fg_id
    <3>1. spc = "wait" /\ current_fg_id = npid /\ Ended(npid)
      BY <2>1, <2>4 DEF Waiting, ForegroundDone
    <3>2. Pending = {}
      BY <2>4, <3>1 DEF Waiting, Awaited, Pending
    <3> QED
      BY <2>1, <2>2, <2>4, <3>1, <3>2 DEF Waiting, ForegroundDone, Awaited
  <2> QED
    BY <1>1, <2>3, <2>4 DEF EnterHandler, TypeOK
<1>2. CASE LeaveHandler
  BY <1>2 DEF LeaveHandler, flags, children, Waiting, ForegroundDone, Awaited, Pending, Ended
<1>3. ASSUME NEW p \in Waitable, Waitpid(p) PROVE Waiting'
  <2>1. p \in Pids /\ Ended(p) /\ Ended(p)'
    BY <1>0, <1>3 DEF Waiting, Waitable, Ended
  <2>2. UNCHANGED <<command, npid, spc, si_pid, is_foreground, current_fg_id>> /\ unreported' = {}
    BY <1>3 DEF Waitpid, Waiting
  <2>3. Pending' = Pending /\ p \notin Pending
    BY <1>3, <2>1 DEF Waitpid, Pending, Ended, TypeOK
  <2>4. /\ current_pipe_writer' = current_pipe_writer \/ current_pipe_writer = p
        /\ current_pipe_reader' = current_pipe_reader \/ current_pipe_reader = p
    BY <1>3 DEF Waitpid
  <2>5. spc # "exit" => Pending' \subseteq Awaited'
    BY <2>2, <2>3, <2>4 DEF Waiting, Awaited
  <2>6. ForegroundDone' /\ (si_pid' # 0 => Ended(si_pid)')
    BY <1>0, <2>2 DEF Waiting, ForegroundDone, TypeOK, Pids
  <2> QED
    BY <2>2, <2>5, <2>6 DEF Waiting
<1> QED
  BY <1>1, <1>2, <1>3 DEF Handler

\* A child's steps: it can only leave the children waited for, and it signals its end
\* once.
LEMMA WaitingChild ==
    ASSUME TypeOK, Unborn, Waiting, NEW p \in Pids, Child(p) \/ ChildEnd(p)
    PROVE  Waiting'
<1>1. \A q \in Pids : Ended(q) => Ended(q)'
  BY EndedStays DEF Next
<1>2. UNCHANGED <<flags, spc, npid, command, unreported>>
  BY DEF Child, ChildSignal, Exec, ChildEnd, End, signals
<1>3. Pending' \subseteq Pending
  BY <1>1, <1>2 DEF Pending
<1>4. si_pid' = si_pid \/ (si_pid' = p /\ ~Ended(p) /\ Ended(p)')
  <2>1. CASE Child(p)
    BY <2>1 DEF Child, ChildSignal, Exec, signals
  <2>2. CASE ChildEnd(p)
    BY <2>2 DEF ChildEnd, ReadyToExec, End, Notify, Ended, TypeOK
  <2> QED
    BY <2>1, <2>2
<1>5. ForegroundDone' /\ (si_pid' # 0 => Ended(si_pid)')
  BY <1>1, <1>2, <1>4 DEF Waiting, ForegroundDone, flags, TypeOK, Pids
<1>6. Awaited' = Awaited
  BY <1>2 DEF Awaited, flags
<1> QED
  BY <1>2, <1>3, <1>5, <1>6 DEF Waiting, flags

\* Every step keeps the invariant of waiting; a SIGINT and a stop end its premise.
LEMMA WaitingStep == TypeOK /\ Unborn /\ WaitingInv /\ [Next]_vars => WaitingInv'
<1> SUFFICES ASSUME TypeOK, Unborn, WaitingInv, [Next]_vars, sigints' = 0, stops' = 0
             PROVE  Waiting'
  BY DEF WaitingInv
<1>1. CASE Sigint
  <2>1. sigints' = sigints + 1 /\ sigints \in Nat
    BY <1>1 DEF Sigint, TypeOK
  <2> QED
    BY <2>1
<1>2. ASSUME NEW p \in Pids, Stop(p) PROVE FALSE
  BY <1>2 DEF Stop, TypeOK
<1>3. CASE UNCHANGED vars
  BY <1>3 DEF WaitingInv, Waiting, ForegroundDone, Awaited, Pending, Ended, vars, flags,
              children, signals, env
<1>4. CASE Shell
  <2>1. UNCHANGED env
    BY <1>4 DEF Shell, prepare, ReadLine, ForkCommand, SetForeground, SetForegroundId,
                WaitForeground, OpenPipe, SetWriter, SetReader, ClosePipe, WaitPipe
  <2> QED
    BY <1>4, <2>1, WaitingShell, WaitingFork DEF WaitingInv, env
<1>5. CASE Handler
  <2>1. UNCHANGED env
    BY <1>5 DEF Handler, EnterHandler, LeaveHandler, Waitpid
  <2> QED
    BY <1>5, <2>1, WaitingHandler DEF WaitingInv, env
<1>6. ASSUME NEW p \in Pids, Child(p) \/ ChildEnd(p) PROVE Waiting'
  <2>1. UNCHANGED env
    BY <1>6 DEF Child, ChildSignal, Exec, ChildEnd
  <2> QED
    BY <1>6, <2>1, WaitingChild DEF WaitingInv, env
<1> QED
  BY <1>1, <1>2, <1>3, <1>4, <1>5, <1>6 DEF Next

\* Without SIGINT and stopped children the shell prompts only when every foreground
\* child, of commands and of pipes, has ended: no SIGCHLD of a background child, and
\* no late one of an earlier command, releases it.
THEOREM ShellWaits == Spec => []WaitKept
<1>1. Init => Unborn /\ WaitingInv
  BY DEF Init, Unborn, WaitingInv, Waiting, ForegroundDone, Awaited, Pending
<1>2. TypeOK /\ WaitingInv => WaitKept
  BY DEF WaitKept, ForegroundEnded, WaitingInv, Waiting, Awaited, Pending
<1> QED
  BY <1>1, <1>2, TypeCorrect, UnbornStep, WaitingStep, PTL DEF Spec

\* Everything above at once: the inductive invariant always holds.
THEOREM ShellInvariant == Spec => []ShellInv
<1>1. Init => BackgroundIgnores /\ Unborn /\ WaitingInv
  BY DEF Init, BackgroundIgnores, Unborn, WaitingInv, Waiting, ForegroundDone, Awaited, Pending
<1> QED
  BY <1>1, TypeCorrect, NoZombieForgotten, BackgroundStep, UnbornStep, WaitingStep, PTL
     DEF Spec, ShellInv
=============================================================================
