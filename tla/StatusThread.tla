---------------------------- MODULE StatusThread ----------------------------
(***************************************************************************)
(* The status thread: fiveman_update_thread_main of                        *)
(* src/src/fiveman_status_thread.c and what it calls of                    *)
(* src/src/fiveman_process_state.c.                                        *)
(*                                                                         *)
(* Each pass of its loop adopts the desired intents under the mutex, reaps *)
(* zombies, converges the rows one after the other WITHOUT the mutex, and  *)
(* publishes what it saw under the mutex, where it also reads the exit     *)
(* flag.  The sleep(1) is the time "reflect" may take to be executed.      *)
(*                                                                         *)
(* The steps are those another thread, a signal handler or a child can     *)
(* come between: the is_alive test, the system call it guards, the         *)
(* assignment of the new pid, and the attachment of dtrace are separate.   *)
(***************************************************************************)
EXTENDS ProcessStateTable

CONSTANT DtraceMayFail   \* may dtrace fail on a process that is there?
ASSUME DtraceAssumption == DtraceMayFail \in BOOLEAN

VARIABLES
  status,     \* where the thread is
  row,        \* the row it is converging
  subchild,   \* the process posix_spawn returned, until the row records it
  mutex,      \* the thread holding thread_info->mutex
  exit        \* thread_info->exit

threadVars == <<status, row, subchild, mutex, exit>>

StatusSteps == {"reflect", "reap", "converge", "spawn", "assign", "attach",
                "term", "observe", "publish", "done"}

ThreadTypeOK ==
  /\ status \in StatusSteps
  /\ row \in Entries
  /\ subchild \in Pids \cup {NoPid}
  /\ mutex \in {"none", "main"}
  /\ exit \in BOOLEAN

ThreadInit ==
  /\ status = "reflect"
  /\ row = 1
  /\ subchild = NoPid
  /\ mutex = "none"
  /\ exit = FALSE

(* Variants of the definitions below, each with one defect; no action uses *)
(* them.  They show that the properties notice the defect.                 *)
RowDoneTooLate ==
  /\ row' = IF row <= N THEN row + 1 ELSE 1
  /\ status' = IF row <= N THEN "converge" ELSE "observe"

(* The end of the turn of a row: on to the next, or to the display.        *)
RowDone ==
  /\ row' = IF row < N THEN row + 1 ELSE 1
  /\ status' = IF row < N THEN "converge" ELSE "observe"

(* The exit flag is also honoured at the top of the loop.                  *)
ReflectOrExit ==
  /\ status = "reflect" /\ mutex = "none"
  /\ intent' = desired_intent
  /\ status' = IF exit THEN "done" ELSE "reap"
  /\ UNCHANGED <<childVars, desired_intent, pid, sample_ctxt,
                 row, subchild, mutex, exit>>

(* Only one row is reflected.                                              *)
ReflectOneRow ==
  /\ status = "reflect" /\ mutex = "none"
  /\ intent' = [intent EXCEPT ![row] = desired_intent[row]]
  /\ status' = "reap"
  /\ UNCHANGED <<childVars, desired_intent, pid, sample_ctxt,
                 row, subchild, mutex, exit>>

(* The thread's two critical sections are short enough to be one step      *)
(* each, so only the main thread is ever seen holding the mutex.           *)
Reflect ==
  /\ status = "reflect" /\ mutex = "none"
  /\ intent' = desired_intent
  /\ status' = "reap"
  /\ UNCHANGED <<childVars, desired_intent, pid, sample_ctxt,
                 row, subchild, mutex, exit>>

Reap ==
  /\ status = "reap"
  /\ ReapZombieProcesses
  /\ status' = "converge"
  /\ UNCHANGED <<sigchld, tableVars, row, subchild, mutex, exit>>

(* An entry that is to run is started without the is_alive test.           *)
ConvergeBlindly ==
  /\ status = "converge"
  /\ \/ /\ intent[row] = "START"
        /\ status' = "spawn"
        /\ UNCHANGED row
     \/ /\ intent[row] = "STOP" /\ IsAlive(row)
        /\ status' = "term"
        /\ UNCHANGED row
     \/ /\ intent[row] = "STOP" /\ ~IsAlive(row)
        /\ RowDone
  /\ UNCHANGED <<childVars, tableVars, subchild, mutex, exit>>

(* The shared wish is read, instead of the intent adopted under the mutex. *)
ConvergeDesired ==
  /\ status = "converge"
  /\ \/ /\ desired_intent[row] = "START" /\ ~IsAlive(row)
        /\ status' = "spawn"
        /\ UNCHANGED row
     \/ /\ desired_intent[row] = "STOP" /\ IsAlive(row)
        /\ status' = "term"
        /\ UNCHANGED row
     \/ /\ (desired_intent[row] = "START") = IsAlive(row)
        /\ RowDone
  /\ UNCHANGED <<childVars, tableVars, subchild, mutex, exit>>

(* An entry is started once and never again.                               *)
ConvergeOnce ==
  /\ status = "converge"
  /\ \/ /\ intent[row] = "START" /\ pid[row] = NoPid
        /\ status' = "spawn"
        /\ UNCHANGED row
     \/ /\ intent[row] = "STOP" /\ IsAlive(row)
        /\ status' = "term"
        /\ UNCHANGED row
     \/ /\ IF intent[row] = "START" THEN pid[row] # NoPid ELSE ~IsAlive(row)
        /\ RowDone
  /\ UNCHANGED <<childVars, tableVars, subchild, mutex, exit>>

(* fiveman_process_state_converge, down to the system call it decides on.  *)
Converge ==
  /\ status = "converge"
  /\ \/ /\ intent[row] = "START" /\ ~IsAlive(row)
        /\ status' = "spawn"
        /\ UNCHANGED row
     \/ /\ intent[row] = "STOP" /\ IsAlive(row)
        /\ status' = "term"
        /\ UNCHANGED row
     \/ /\ (intent[row] = "START") = IsAlive(row)
        /\ RowDone
  /\ UNCHANGED <<childVars, tableVars, subchild, mutex, exit>>

(* fiveman_process_state_start, up to posix_spawn.                         *)
Spawn ==
  /\ status = "spawn"
  /\ \E p \in FreePids : Spawned(p, row) /\ subchild' = p
  /\ status' = "assign"
  /\ UNCHANGED <<tableVars, row, mutex, exit>>

(* No process id is left: posix_spawn fails and the assertion on its       *)
(* result aborts the program.                                              *)
SpawnFails ==
  /\ status = "spawn" /\ FreePids = {}
  /\ fiveman' = "killed"
  /\ UNCHANGED <<proc, owner, helper, sigchld, tableVars, threadVars>>

(* A row that has a leader keeps it.                                       *)
AssignFirstPid ==
  /\ status = "assign"
  /\ sample_ctxt' = [sample_ctxt EXCEPT ![row] = NoPid]
  /\ pid' = IF pid[row] = NoPid THEN [pid EXCEPT ![row] = subchild] ELSE pid
  /\ subchild' = NoPid
  /\ status' = "attach"
  /\ UNCHANGED <<childVars, intent, desired_intent, row, mutex, exit>>

(* The old dtrace context is torn down and the row records the new leader. *)
AssignPid ==
  /\ status = "assign"
  /\ sample_ctxt' = [sample_ctxt EXCEPT ![row] = NoPid]
  /\ pid' = [pid EXCEPT ![row] = subchild]
  /\ subchild' = NoPid
  /\ status' = "attach"
  /\ UNCHANGED <<childVars, intent, desired_intent, row, mutex, exit>>

(* fiveman_init_sampling on a leader that is still there.                  *)
Attach ==
  /\ status = "attach" /\ Executing(pid[row])
  /\ sample_ctxt' = [sample_ctxt EXCEPT ![row] = pid[row]]
  /\ RowDone
  /\ UNCHANGED <<childVars, intent, desired_intent, pid,
                 subchild, mutex, exit>>

(* A failure returns early instead of aborting.                            *)
AttachReturnsEarly ==
  /\ status = "attach" /\ (DtraceMayFail \/ ~Executing(pid[row]))
  /\ RowDone
  /\ UNCHANGED <<childVars, tableVars, subchild, mutex, exit>>

(* fiveman_init_sampling asserts task_for_pid, dtrace_proc_grab and the    *)
(* rest: on a leader that has already exited, or when dtrace fails, it     *)
(* aborts the program.                                                     *)
AttachFails ==
  /\ status = "attach" /\ (DtraceMayFail \/ ~Executing(pid[row]))
  /\ fiveman' = "killed"
  /\ UNCHANGED <<proc, owner, helper, sigchld, tableVars, threadVars>>

(* The signal goes to the first row, whatever the row.                     *)
ConvergeStopsTheFirst ==
  /\ status = "term"
  /\ Signal(1, "SIGTERM")
  /\ RowDone
  /\ UNCHANGED <<tableVars, subchild, mutex, exit>>

(* fiveman_process_state_stop.                                             *)
ConvergeStop ==
  /\ status = "term"
  /\ Signal(row, "SIGTERM")
  /\ RowDone
  /\ UNCHANGED <<tableVars, subchild, mutex, exit>>

(* The display pass: every row that is alive is sampled through its dtrace *)
(* context, and the screen entries are filled in.                          *)
Observe ==
  /\ status = "observe"
  /\ status' = "publish"
  /\ UNCHANGED <<childVars, tableVars, row, subchild, mutex, exit>>

Publish ==
  /\ status = "publish" /\ mutex = "none"
  /\ status' = IF exit THEN "done" ELSE "reflect"
  /\ UNCHANGED <<childVars, tableVars, row, subchild, mutex, exit>>

StatusStep ==
  \/ Reflect \/ Reap \/ Converge \/ Spawn \/ SpawnFails \/ AssignPid
  \/ Attach \/ AttachFails \/ ConvergeStop \/ Observe \/ Publish
=============================================================================
