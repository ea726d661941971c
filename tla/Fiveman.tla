------------------------------- MODULE Fiveman ------------------------------
(***************************************************************************)
(* The supervisor as a whole: the main thread, the status thread, the two  *)
(* signal handlers, the children, and time.                                *)
(*                                                                         *)
(* The behaviour starts when main has created the status thread; reading   *)
(* the Procfile and forking the pager come before and are not part of it.  *)
(***************************************************************************)
EXTENDS DrawScreen

CONSTANTS
  ExitDuringAttach,   \* may a child exit before dtrace is attached to it?
  CtrlC               \* may SIGINT come from the keyboard?
ASSUME FivemanAssumption == ExitDuringAttach \in BOOLEAN /\ CtrlC \in BOOLEAN

VARIABLE sigint   \* the disposition of SIGINT

vars == <<childVars, tableVars, threadVars, screenVars, sigint>>

(***************************************************************************)
(* install_signal_handlers never sets sa_flags of the SIGINT action: the   *)
(* handler may have been installed for one delivery only (SA_RESETHAND).   *)
(***************************************************************************)
SigintInit == sigint \in {"handler", "handler_once"}

Init == ChildrenInit /\ TableInit /\ ThreadInit /\ ScreenInit /\ SigintInit
-----------------------------------------------------------------------------
(* handle_sigchld, on whatever thread the signal finds: it reaps the rows  *)
(* as they are now, a spawned leader no row records yet excepted.          *)
HandleSigchld ==
  /\ sigchld
  /\ sigchld' = FALSE
  /\ ReapZombieProcesses
  /\ UNCHANGED <<tableVars, threadVars, screenVars, sigint>>

(* handle_sigint, or the default action once the handler is gone.  From    *)
(* the keyboard the signal goes to the pager fork too, which dies of it.   *)
HandleSigint ==
  /\ quits < MaxQuits
  /\ quits' = quits + 1
  /\ pager_fork' \in {pager_fork} \cup (IF CtrlC THEN {"down"} ELSE {})
  /\ \/ /\ sigint # "default"
        /\ exit_fiveman' = TRUE
        /\ sigint' = IF sigint = "handler_once" THEN "default" ELSE sigint
        /\ UNCHANGED fiveman
     \/ /\ sigint = "default"
        /\ fiveman' = "killed"
        /\ UNCHANGED <<exit_fiveman, sigint>>
  /\ UNCHANGED <<proc, owner, helper, sigchld, tableVars, threadVars, main,
                 exit_fiveman_immediately, is_terminating, waited, walkVars,
                 highlighted_row>>

(* The clock draw_screen reads, from term_issued_at to the timeout.        *)
Tick ==
  /\ is_terminating /\ waited < TermTimeout
  /\ waited' = waited + 1
  /\ UNCHANGED <<systemVars, main, flagVars, walkVars, userVars, sigint>>

StatusThreadRuns == StatusStep /\ UNCHANGED <<screenVars, sigint>>
MainThreadRuns == MainStep /\ UNCHANGED sigint

(* A leader between its posix_spawn and the end of fiveman_init_sampling.  *)
BeingAttached(p) ==
  /\ fiveman = "running"
  /\ \/ status = "assign" /\ subchild = p
     \/ status = "attach" /\ pid[row] = p

(* The children, which outlive fiveman if they are let.                    *)
ChildrenRun ==
  /\ \E p \in Pids :
       \/ (ExitDuringAttach \/ ~BeingAttached(p)) /\ LeaderExits(p)
       \/ HelperExits(p)
  /\ UNCHANGED <<tableVars, threadVars, screenVars, sigint>>

(* fiveman has gone and so have its children: nothing is left to happen.   *)
Over ==
  /\ fiveman # "running"
  /\ \A p \in Pids : ~Executing(p) /\ p \notin helper
  /\ UNCHANGED vars

Next ==
  \/ /\ fiveman = "running"
     /\ \/ StatusThreadRuns
        \/ MainThreadRuns
        \/ HandleSigchld
        \/ HandleSigint
        \/ Tick
  \/ ChildrenRun
  \/ Over

Spec == Init /\ [][Next]_vars

(***************************************************************************)
(* Fairness: both threads are scheduled; the main thread takes and leaves  *)
(* the mutex around a getch of up to a second, so the status thread, which *)
(* needs it twice a pass, gets it infinitely often (hence SF); a pending   *)
(* signal is delivered; a fatal signal kills; time passes; the user leaves *)
(* a pager that is there and the fork() for it works (PagerAnswers).  No   *)
(* key, no SIGINT and no voluntary exit is ever promised.                  *)
(***************************************************************************)
Fairness ==
  /\ SF_vars(fiveman = "running" /\ StatusThreadRuns)
  /\ WF_vars(fiveman = "running" /\ MainThreadRuns)
  /\ WF_vars(fiveman = "running" /\ HandleSigchld)
  /\ WF_vars(fiveman = "running" /\ Tick)
  /\ \A p \in Pids :
       WF_vars(/\ proc[p] = "dying" /\ LeaderExits(p)
               /\ ExitDuringAttach \/ ~BeingAttached(p)
               /\ UNCHANGED <<tableVars, threadVars, screenVars, sigint>>)

FairSpec == Spec /\ Fairness
-----------------------------------------------------------------------------
TypeOK ==
  /\ ChildrenTypeOK /\ TableTypeOK /\ ThreadTypeOK /\ ScreenTypeOK
  /\ sigint \in {"handler", "handler_once", "default"}

Occupies(p, e) == proc[p] # "free" /\ owner[p] = e
Running(e) == \E p \in Pids : Occupies(p, e) /\ Executing(p)

(* An entry never has two instances at a time, one a zombie included: the  *)
(* is_alive test, the reaping by two threads and a handler, and the window *)
(* between posix_spawn and the assignment of state->pid leave no room for  *)
(* starting a second one (fiveman_process_state_converge_start).           *)
SingleInstance ==
  \A e \in Entries : \A p, q \in Pids : Occupies(p, e) /\ Occupies(q, e) => p = q

(* While fiveman runs, every leader it spawned is in the row of its entry, *)
(* or is the one the status thread is about to record: a leader outside    *)
(* the table would never be reaped, signalled or counted again.            *)
EveryChildTracked ==
  fiveman = "running" =>
    \A p \in Pids : \A e \in Entries : Occupies(p, e) =>
      \/ pid[e] = p
      \/ status = "assign" /\ row = e /\ subchild = p

(* fiveman_sample_info uses the dtrace context of a row it found alive     *)
(* without a test (its context is dereferenced): it is there, and attached *)
(* to the pid the row names.                                               *)
SampledIsAttached ==
  status = "observe" =>
    \A e \in Entries : IsAlive(e) => sample_ctxt[e] = pid[e]

(* When main has returned, a process that was not told to die belongs to   *)
(* an entry whose adopted intent is still START: the last pass of the      *)
(* status loop signalled everything the user wants stopped.  (That such a  *)
(* START can be out of date by then is what NoOrphans is about.)           *)
LeftoverWasWanted ==
  fiveman = "exited" =>
    \A p \in Pids : proc[p] = "alive" /\ owner[p] \notin Stubborn
                      => intent[owner[p]] = "START"

(* A stop the status thread has adopted sticks: as long as the adopted     *)
(* intent of an entry is STOP it gets no new instance, whatever dies.      *)
AdoptedStopSticks ==
  [][\A e \in Entries : intent[e] = "STOP" /\ intent'[e] = "STOP" =>
       \A p \in Pids : Occupies(p, e)' => Occupies(p, e)]_vars

(* draw_screen has decided to leave its loop.                              *)
Leaving ==
  exit_fiveman_immediately /\ main \in {"check_exit", "left", "join", "done"}
NothingWanted ==
  \A e \in Entries : intent[e] = "STOP" /\ desired_intent[e] = "STOP"
NobodyAlive == \A p \in Pids : proc[p] # "alive"

(* When every stop has been adopted before draw_screen decides to leave,   *)
(* and nothing was launched again, no leader is left that was not told to  *)
(* die, and none comes after: the decision is taken row by row while the   *)
(* status thread runs, and it does not miss a row all the same.            *)
QuitLeavesNobody ==
  [][NothingWanted /\ (Leaving => NobodyAlive) /\ Leaving'
       => (NothingWanted /\ NobodyAlive)']_vars

(* Of the main thread's steps below, those of the walks over the table run *)
(* with the mutex held, and no other leaves it held: not the wait for a    *)
(* key, not the one for a pager, and not the one for the end of the status *)
(* thread, which needs the mutex to end.  (Drawing and the handling of a   *)
(* key take and give it back inside one step, and are not visible here.)   *)
LockedForWalks == mutex = "main" <=> main \in {"count", "signal"}

(* What draw_screen still has to do once it has decided to leave, and what *)
(* is left of a pass of the status thread.                                 *)
WayOut == [signal |-> 1, check_exit |-> 2, left |-> 3, join |-> 4, done |-> 5]
PassPart ==
  [reflect |-> 1, reap |-> 2, converge |-> 3, spawn |-> 3, assign |-> 3,
   attach |-> 3, term |-> 3, observe |-> 4, publish |-> 5, done |-> 6]
RowPart == [converge |-> 1, spawn |-> 2, term |-> 2, assign |-> 3, attach |-> 4]

MainForward ==
  /\ main \in DOMAIN WayOut /\ main' \in DOMAIN WayOut
  /\ \/ WayOut[main'] > WayOut[main]
     \/ main' = main /\ cursor' > cursor
StatusForward ==
  \/ PassPart[status'] > PassPart[status]
  \/ /\ PassPart[status'] = 3 /\ PassPart[status] = 3
     /\ \/ row' > row
        \/ row' = row /\ RowPart[status'] > RowPart[status]

(* A quit is never taken back: not by keys, further requests, launches or  *)
(* the pager.  Once the loop of draw_screen is to be left every step of    *)
(* the main thread is one on its way out, and once exit is set every step  *)
(* of the status thread brings its last pass nearer to its end.            *)
QuitMovesForward ==
  [][/\ is_terminating => is_terminating'
     /\ exit_fiveman_immediately =>
          exit_fiveman_immediately' /\ (UNCHANGED <<main, cursor>> \/ MainForward)
     /\ exit => exit' /\ (UNCHANGED <<status, row>> \/ StatusForward)]_vars

(* A command that ignores SIGTERM is given the whole of the time fixed in  *)
(* draw_screen (term_timeout) before it is killed, and every further       *)
(* request to quit gives it that time again.                               *)
KilledAfterGrace ==
  [][\A p \in Pids :
       proc[p] = "alive" /\ owner[p] \in Stubborn /\ proc'[p] = "dying"
         => is_terminating /\ waited = TermTimeout]_vars

(* Fiveman tells a process to die while it terminates, or because it is    *)
(* the pid of a row whose ADOPTED intent is STOP: never on a wish of the   *)
(* user's that the status thread has not taken over yet, nor on one he has *)
(* taken back in time.  The test of the intent and the signal are two      *)
(* steps of a thread that holds no lock while main changes the wishes.     *)
(* (The row may be another entry's, where the kernel has given the pid of  *)
(* its dead leader to somebody else: nothing in the code looks.)           *)
SignalsAreMeant ==
  [][\A p \in Pids : proc[p] = "alive" /\ proc'[p] = "dying" =>
       is_terminating \/ \E e \in Entries : pid[e] = p /\ intent[e] = "STOP"]_vars

(* The supervisor implements its abstract specification.                   *)
Abstract == INSTANCE Supervision WITH
  want <- desired_intent,
  plan <- intent,
  up <- {e \in Entries : \E p \in Pids : Occupies(p, e)},
  open <- (fiveman = "running")

Supervises == Abstract!Spec

(* What the main thread does about paging is what the contract lets it do, *)
(* in particular it never gets its screen back from a pager fork that died *)
(* before it answered (draw_screen, case 'o').                             *)
Paged == INSTANCE Pager WITH
  client <- CASE fiveman # "running" -> "gone"
              [] fiveman = "running" /\ main = "paging" -> "asking"
              [] fiveman = "running" /\ main = "resume" -> "answered"
              [] OTHER -> "free",
  service <- pager_fork

RespectsPager == Paged!Spec
-----------------------------------------------------------------------------
(* README.md:7 "If a process dies, it is restarted": an entry the user     *)
(* wants running and that has no process gets one, unless he changes his   *)
(* mind or asks to quit.                                                   *)
Restarted ==
  \A e \in Entries :
    (desired_intent[e] = "START" /\ ~Running(e) /\ ~exit)
      ~> (Running(e) \/ desired_intent[e] = "STOP" \/ exit)

(* README.md:7 "If you want to stop a process, you tell fiveman that you   *)
(* want it stopped": an entry whose command honours SIGTERM is stopped,    *)
(* unless the user launches it again or fiveman goes.                      *)
Stopped ==
  \A e \in Entries \ Stubborn :
    (fiveman = "running" /\ desired_intent[e] = "STOP")
      ~> (~Running(e) \/ desired_intent[e] = "START" \/ fiveman # "running")

(* The main thread waits for the answer of a pager fork that is no more.   *)
Stranded == main = "paging" /\ pager_fork = "down"

(* Once termination has begun fiveman ends, however stubborn its children, *)
(* whatever keys are pressed but 'q' over and over, unless the user pages  *)
(* a file and kills the pager fork with Ctrl-C.                            *)
QuitCompletes == is_terminating ~> (fiveman # "running" \/ Stranded)

(* A request to quit made after setup_screen is never lost, not even a     *)
(* SIGINT that races with the key handling or arrives while a file is      *)
(* paged, with the same exception.                                         *)
QuitIsHeard ==
  (exit_fiveman /\ main # "setup")
    ~> (is_terminating \/ fiveman # "running" \/ Stranded)

(* No zombie stays: between them the SIGCHLD handler and the loop of the   *)
(* status thread wait for every leader that is left to be waited for       *)
(* (fiveman_process_state_table_reap_zombie_processes).                    *)
ZombiesReaped ==
  \A p \in Pids :
    proc[p] = "zombie" ~> (proc[p] # "zombie" \/ fiveman # "running")

(* README.md:25 "If Dtrace fails, creates orphaned processes", the only    *)
(* way the documentation knows: when main returns, every process that is   *)
(* left has been told to die.                                              *)
NoOrphans == fiveman = "exited" => \A p \in Pids : proc[p] # "alive"
=============================================================================
