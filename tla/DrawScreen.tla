----------------------------- MODULE DrawScreen -----------------------------
(***************************************************************************)
(* The main thread from the moment the status thread exists: setup_screen, *)
(* the loop of draw_screen (src/src/ncurses_screen.c) and the end of main. *)
(*                                                                         *)
(* A turn of the loop draws the rows, reads one key (getch gives up after  *)
(* a second), and, once termination has begun, looks under the mutex       *)
(* whether anything is alive and signals every group.  The status thread   *)
(* converges the rows without the mutex, so the two walks over the table   *)
(* are taken one row per step.  Drawing changes no state of this module.   *)
(***************************************************************************)
EXTENDS StatusThread

CONSTANTS
  TermTimeout,   \* term_timeout: units of time before SIGTERM becomes SIGKILL
  MaxQuits       \* bound: how many times the user asks to quit

ASSUME ScreenAssumption == TermTimeout \in Nat \ {0} /\ MaxQuits \in Nat

VARIABLES
  main,                       \* where the main thread is
  highlighted_row,            \* the row the next key applies to
  exit_fiveman,               \* the user asked to quit
  exit_fiveman_immediately,   \* the loop is to be left
  is_terminating,             \* termination has begun
  pager_fork,                 \* the pager fork is "up" or "down"
  waited,                     \* time since term_issued_at, up to TermTimeout
  cursor,                     \* the row a walk over the table has reached
  any_alive,                  \* num_alive has found a process
  quits                       \* how many times the user asked to quit

(* The variables by who cares for them, for the frames of the actions.     *)
systemVars == <<childVars, tableVars, threadVars>>
flagVars ==
  <<exit_fiveman, exit_fiveman_immediately, is_terminating, pager_fork>>
walkVars == <<cursor, any_alive>>
userVars == <<highlighted_row, quits>>

screenVars == <<main, flagVars, waited, walkVars, userVars>>

MainSteps == {"setup", "getch", "paging", "resume", "lock", "count",
              "signal", "check_exit", "left", "join", "done"}

ScreenTypeOK ==
  /\ main \in MainSteps
  /\ highlighted_row \in Entries
  /\ exit_fiveman \in BOOLEAN
  /\ exit_fiveman_immediately \in BOOLEAN
  /\ is_terminating \in BOOLEAN
  /\ pager_fork \in {"up", "down"}
  /\ waited \in 0..TermTimeout
  /\ cursor \in Entries
  /\ any_alive \in BOOLEAN
  /\ quits \in 0..MaxQuits

(* (A pager fork whose fork() failed is one that a Ctrl-C killed before    *)
(* setup_screen clears the flags, which is a way from here.)               *)
ScreenInit ==
  /\ main = "setup"
  /\ highlighted_row = 1
  /\ exit_fiveman = FALSE
  /\ exit_fiveman_immediately = FALSE
  /\ is_terminating = FALSE
  /\ pager_fork = "up"
  /\ waited = 0
  /\ cursor = 1
  /\ any_alive = FALSE
  /\ quits = 0

(* setup_screen clears both flags, the request of a SIGINT that came       *)
(* before it included.                                                     *)
SetupScreen ==
  /\ main = "setup"
  /\ exit_fiveman' = FALSE /\ exit_fiveman_immediately' = FALSE
  /\ main' = "getch"
  /\ UNCHANGED <<systemVars, userVars, is_terminating, pager_fork, waited,
                 walkVars>>
-----------------------------------------------------------------------------
(* What follows the handling of a key.                                     *)
AfterKey == IF is_terminating THEN "lock" ELSE "check_exit"

(* getch timed out, or a key that changes nothing.                         *)
KeyNone ==
  /\ main = "getch"
  /\ main' = AfterKey
  /\ UNCHANGED <<systemVars, userVars, flagVars, waited, walkVars>>

KeyQuit ==
  /\ main = "getch" /\ quits < MaxQuits
  /\ exit_fiveman' = TRUE
  /\ quits' = quits + 1
  /\ main' = AfterKey
  /\ UNCHANGED <<systemVars, highlighted_row, exit_fiveman_immediately,
                 is_terminating, pager_fork, waited, walkVars>>

(* 's' and 'l': the user's wish for the highlighted row, under the mutex.  *)
KeyDesires(i) ==
  /\ main = "getch" /\ mutex = "none"
  /\ DesiresIntent(highlighted_row, i)
  /\ main' = AfterKey
  /\ UNCHANGED <<childVars, intent, pid, sample_ctxt, threadVars, userVars,
                 flagVars, waited, walkVars>>

KeyMove ==
  /\ main = "getch"
  /\ \/ highlighted_row > 1 /\ highlighted_row' = highlighted_row - 1
     \/ highlighted_row < N /\ highlighted_row' = highlighted_row + 1
  /\ main' = AfterKey
  /\ UNCHANGED <<systemVars, flagVars, waited, walkVars, quits>>

(* 'o' and 'e': the loop stands still until the pager fork has answered.   *)
(* Asking one that is gone ends fiveman with SIGPIPE.                      *)
KeyPage ==
  /\ main = "getch"
  /\ \/ /\ pager_fork = "up"
        /\ main' = "paging"
        /\ UNCHANGED fiveman
     \/ /\ pager_fork = "down"
        /\ fiveman' = "killed"
        /\ UNCHANGED main
  /\ UNCHANGED <<proc, owner, helper, sigchld, tableVars, threadVars, userVars,
                 flagVars, waited, walkVars>>

(* The user has left the pager and the fork says so.                       *)
PagerAnswers ==
  /\ main = "paging" /\ pager_fork = "up"
  /\ main' = "resume"
  /\ UNCHANGED <<systemVars, userVars, flagVars, waited, walkVars>>

(* Variants with a defect: resuming the screen clears the flags, as        *)
(* setting it up does; the screen is resumed without the answer.           *)
PagerReturnsAfresh ==
  /\ main = "resume"
  /\ exit_fiveman' = FALSE /\ exit_fiveman_immediately' = FALSE
  /\ main' = AfterKey
  /\ UNCHANGED <<systemVars, userVars, is_terminating, pager_fork, waited,
                 walkVars>>

PagerReturnsAtOnce ==
  /\ main \in {"paging", "resume"}
  /\ main' = AfterKey
  /\ UNCHANGED <<systemVars, userVars, flagVars, waited, walkVars>>

PagerReturns ==
  /\ main = "resume"
  /\ main' = AfterKey
  /\ UNCHANGED <<systemVars, userVars, flagVars, waited, walkVars>>
-----------------------------------------------------------------------------
TermLock ==
  /\ main = "lock" /\ mutex = "none"
  /\ mutex' = "main"
  /\ cursor' = 1 /\ any_alive' = FALSE
  /\ main' = "count"
  /\ UNCHANGED <<childVars, tableVars, status, row, subchild, exit, userVars,
                 flagVars, waited>>

(* One row of fiveman_process_state_table_num_alive.                       *)
Count ==
  /\ main = "count" /\ cursor < N
  /\ any_alive' = (any_alive \/ IsAlive(cursor))
  /\ cursor' = cursor + 1
  /\ UNCHANGED <<systemVars, main, userVars, flagVars, waited>>

(* Variant with a defect: the timeout is not looked at.                    *)
CountLastPatiently ==
  /\ main = "count" /\ cursor = N
  /\ LET found == any_alive \/ IsAlive(cursor)
     IN  /\ exit_fiveman_immediately' = ~found
         /\ main' = IF found THEN "signal" ELSE "check_exit"
         /\ mutex' = IF found THEN "main" ELSE "none"
  /\ cursor' = 1 /\ any_alive' = FALSE
  /\ UNCHANGED <<childVars, tableVars, status, row, subchild, exit, userVars,
                 exit_fiveman, is_terminating, pager_fork, waited>>

(* Variant with a defect: whatever is alive is killed at once.             *)
CountLastAtOnce ==
  /\ main = "count" /\ cursor = N
  /\ LET found == any_alive \/ IsAlive(cursor)
     IN  /\ exit_fiveman_immediately' = TRUE
         /\ main' = IF found THEN "signal" ELSE "check_exit"
         /\ mutex' = IF found THEN "main" ELSE "none"
  /\ cursor' = 1 /\ any_alive' = FALSE
  /\ UNCHANGED <<childVars, tableVars, status, row, subchild, exit, userVars,
                 exit_fiveman, is_terminating, pager_fork, waited>>

(* Its last row and what the number decides.                               *)
CountLast ==
  /\ main = "count" /\ cursor = N
  /\ LET found == any_alive \/ IsAlive(cursor)
     IN  /\ exit_fiveman_immediately' = (found => waited >= TermTimeout)
         /\ main' = IF found THEN "signal" ELSE "check_exit"
         /\ mutex' = IF found THEN "main" ELSE "none"
  /\ cursor' = 1 /\ any_alive' = FALSE
  /\ UNCHANGED <<childVars, tableVars, status, row, subchild, exit, userVars,
                 exit_fiveman, is_terminating, pager_fork, waited>>

(* Variant with a defect: the walk ends before the last row.               *)
SignalRowShort ==
  /\ main = "signal"
  /\ Signal(cursor, IF exit_fiveman_immediately THEN "SIGKILL" ELSE "SIGTERM")
  /\ IF cursor + 1 < N
     THEN cursor' = cursor + 1 /\ UNCHANGED <<main, mutex>>
     ELSE cursor' = 1 /\ main' = "check_exit" /\ mutex' = "none"
  /\ UNCHANGED <<tableVars, status, row, subchild, exit, userVars, flagVars,
                 waited, any_alive>>

(* Variant with a defect: after the last signal the loop is left without   *)
(* giving the mutex back.                                                  *)
SignalRowLocked ==
  /\ main = "signal"
  /\ Signal(cursor, IF exit_fiveman_immediately THEN "SIGKILL" ELSE "SIGTERM")
  /\ IF cursor < N
     THEN cursor' = cursor + 1 /\ UNCHANGED <<main, mutex>>
     ELSE /\ cursor' = 1 /\ main' = "check_exit"
          /\ mutex' = IF exit_fiveman_immediately THEN "main" ELSE "none"
  /\ UNCHANGED <<tableVars, status, row, subchild, exit, userVars, flagVars,
                 waited, any_alive>>

(* One row of fiveman_process_state_table_signal.                          *)
SignalRow ==
  /\ main = "signal"
  /\ Signal(cursor, IF exit_fiveman_immediately THEN "SIGKILL" ELSE "SIGTERM")
  /\ IF cursor < N
     THEN cursor' = cursor + 1 /\ UNCHANGED <<main, mutex>>
     ELSE cursor' = 1 /\ main' = "check_exit" /\ mutex' = "none"
  /\ UNCHANGED <<tableVars, status, row, subchild, exit, userVars, flagVars,
                 waited, any_alive>>
-----------------------------------------------------------------------------
LeaveLoop ==
  /\ main = "check_exit" /\ exit_fiveman_immediately
  /\ main' = "left"
  /\ UNCHANGED <<systemVars, userVars, flagVars, waited, walkVars>>

(* Variant with a defect: a request is looked at before the end.           *)
BeginTerminationFirst ==
  /\ main = "check_exit"
  /\ exit_fiveman /\ mutex = "none"
  /\ TableDesiresIntent("STOP")
  /\ waited' = 0
  /\ exit_fiveman' = FALSE
  /\ is_terminating' = TRUE
  /\ main' = "getch"
  /\ UNCHANGED <<childVars, intent, pid, sample_ctxt, threadVars, userVars,
                 exit_fiveman_immediately, pager_fork, walkVars>>

(* A request to quit, the first or a later one: every row is to stop and   *)
(* the clock of the SIGKILL starts again.                                  *)
BeginTermination ==
  /\ main = "check_exit" /\ ~exit_fiveman_immediately
  /\ exit_fiveman /\ mutex = "none"
  /\ TableDesiresIntent("STOP")
  /\ waited' = 0
  /\ exit_fiveman' = FALSE
  /\ is_terminating' = TRUE
  /\ main' = "getch"
  /\ UNCHANGED <<childVars, intent, pid, sample_ctxt, threadVars, userVars,
                 exit_fiveman_immediately, pager_fork, walkVars>>

NextTurn ==
  /\ main = "check_exit" /\ ~exit_fiveman_immediately /\ ~exit_fiveman
  /\ main' = "getch"
  /\ UNCHANGED <<systemVars, userVars, flagVars, waited, walkVars>>

(* fiveman_status_thread_destroy, up to pthread_join.                      *)
StatusThreadDestroy ==
  /\ main = "left" /\ mutex = "none"
  /\ exit' = TRUE
  /\ main' = "join"
  /\ UNCHANGED <<childVars, tableVars, status, row, subchild, mutex, userVars,
                 flagVars, waited, walkVars>>

(* The join returns; the sampling contexts are torn down, the pager fork   *)
(* is killed and main returns.                                             *)
Finish ==
  /\ main = "join" /\ status = "done"
  /\ sample_ctxt' = [e \in Entries |-> NoPid]
  /\ pager_fork' = "down"
  /\ fiveman' = "exited"
  /\ main' = "done"
  /\ UNCHANGED <<proc, owner, helper, sigchld, intent, desired_intent, pid,
                 threadVars, userVars, exit_fiveman, exit_fiveman_immediately,
                 is_terminating, waited, walkVars>>

MainStep ==
  \/ SetupScreen
  \/ KeyNone \/ KeyQuit \/ KeyMove
  \/ KeyPage \/ PagerAnswers \/ PagerReturns
  \/ \E i \in Intents : KeyDesires(i)
  \/ TermLock \/ Count \/ CountLast \/ SignalRow
  \/ LeaveLoop \/ BeginTermination \/ NextTurn
  \/ StatusThreadDestroy \/ Finish
=============================================================================
