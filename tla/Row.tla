--------------------------------- MODULE Row --------------------------------
(***************************************************************************)
(* One row of the table as the status thread comes by once a pass, for the *)
(* modules about its figures (Statistics) and about its line on the screen *)
(* (ScreenEntry): the clock, the process of the row and the steps of the   *)
(* pass.  Rows share nothing of what these modules are about, so one will  *)
(* do.  How rows are started and stopped is StatusThread's matter.         *)
(***************************************************************************)
EXTENDS Integers

CONSTANTS
  Second,         \* MICROSECONDS_PER_SECOND, in units of the clock
  Epoch,          \* the time when fiveman starts, in units
  Horizon,        \* bound: the last time of the model
  MaxInstances    \* bound: how often the entry is started

ASSUME RowAssumption ==
  /\ Second \in Nat \ {0} /\ Epoch \in Nat /\ Horizon \in Nat
  /\ Second <= Epoch /\ Epoch <= Horizon
  /\ MaxInstances \in Nat \ {0}

VARIABLES
  clock,     \* the time of day, in units
  pid,       \* the pid of the row: its instances are numbered, 0 is none
  child,     \* what has become of it
  step       \* where the status thread is

rowVars == <<clock, pid, child, step>>

Steps == {"reap", "converge", "work", "info", "times", "entry", "publish", "sleep"}

RowTypeOK ==
  /\ clock \in Epoch..Horizon
  /\ pid \in 0..MaxInstances
  /\ child \in {"none", "up", "zombie", "gone"}
  /\ step \in Steps

RowInit ==
  /\ clock = Epoch
  /\ pid = 0 /\ child = "none"
  /\ step = "reap"

Seconds(t) == t \div Second

(* kill(pid, 0) succeeds for a zombie too.                                 *)
IsAlive == child \in {"up", "zombie"}

TimePasses ==
  /\ clock < Horizon
  /\ clock' = clock + 1
  /\ UNCHANGED <<pid, child, step>>

Exits ==
  /\ child = "up"
  /\ child' = "zombie"
  /\ UNCHANGED <<clock, pid, step>>

(* waitpid in the signal handler.                                          *)
HandleSigchld ==
  /\ child = "zombie"
  /\ child' = "gone"
  /\ UNCHANGED <<clock, pid, step>>

(* waitpid at the head of a pass.                                          *)
ReapZombie ==
  /\ step = "reap"
  /\ child' = IF child = "zombie" THEN "gone" ELSE child
  /\ step' = "converge"
  /\ UNCHANGED <<clock, pid>>

(* fiveman_process_state_converge_start of a row that is not alive.        *)
NewInstance ==
  /\ ~IsAlive /\ pid < MaxInstances
  /\ pid' = pid + 1 /\ child' = "up"

Sleep ==
  /\ step' = "sleep"
  /\ UNCHANGED <<clock, pid, child>>

(* The end of sleep(1).  It may come at any time: a SIGCHLD or a SIGINT    *)
(* that is handled on this thread ends the sleep, whoever it is about, and *)
(* what sleep returns is not looked at.                                    *)
WakeUp ==
  /\ step = "sleep"
  /\ step' = "reap"
  /\ UNCHANGED <<clock, pid, child>>
=============================================================================
