------------------------------ MODULE Children ------------------------------
(***************************************************************************)
(* The operating system as fiveman sees it: the process groups it has      *)
(* spawned, the signals it sends them, and its own life as a process.      *)
(*                                                                         *)
(* fiveman spawns one "/bin/sh -c <exec>" per Procfile entry, each the     *)
(* leader of a process group of its own (POSIX_SPAWN_SETPGROUP), so a      *)
(* leader's process id also names its group.  Nothing here is code of the  *)
(* repository: every operator is a system call, modelled from how          *)
(* src/src/fiveman_process_state.c uses it on the platform the Makefile    *)
(* builds for.                                                             *)
(***************************************************************************)
EXTENDS Naturals, FiniteSets

CONSTANTS
  N,          \* number of entries in the Procfile
  Pids,       \* the process ids the kernel can hand out
  NoPid,      \* the pid_t value 0 of a table row that never started anything
  Stubborn,   \* entries whose command ignores SIGTERM
  Forking     \* entries whose command leaves a second process in its group,
              \* one that ignores SIGTERM and outlives the leader

Entries == 1..N
NoEntry == 0

ASSUME ChildrenAssumption ==
  /\ N \in Nat \ {0}
  /\ IsFiniteSet(Pids) /\ NoPid \notin Pids
  /\ Stubborn \subseteq Entries /\ Forking \subseteq Entries

VARIABLES
  proc,     \* proc[p]: what became of the group leader p
  owner,    \* owner[p]: the entry group p was spawned for, NoEntry if p is unused
  helper,   \* the groups that still hold a second process
  sigchld,  \* a SIGCHLD is pending for fiveman
  fiveman   \* fiveman's own process

childVars == <<proc, owner, helper, sigchld, fiveman>>

(***************************************************************************)
(* A leader is "dying" once a fatal signal has been delivered to it; a     *)
(* "zombie" has exited and has not been waited for; "free" is no process.  *)
(***************************************************************************)
LeaderStates == {"free", "alive", "dying", "zombie"}

ChildrenTypeOK ==
  /\ proc \in [Pids -> LeaderStates]
  /\ owner \in [Pids -> Entries \cup {NoEntry}]
  /\ helper \subseteq Pids
  /\ sigchld \in BOOLEAN
  /\ fiveman \in {"running", "exited", "killed"}

ChildrenInit ==
  /\ proc = [p \in Pids |-> "free"]
  /\ owner = [p \in Pids |-> NoEntry]
  /\ helper = {}
  /\ sigchld = FALSE
  /\ fiveman = "running"

Executing(p) == proc[p] \in {"alive", "dying"}

(* The owners once the leaders are pr and the second processes are in hs:  *)
(* a pid is forgotten when its whole group is gone.                        *)
OwnersAfter(pr, hs) ==
  [p \in Pids |-> IF pr[p] = "free" /\ p \notin hs THEN NoEntry ELSE owner[p]]

(* kill(p, 0) = 0.  A zombie still answers, until somebody waits for it.   *)
KillSucceeds(p) == p \in Pids /\ proc[p] # "free"

(* posix_spawn of entry e's shell as process p, leader of the new group p. *)
Spawned(p, e) ==
  /\ proc' = [proc EXCEPT ![p] = "alive"]
  /\ owner' = [owner EXCEPT ![p] = e]
  /\ helper' = IF e \in Forking THEN helper \cup {p} ELSE helper
  /\ UNCHANGED <<sigchld, fiveman>>

(* killpg(p, sig): every member of the group gets the signal.  SIGKILL     *)
(* cannot be ignored; SIGTERM can.  A group that is gone makes it a no-op. *)
Killpg(p, sig) ==
  /\ proc' = [proc EXCEPT ![p] =
                IF @ = "alive" /\ (sig = "SIGKILL" \/ owner[p] \notin Stubborn)
                THEN "dying" ELSE @]
  /\ helper' = IF sig = "SIGKILL" THEN helper \ {p} ELSE helper
  /\ owner' = OwnersAfter(proc', helper')
  /\ UNCHANGED <<sigchld, fiveman>>

(* waitpid(p, 0, WNOHANG) for every p in ps: their zombies are gone.       *)
Waited(ps) ==
  /\ proc' = [p \in Pids |->
                IF p \in ps /\ proc[p] = "zombie" THEN "free" ELSE proc[p]]
  /\ owner' = OwnersAfter(proc', helper)
  /\ UNCHANGED <<helper, fiveman>>

(***************************************************************************)
(* A leader exits, of its own accord or by a signal.  SIGCHLD is installed *)
(* with SA_NOCLDWAIT: the kernel then takes the process away at once and   *)
(* tells nobody, unless it is being traced, in which case it stays as a    *)
(* zombie and SIGCHLD is posted.  dtrace may or may not hold the process,  *)
(* so both can happen.                                                     *)
(***************************************************************************)
ExitAsZombie(p) ==
  /\ Executing(p)
  /\ proc' = [proc EXCEPT ![p] = "zombie"]
  /\ sigchld' = TRUE
  /\ UNCHANGED <<owner, helper, fiveman>>

ExitReaped(p) ==
  /\ Executing(p)
  /\ proc' = [proc EXCEPT ![p] = "free"]
  /\ owner' = OwnersAfter(proc', helper)
  /\ UNCHANGED <<helper, sigchld, fiveman>>

LeaderExits(p) == ExitAsZombie(p) \/ ExitReaped(p)

HelperExits(p) ==
  /\ p \in helper
  /\ helper' = helper \ {p}
  /\ owner' = OwnersAfter(proc, helper')
  /\ UNCHANGED <<proc, sigchld, fiveman>>
=============================================================================
