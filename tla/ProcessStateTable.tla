------------------------- MODULE ProcessStateTable --------------------------
(***************************************************************************)
(* The process state table: one fiveman_process_state per Procfile entry,  *)
(* with what the user desires of the entry (desired_intent), what the      *)
(* status thread is converging it to (intent), the leader it last started  *)
(* (pid) and the process its dtrace context is attached to (sample_ctxt).  *)
(*                                                                         *)
(* src/src/fiveman_process_state.c, src/src/fiveman_process_state_table.c. *)
(* INTENT_SIG and INTENT_NONE are never given to an entry by any caller    *)
(* (fiveman_process_state_change_intent is dead code), so an intent is     *)
(* INTENT_START or INTENT_STOP.                                            *)
(***************************************************************************)
EXTENDS Children

CONSTANT PidReuse   \* may the kernel reuse a dead pid a row still remembers?
ASSUME ReuseAssumption == PidReuse \in BOOLEAN

VARIABLES intent, desired_intent, pid, sample_ctxt

tableVars == <<intent, desired_intent, pid, sample_ctxt>>

Intents == {"START", "STOP"}

TableTypeOK ==
  /\ intent \in [Entries -> Intents]
  /\ desired_intent \in [Entries -> Intents]
  /\ pid \in [Entries -> Pids \cup {NoPid}]
  /\ sample_ctxt \in [Entries -> Pids \cup {NoPid}]

(* intent is set to INTENT_START; desired_intent is left as calloc made    *)
(* it, and INTENT_START is the enumeration's zero.                         *)
TableInit ==
  /\ intent = [e \in Entries |-> "START"]
  /\ desired_intent = [e \in Entries |-> "START"]
  /\ pid = [e \in Entries |-> NoPid]
  /\ sample_ctxt = [e \in Entries |-> NoPid]

RememberedPids == {pid[e] : e \in Entries} \ {NoPid}

(* The pids posix_spawn can return: no process and no group has them.      *)
FreePids ==
  {p \in Pids : /\ proc[p] = "free"
                /\ p \notin helper
                /\ PidReuse \/ p \notin RememberedPids}

IsAlive(e) == pid[e] # NoPid /\ KillSucceeds(pid[e])

(* fiveman_process_state_signal: killpg on the pid the row remembers.      *)
Signal(e, sig) ==
  IF pid[e] # NoPid THEN Killpg(pid[e], sig) ELSE UNCHANGED childVars

(* Variant with a defect: the walk misses the last row.                    *)
ReapAllButTheLast == Waited({pid[e] : e \in 1..(N - 1)} \ {NoPid})

(* fiveman_process_state_table_reap_zombie_processes: waits, without       *)
(* blocking, for the leader of every row that has one.                     *)
ReapZombieProcesses == Waited(RememberedPids)

DesiresIntent(e, i) == desired_intent' = [desired_intent EXCEPT ![e] = i]

TableDesiresIntent(i) == desired_intent' = [e \in Entries |-> i]
=============================================================================
