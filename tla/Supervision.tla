---------------------------- MODULE Supervision -----------------------------
(***************************************************************************)
(* What fiveman promises about the processes it supervises, with no        *)
(* thread, lock, process id, signal or table walk in sight.                *)
(*                                                                         *)
(* Each entry of the Procfile has at most one instance.  The user states   *)
(* wishes (want); now and then the supervisor adopts all of them at once   *)
(* as its plan; it launches an instance only of an entry that is planned   *)
(* to run and has none; an instance may end at any time; and once the      *)
(* supervisor is closed it launches nothing more.                          *)
(***************************************************************************)
CONSTANT Entries

VARIABLES
  want,   \* what the user wants of each entry
  plan,   \* the wishes the supervisor last adopted
  up,     \* the entries that have an instance
  open    \* the supervisor is there

vars == <<want, plan, up, open>>

Init ==
  /\ want = [e \in Entries |-> "START"]
  /\ plan = [e \in Entries |-> "START"]
  /\ up = {}
  /\ open = TRUE

Wish(e, i) ==
  /\ open
  /\ want' = [want EXCEPT ![e] = i]
  /\ UNCHANGED <<plan, up, open>>

StopAll ==
  /\ open
  /\ want' = [e \in Entries |-> "STOP"]
  /\ UNCHANGED <<plan, up, open>>

Adopt ==
  /\ open
  /\ plan' = want
  /\ UNCHANGED <<want, up, open>>

Launch(e) ==
  /\ open
  /\ e \notin up /\ plan[e] = "START"
  /\ up' = up \cup {e}
  /\ UNCHANGED <<want, plan, open>>

(* Instances end on their own, and one look at them may find several gone. *)
End(es) ==
  /\ up' = up \ es
  /\ UNCHANGED <<want, plan, open>>

Close ==
  /\ open
  /\ open' = FALSE
  /\ UNCHANGED <<want, plan, up>>

Next ==
  \/ \E e \in Entries, i \in {"START", "STOP"} : Wish(e, i)
  \/ StopAll
  \/ Adopt
  \/ \E e \in Entries : Launch(e)
  \/ \E es \in SUBSET Entries : End(es)
  \/ Close

Spec == Init /\ [][Next]_vars
=============================================================================
