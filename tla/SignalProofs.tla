---------------------------- MODULE SignalProofs ----------------------------
(***************************************************************************)
(* Proof that fiveman tells no process to die that it does not mean to:    *)
(* outside of a termination it signals for a row whose adopted intent is   *)
(* STOP and for no other.                                                  *)
(*                                                                         *)
(* The argument: the status thread tests the intent of a row in one step   *)
(* and signals in a later one, without the mutex.  In between nobody can   *)
(* change the intent, as intents are adopted by that same thread and at    *)
(* the top of a pass only; and the walk that signals every row is one of a *)
(* termination (GraceIInv of QuitProofs).                                  *)
(***************************************************************************)
EXTENDS QuitProofs

(* The row about to be sent SIGTERM is still to be stopped.                *)
StopGuarded == status = "term" => intent[row] = "STOP"

SignalIInv == WalkIInv /\ GraceIInv /\ StopGuarded
-----------------------------------------------------------------------------
LEMMA InitSignals == Init => SignalIInv
<1>1. Init => StopGuarded
  BY DEF Init, ThreadInit, StopGuarded
<1>2. QED
  BY <1>1, InitWalkIInv, InitGrace DEF SignalIInv

(* A row gets to "term" by the test of its intent, and leaves it by the    *)
(* signal; intents are adopted elsewhere.                                  *)
LEMMA StatusGuards ==
  ASSUME WalkIInv, StopGuarded, StatusStep
  PROVE  StopGuarded'
<1>1. row \in Entries
  BY DEF WalkIInv, IInv, TypeOK, ThreadTypeOK
<1>2. CASE Converge
  <2>1. intent' = intent
    BY <1>2 DEF Converge, tableVars
  <2>2. status' = "term" => intent[row] = "STOP" /\ row' = row
    BY <1>2 DEF Converge, RowDone
  <2>3. QED
    BY <2>1, <2>2 DEF StopGuarded
<1>3. CASE Reflect \/ Reap \/ Spawn \/ AssignPid \/ Attach \/ ConvergeStop
           \/ Observe \/ Publish
  <2>1. status' # "term"
    BY <1>3 DEF Reflect, Reap, Spawn, AssignPid, Attach, ConvergeStop, Observe,
                Publish, RowDone
  <2>2. QED
    BY <2>1 DEF StopGuarded
<1>4. CASE SpawnFails \/ AttachFails
  BY <1>4 DEF SpawnFails, AttachFails, tableVars, threadVars, StopGuarded
<1>5. QED
  BY <1>2, <1>3, <1>4 DEF StatusStep

LEMMA NextSignals == SignalIInv /\ [Next]_vars => SignalIInv'
<1> SUFFICES ASSUME SignalIInv, [Next]_vars PROVE SignalIInv'
  OBVIOUS
<1>1. WalkIInv' /\ GraceIInv'
  BY NextWalks, NextGrace DEF SignalIInv
<1>2. CASE StatusStep
  BY <1>1, <1>2, StatusGuards DEF SignalIInv
<1>3. CASE ~StatusStep
  <2>1. UNCHANGED <<status, row, intent>>
    BY <1>3
       DEF Next, StatusThreadRuns, MainThreadRuns, MainStep, SetupScreen,
           KeyNone, KeyQuit, KeyMove, KeyPage, PagerAnswers, PagerReturns,
           KeyDesires, TermLock, Count, CountLast, SignalRow, LeaveLoop,
           BeginTermination, NextTurn, StatusThreadDestroy, Finish,
           HandleSigchld, HandleSigint, Tick, ChildrenRun, Over, vars,
           systemVars, tableVars, threadVars
  <2>2. QED
    BY <1>1, <2>1 DEF SignalIInv, StopGuarded
<1>4. QED
  BY <1>2, <1>3

LEMMA SignalInvariance == Spec => []SignalIInv
BY InitSignals, NextSignals, PTL DEF Spec
-----------------------------------------------------------------------------
(* killpg tells the leader of its group and no other.                      *)
LEMMA SignalTells ==
  ASSUME ChildrenTypeOK, NEW e, NEW sig, Signal(e, sig),
         NEW p \in Pids, proc[p] = "alive", proc'[p] = "dying"
  PROVE  pid[e] = p
BY DEF Signal, Killpg, childVars, ChildrenTypeOK

(* A process is told to die by one of the two signals fiveman sends: exits *)
(* and waits make no process dying, and posix_spawn makes one alive.       *)
LEMMA OnlySignalsTell ==
  ASSUME ChildrenTypeOK, [Next]_vars,
         NEW p \in Pids, proc[p] = "alive", proc'[p] = "dying"
  PROVE  ConvergeStop \/ SignalRow
<1>1. proc' # proc
  OBVIOUS
<1>2. ASSUME NEW ps, Waited(ps) PROVE FALSE
  BY <1>2 DEF Waited
<1>3. ASSUME NEW q \in Pids, LeaderExits(q) \/ HelperExits(q) PROVE FALSE
  BY <1>3 DEF LeaderExits, ExitAsZombie, ExitReaped, HelperExits, ChildrenTypeOK
<1>4. ASSUME NEW q \in Pids, NEW e, Spawned(q, e) PROVE FALSE
  BY <1>4 DEF Spawned, ChildrenTypeOK
<1>5. ~HandleSigchld /\ ~ChildrenRun
  BY <1>2, <1>3 DEF HandleSigchld, ReapZombieProcesses, ChildrenRun
<1>6. ~HandleSigint /\ ~Tick /\ ~Over /\ ~(UNCHANGED vars)
  BY <1>1 DEF HandleSigint, Tick, Over, vars, systemVars, childVars
<1>7. CASE StatusStep
  <2>1. ~Reap /\ ~Spawn
    BY <1>2, <1>4 DEF Reap, ReapZombieProcesses, Spawn, FreePids
  <2>2. QED
    BY <1>1, <1>7, <2>1
       DEF StatusStep, Reflect, Converge, SpawnFails, AssignPid, Attach,
           AttachFails, Observe, Publish, childVars
<1>8. CASE MainStep
  BY <1>1, <1>8
     DEF MainStep, SetupScreen, KeyNone, KeyQuit, KeyMove, KeyPage,
         PagerAnswers, PagerReturns, KeyDesires, TermLock, Count, CountLast,
         LeaveLoop, BeginTermination, NextTurn, StatusThreadDestroy, Finish,
         systemVars, childVars
<1>9. QED
  BY <1>5, <1>6, <1>7, <1>8 DEF Next, StatusThreadRuns, MainThreadRuns

(* Whatever keys are pressed, whenever the two threads meet and whichever  *)
(* children come and go: outside of a termination no process is told to    *)
(* die but for a row with its pid whose adopted intent is STOP             *)
(* (fiveman_process_state_converge, fiveman_process_state_signal).         *)
THEOREM SignalsMeant == Spec => SignalsAreMeant
<1>1. ASSUME SignalIInv, [Next]_vars, NEW p \in Pids, proc[p] = "alive",
             proc'[p] = "dying"
      PROVE  is_terminating \/ \E e \in Entries : pid[e] = p /\ intent[e] = "STOP"
  <2>1. ChildrenTypeOK /\ row \in Entries
    BY <1>1 DEF SignalIInv, WalkIInv, IInv, TypeOK, ThreadTypeOK
  <2>2. CASE ConvergeStop
    <3>1. status = "term" /\ Signal(row, "SIGTERM")
      BY <2>2 DEF ConvergeStop
    <3>2. pid[row] = p
      BY <1>1, <2>1, <3>1, SignalTells
    <3>3. intent[row] = "STOP"
      BY <1>1, <3>1 DEF SignalIInv, StopGuarded
    <3>4. QED
      BY <2>1, <3>2, <3>3
  <2>3. CASE SignalRow
    <3>1. main = "signal"
      BY <2>3 DEF SignalRow
    <3>2. QED
      BY <1>1, <3>1 DEF SignalIInv, GraceIInv
  <2>4. QED
    BY <1>1, <2>1, <2>2, <2>3, OnlySignalsTell
<1>2. ASSUME SignalIInv, [Next]_vars
      PROVE  \A p \in Pids : proc[p] = "alive" /\ proc'[p] = "dying" =>
               is_terminating \/ \E e \in Entries : pid[e] = p /\ intent[e] = "STOP"
  BY <1>1, <1>2
<1>3. QED
  BY SignalInvariance, <1>2, PTL DEF Spec, SignalsAreMeant
=============================================================================
