--------------------------- MODULE FivemanProofs ----------------------------
(***************************************************************************)
(* Proofs, for every number of entries, every set of process ids and every *)
(* choice of the fault switches, of what Safety.cfg checks on an instance. *)
(*                                                                         *)
(* The argument: only the status thread creates processes, it is alone in  *)
(* doing so, and between its is_alive test and the assignment of the new   *)
(* pid nobody else can create one.  Every other step is "quiet": processes *)
(* may end but the table and the thread stay as they are.                  *)
(***************************************************************************)
EXTENDS Fiveman, TLAPS

(* What no step but posix_spawn breaks: there is no process that was not   *)
(* there, and a process that was told to die stays told.                   *)
NoNewProcess ==
  \A p \in Pids : proc'[p] # "free" =>
    /\ proc[p] # "free"
    /\ owner'[p] = owner[p]
    /\ proc'[p] = "alive" => proc[p] = "alive"

(* The status thread is going to start, or has started, only what has no   *)
(* process and what it was told to start.                                  *)
SpawnGuarded ==
  /\ status = "spawn" => ~IsAlive(row)
  /\ status = "assign" => pid[row] = subchild \/ ~IsAlive(row)
  /\ status \in {"spawn", "assign", "attach"} => intent[row] = "START"

Tracked ==
  \A p \in Pids : \A e \in Entries : Occupies(p, e) =>
    \/ pid[e] = p
    \/ status = "assign" /\ row = e /\ subchild = p

Owned == \A p \in Pids : proc[p] # "free" => owner[p] \in Entries

Attached ==
  status # "done" =>
    \A e \in Entries : pid[e] # NoPid /\ ~(status = "attach" /\ row = e)
                         => sample_ctxt[e] = pid[e]

(* The rows this pass has converged already.                               *)
Converged(e) ==
  \/ status \in {"observe", "publish", "done"}
  \/ status \in {"converge", "spawn", "assign", "attach", "term"} /\ e < row

(* A row whose adopted intent is STOP and that was converged has been told *)
(* to die.                                                                 *)
StopsTold ==
  \A e \in Entries : Converged(e) /\ intent[e] = "STOP" =>
    \A p \in Pids : Occupies(p, e) /\ proc[p] = "alive" => e \in Stubborn

ExitedLast == fiveman = "exited" => status = "done"

(* A pass starts at the first row.                                         *)
PassStarts == status \in {"reflect", "reap", "observe", "publish"} => row = 1

IInv ==
  /\ TypeOK /\ PassStarts /\ SpawnGuarded /\ Owned /\ Tracked
  /\ Attached /\ StopsTold /\ ExitedLast
-----------------------------------------------------------------------------
(* The variables only the status thread touches while it runs.             *)
threadOwned == <<intent, pid, sample_ctxt, status, row, subchild>>

(* A step that leaves the table and the thread alone and creates nothing.  *)
Quiet ==
  /\ NoNewProcess
  /\ fiveman' = "exited" => fiveman = "exited"
  /\ UNCHANGED threadOwned

(* The system calls keep the children well typed, and none but posix_spawn *)
(* creates a process (killpg and waitpid in fiveman_process_state.c).      *)
LEMMA KillpgFacts ==
  ASSUME ChildrenTypeOK, NEW p, NEW sig, Killpg(p, sig)
  PROVE  ChildrenTypeOK' /\ NoNewProcess
BY DEF Killpg, OwnersAfter, ChildrenTypeOK, LeaderStates, NoNewProcess

LEMMA WaitedFacts ==
  ASSUME ChildrenTypeOK, NEW ps, Waited(ps), sigchld' \in BOOLEAN
  PROVE  ChildrenTypeOK' /\ NoNewProcess
BY DEF Waited, OwnersAfter, ChildrenTypeOK, LeaderStates, NoNewProcess

LEMMA ExitFacts ==
  ASSUME ChildrenTypeOK, NEW p \in Pids, LeaderExits(p) \/ HelperExits(p)
  PROVE  ChildrenTypeOK' /\ NoNewProcess
<1>1. CASE ExitAsZombie(p)
  BY <1>1 DEF ExitAsZombie, Executing, ChildrenTypeOK, LeaderStates, NoNewProcess
<1>2. CASE ExitReaped(p)
  BY <1>2 DEF ExitReaped, Executing, OwnersAfter, ChildrenTypeOK, LeaderStates,
              NoNewProcess
<1>3. CASE HelperExits(p)
  BY <1>3 DEF HelperExits, OwnersAfter, ChildrenTypeOK, LeaderStates, NoNewProcess
<1>4. QED
  BY <1>1, <1>2, <1>3 DEF LeaderExits

LEMMA SignalFacts ==
  ASSUME ChildrenTypeOK, NEW e, NEW sig, Signal(e, sig)
  PROVE  ChildrenTypeOK' /\ NoNewProcess
<1>1. CASE pid[e] # NoPid
  BY <1>1, KillpgFacts DEF Signal
<1>2. CASE pid[e] = NoPid
  BY <1>2 DEF Signal, childVars, ChildrenTypeOK, NoNewProcess
<1>3. QED
  BY <1>1, <1>2

LEMMA SpawnedFacts ==
  ASSUME ChildrenTypeOK, NEW p \in Pids, NEW e \in Entries, Spawned(p, e)
  PROVE  ChildrenTypeOK'
BY DEF Spawned, ChildrenTypeOK, LeaderStates
-----------------------------------------------------------------------------
(* The rows a walk over the table starts at, steps to and ends at.         *)
LEMMA EntryFacts ==
  /\ 1 \in Entries /\ N \in Entries
  /\ \A e \in Entries : e \in Nat /\ (e < N => e + 1 \in Entries)
BY ChildrenAssumption DEF ChildrenAssumption, Entries

LEMMA TimeoutFacts == 0 \in 0..TermTimeout /\ 0 \in 0..MaxQuits
BY ScreenAssumption DEF ScreenAssumption

LEMMA InitTypeOK == Init => TypeOK
<1> SUFFICES ASSUME Init PROVE TypeOK
  OBVIOUS
<1>1. ChildrenTypeOK
  BY DEF Init, ChildrenInit, ChildrenTypeOK, LeaderStates
<1>2. TableTypeOK
  BY DEF Init, TableInit, TableTypeOK, Intents
<1>3. ThreadTypeOK
  BY EntryFacts DEF Init, ThreadInit, ThreadTypeOK, StatusSteps
<1>4. ScreenTypeOK
  BY EntryFacts, TimeoutFacts DEF Init, ScreenInit, ScreenTypeOK, MainSteps
<1>5. sigint \in {"handler", "handler_once", "default"}
  BY DEF Init, SigintInit
<1>6. QED
  BY <1>1, <1>2, <1>3, <1>4, <1>5 DEF TypeOK

(* The end of a row's turn leaves the thread at a row of the table.        *)
LEMMA RowDoneFacts ==
  ASSUME row \in Entries, RowDone
  PROVE  /\ row' \in Entries
         /\ status' \in {"converge", "observe"}
         /\ status' = "converge" => row' = row + 1
BY EntryFacts DEF RowDone, Entries

(* Each step of the status thread keeps the types, and each but Spawn      *)
(* creates no process.                                                     *)
LEMMA StatusStepFacts ==
  ASSUME ChildrenTypeOK, TableTypeOK, ThreadTypeOK, StatusStep
  PROVE  /\ ChildrenTypeOK' /\ TableTypeOK' /\ ThreadTypeOK'
         /\ Spawn \/ NoNewProcess
<1> USE DEF TableTypeOK, ThreadTypeOK, Intents, StatusSteps
<1>u. childVars' = childVars => ChildrenTypeOK' /\ NoNewProcess
  BY DEF childVars, ChildrenTypeOK, NoNewProcess
<1>k. UNCHANGED <<proc, owner, helper, sigchld>> /\ fiveman' = "killed"
        => ChildrenTypeOK' /\ NoNewProcess
  BY DEF ChildrenTypeOK, NoNewProcess
<1>1. CASE Reflect
  BY <1>1, <1>u DEF Reflect
<1>2. CASE Reap
  <2>1. ChildrenTypeOK' /\ NoNewProcess
    BY <1>2, WaitedFacts DEF Reap, ReapZombieProcesses, ChildrenTypeOK
  <2>2. QED
    BY <1>2, <2>1 DEF Reap, tableVars
<1>3. CASE Converge
  <2>1. row' \in Entries /\ status' \in StatusSteps
    BY <1>3, RowDoneFacts DEF Converge
  <2>2. QED
    BY <1>3, <1>u, <2>1 DEF Converge, tableVars
<1>4. CASE Spawn
  <2>1. PICK p \in FreePids : Spawned(p, row) /\ subchild' = p
    BY <1>4 DEF Spawn
  <2>2. p \in Pids
    BY DEF FreePids
  <2>3. ChildrenTypeOK'
    BY <2>1, <2>2, SpawnedFacts
  <2>4. QED
    BY <1>4, <2>1, <2>2, <2>3 DEF Spawn, tableVars
<1>5. CASE SpawnFails
  BY <1>5, <1>k DEF SpawnFails, tableVars, threadVars
<1>6. CASE AssignPid
  BY <1>6, <1>u DEF AssignPid
<1>7. CASE Attach
  <2>1. row' \in Entries /\ status' \in StatusSteps
    BY <1>7, RowDoneFacts DEF Attach
  <2>2. QED
    BY <1>7, <1>u, <2>1 DEF Attach
<1>8. CASE AttachFails
  BY <1>8, <1>k DEF AttachFails, tableVars, threadVars
<1>9. CASE ConvergeStop
  <2>1. row' \in Entries /\ status' \in StatusSteps
    BY <1>9, RowDoneFacts DEF ConvergeStop
  <2>2. ChildrenTypeOK' /\ NoNewProcess
    BY <1>9, SignalFacts DEF ConvergeStop
  <2>3. QED
    BY <1>9, <2>1, <2>2 DEF ConvergeStop, tableVars
<1>10. CASE Observe
  BY <1>10, <1>u DEF Observe, tableVars
<1>11. CASE Publish
  BY <1>11, <1>u DEF Publish, tableVars
<1>12. QED
  BY <1>1, <1>2, <1>3, <1>4, <1>5, <1>6, <1>7, <1>8, <1>9, <1>10, <1>11
     DEF StatusStep

(* Each step of the main thread keeps the types; all but the last are      *)
(* quiet, and the last is taken after the status thread has ended.         *)
LEMMA MainStepFacts ==
  ASSUME ChildrenTypeOK, TableTypeOK, ThreadTypeOK, ScreenTypeOK, MainStep
  PROVE  /\ ChildrenTypeOK' /\ TableTypeOK' /\ ThreadTypeOK' /\ ScreenTypeOK'
         /\ Quiet \/ Finish
<1> USE DEF TableTypeOK, ThreadTypeOK, ScreenTypeOK, Intents, MainSteps, Quiet,
            threadOwned, tableVars, threadVars, systemVars, flagVars, walkVars,
            userVars, AfterKey
<1>u. childVars' = childVars
        => ChildrenTypeOK' /\ NoNewProcess /\ fiveman' = fiveman
  BY DEF childVars, ChildrenTypeOK, NoNewProcess
<1>1. CASE SetupScreen
  BY <1>1, <1>u DEF SetupScreen
<1>2. CASE KeyNone
  BY <1>2, <1>u DEF KeyNone
<1>3. CASE KeyQuit
  BY <1>3, <1>u, ScreenAssumption DEF KeyQuit, ScreenAssumption
<1>4. CASE KeyMove
  <2>1. highlighted_row' \in Entries
    <3>1. /\ highlighted_row < N => highlighted_row + 1 \in Entries
          /\ highlighted_row > 1 => highlighted_row - 1 \in Entries
      BY ChildrenAssumption DEF ChildrenAssumption, Entries
    <3>2. \/ highlighted_row > 1 /\ highlighted_row' = highlighted_row - 1
          \/ highlighted_row < N /\ highlighted_row' = highlighted_row + 1
      BY <1>4 DEF KeyMove
    <3>3. QED
      BY <3>1, <3>2
  <2>2. QED
    BY <1>4, <1>u, <2>1 DEF KeyMove
<1>5. CASE KeyPage
  <2>1. /\ ChildrenTypeOK' /\ NoNewProcess
        /\ fiveman' = "exited" => fiveman = "exited"
    BY <1>5 DEF KeyPage, ChildrenTypeOK, NoNewProcess
  <2>2. QED
    BY <1>5, <2>1 DEF KeyPage
<1>6. CASE PagerAnswers \/ PagerReturns
  BY <1>6, <1>u DEF PagerAnswers, PagerReturns
<1>7. ASSUME NEW i \in Intents, KeyDesires(i)
      PROVE  /\ ChildrenTypeOK' /\ TableTypeOK' /\ ThreadTypeOK'
             /\ ScreenTypeOK' /\ Quiet
  BY <1>7, <1>u DEF KeyDesires, DesiresIntent
<1>8. CASE TermLock
  BY <1>8, <1>u, EntryFacts DEF TermLock
<1>9. CASE Count
  BY <1>9, <1>u, EntryFacts DEF Count, Entries
<1>10. CASE CountLast
  BY <1>10, <1>u, EntryFacts DEF CountLast
<1>11. CASE SignalRow
  <2>1. ChildrenTypeOK' /\ NoNewProcess /\ fiveman' = fiveman
    <3>1. PICK sig : Signal(cursor, sig)
      BY <1>11 DEF SignalRow
    <3>2. fiveman' = fiveman
      BY <3>1 DEF Signal, Killpg, childVars
    <3>3. QED
      BY <3>1, <3>2, SignalFacts
  <2>2. cursor' \in Entries /\ main' \in MainSteps /\ mutex' \in {"none", "main"}
    BY <1>11, EntryFacts DEF SignalRow, Entries
  <2>3. QED
    BY <1>11, <2>1, <2>2 DEF SignalRow
<1>12. CASE LeaveLoop
  BY <1>12, <1>u DEF LeaveLoop
<1>13. CASE BeginTermination
  BY <1>13, <1>u, TimeoutFacts DEF BeginTermination, TableDesiresIntent
<1>14. CASE NextTurn
  BY <1>14, <1>u DEF NextTurn
<1>15. CASE StatusThreadDestroy
  BY <1>15, <1>u DEF StatusThreadDestroy
<1>16. CASE Finish
  BY <1>16 DEF Finish, ChildrenTypeOK
<1>17. QED
  BY <1>1, <1>2, <1>3, <1>4, <1>5, <1>6, <1>7, <1>8, <1>9, <1>10, <1>11, <1>12,
     <1>13, <1>14, <1>15, <1>16 DEF MainStep

(* Every step keeps the types and is quiet, or a step of the status        *)
(* thread, or the return of main.                                          *)
LEMMA NextFacts ==
  ASSUME TypeOK, [Next]_vars
  PROVE  /\ TypeOK'
         /\ \/ Quiet
            \/ fiveman = "running" /\ (StatusStep \/ Finish)
<1> USE DEF TypeOK
<1>r. screenVars' = screenVars => ScreenTypeOK'
  BY DEF screenVars, flagVars, walkVars, userVars, ScreenTypeOK
<1>t. /\ tableVars' = tableVars => TableTypeOK'
      /\ threadVars' = threadVars => ThreadTypeOK'
  BY DEF tableVars, threadVars, TableTypeOK, ThreadTypeOK
<1>q. tableVars' = tableVars /\ threadVars' = threadVars
        => UNCHANGED threadOwned
  BY DEF tableVars, threadVars, threadOwned
<1>u. childVars' = childVars
        => ChildrenTypeOK' /\ NoNewProcess /\ fiveman' = fiveman
  BY DEF childVars, ChildrenTypeOK, NoNewProcess
<1>1. CASE fiveman = "running" /\ StatusThreadRuns
  BY <1>1, <1>r, StatusStepFacts DEF StatusThreadRuns
<1>2. CASE fiveman = "running" /\ MainThreadRuns
  BY <1>2, MainStepFacts DEF MainThreadRuns
<1>3. CASE HandleSigchld
  <2>1. ChildrenTypeOK' /\ NoNewProcess
    BY <1>3, WaitedFacts DEF HandleSigchld, ReapZombieProcesses
  <2>2. fiveman' = fiveman
    BY <1>3 DEF HandleSigchld, ReapZombieProcesses, Waited
  <2>3. QED
    BY <1>3, <1>r, <1>t, <1>q, <2>1, <2>2 DEF HandleSigchld, Quiet
<1>4. CASE HandleSigint
  <2>1. quits' \in 0..MaxQuits
    BY <1>4, ScreenAssumption DEF HandleSigint, ScreenAssumption, ScreenTypeOK
  <2>2. ChildrenTypeOK' /\ NoNewProcess /\ (fiveman' = "exited" => fiveman = "exited")
    BY <1>4 DEF HandleSigint, ChildrenTypeOK, NoNewProcess
  <2>3. TableTypeOK' /\ ThreadTypeOK' /\ UNCHANGED threadOwned
    BY <1>4, <1>t, <1>q DEF HandleSigint
  <2>4. ScreenTypeOK'
    BY <1>4, <2>1 DEF HandleSigint, ScreenTypeOK, walkVars
  <2>5. sigint' \in {"handler", "handler_once", "default"}
    BY <1>4 DEF HandleSigint
  <2>6. QED
    BY <2>2, <2>3, <2>4, <2>5 DEF Quiet
<1>5. CASE Tick
  <2>1. waited' \in 0..TermTimeout
    BY <1>5, ScreenAssumption DEF Tick, ScreenAssumption, ScreenTypeOK
  <2>2. ScreenTypeOK'
    BY <1>5, <2>1 DEF Tick, ScreenTypeOK, flagVars, walkVars, userVars
  <2>3. QED
    BY <1>5, <1>t, <1>q, <1>u, <2>2 DEF Tick, systemVars, Quiet
<1>6. CASE ChildrenRun
  <2>1. PICK p \in Pids : LeaderExits(p) \/ HelperExits(p)
    BY <1>6 DEF ChildrenRun
  <2>2. ChildrenTypeOK' /\ NoNewProcess
    BY <2>1, ExitFacts
  <2>3. fiveman' = fiveman
    BY <2>1 DEF LeaderExits, ExitAsZombie, ExitReaped, HelperExits
  <2>4. QED
    BY <1>6, <1>r, <1>t, <1>q, <2>2, <2>3 DEF ChildrenRun, Quiet
<1>7. CASE Over \/ UNCHANGED vars
  <2>1. /\ UNCHANGED <<childVars, tableVars, threadVars, screenVars>>
        /\ sigint' = sigint
    BY <1>7 DEF Over, vars
  <2>2. QED
    BY <2>1, <1>r, <1>t, <1>q, <1>u DEF Quiet
<1>8. QED
  BY <1>1, <1>2, <1>3, <1>4, <1>5, <1>6, <1>7 DEF Next
-----------------------------------------------------------------------------
LEMMA InitIInv == Init => IInv
<1> SUFFICES ASSUME Init PROVE IInv
  OBVIOUS
<1>1. TypeOK
  BY InitTypeOK
<1>2. PassStarts /\ SpawnGuarded /\ ExitedLast
  BY DEF Init, ThreadInit, ChildrenInit, PassStarts, SpawnGuarded, ExitedLast
<1>3. Owned /\ Tracked /\ StopsTold
  BY DEF Init, ChildrenInit, Owned, Tracked, StopsTold, Occupies
<1>4. Attached
  BY DEF Init, TableInit, Attached
<1>5. QED
  BY <1>1, <1>2, <1>3, <1>4 DEF IInv

(* A quiet step takes processes away, which no part of the invariant       *)
(* minds.                                                                  *)
LEMMA QuietKeeps ==
  ASSUME IInv, TypeOK', Quiet
  PROVE  IInv'
<1> USE DEF Quiet, threadOwned
<1>1. \A p \in Pids, e \in Entries : Occupies(p, e)' => Occupies(p, e)
  BY DEF NoNewProcess, Occupies
<1>2. IsAlive(row)' => IsAlive(row)
  BY DEF NoNewProcess, IsAlive, KillSucceeds
<1>3. SpawnGuarded'
  BY <1>2 DEF IInv, SpawnGuarded
<1>4. Owned' /\ Tracked'
  BY <1>1 DEF IInv, Owned, Tracked, NoNewProcess
<1>5. Attached'
  BY DEF IInv, Attached
<1>6. StopsTold'
  BY <1>1 DEF IInv, StopsTold, Converged, NoNewProcess, Occupies
<1>7. PassStarts' /\ ExitedLast'
  BY DEF IInv, PassStarts, ExitedLast
<1>8. QED
  BY <1>3, <1>4, <1>5, <1>6, <1>7 DEF IInv

LEMMA FinishKeeps ==
  ASSUME IInv, TypeOK', Finish
  PROVE  IInv'
<1> USE DEF Finish, threadVars
<1>1. SpawnGuarded'
  BY DEF IInv, SpawnGuarded
<1>2. Owned' /\ Tracked'
  BY DEF IInv, Owned, Tracked, Occupies
<1>3. Attached'
  BY DEF IInv, Attached
<1>4. StopsTold'
  BY DEF IInv, StopsTold, Converged, Occupies
<1>5. PassStarts' /\ ExitedLast'
  BY DEF IInv, PassStarts, ExitedLast
<1>6. QED
  BY <1>1, <1>2, <1>3, <1>4, <1>5 DEF IInv

(* While a row waits to be spawned it has no process, the one just spawned *)
(* excepted.                                                               *)
LEMMA NothingToSpawnOver ==
  ASSUME IInv
  PROVE  /\ status = "spawn" => \A q \in Pids : ~Occupies(q, row)
         /\ status = "assign" => \A q \in Pids : Occupies(q, row) => q = subchild
<1>1. ASSUME NEW q \in Pids, Occupies(q, row), pid[row] = q
      PROVE  IsAlive(row)
  BY <1>1, ChildrenAssumption
     DEF Occupies, IsAlive, KillSucceeds, ChildrenAssumption
<1>2. row \in Entries
  BY DEF IInv, TypeOK, ThreadTypeOK
<1>3. QED
  BY <1>1, <1>2 DEF IInv, SpawnGuarded, Tracked

(* The end of a row's turn: no row has been converged but those that were, *)
(* and this one.                                                           *)
LEMMA RowDoneConverges ==
  ASSUME ThreadTypeOK, RowDone, NEW e \in Entries, Converged(e)',
         status \in {"converge", "attach", "term"}
  PROVE  Converged(e) \/ e = row
<1>1. e \in Nat /\ e <= N /\ row \in Nat /\ row <= N
  BY ChildrenAssumption DEF ChildrenAssumption, Entries, ThreadTypeOK
<1>2. CASE row < N
  BY <1>1, <1>2 DEF RowDone, Converged
<1>3. CASE ~(row < N)
  BY <1>1, <1>3, ChildrenAssumption DEF RowDone, Converged, ChildrenAssumption
<1>4. QED
  BY <1>2, <1>3

LEMMA StatusKeeps ==
  ASSUME IInv, TypeOK', StatusStep, fiveman = "running"
  PROVE  IInv'
<1> USE DEF IInv, PassStarts
<1>t. ChildrenTypeOK /\ TableTypeOK /\ ThreadTypeOK
  BY DEF TypeOK
<1>o. childVars' = childVars => \A p \in Pids : \A e \in Entries :
        (Occupies(p, e)' <=> Occupies(p, e)) /\ proc' = proc
  BY DEF childVars, Occupies
<1>n. NoNewProcess => \A p \in Pids : \A e \in Entries :
        Occupies(p, e)' => Occupies(p, e) /\ (proc'[p] = "alive" => proc[p] = "alive")
  BY DEF NoNewProcess, Occupies
<1>w. NoNewProcess => Owned'
  BY DEF NoNewProcess, Owned
<1>c. UNCHANGED <<proc, owner>> => Owned'
  BY DEF Owned
<1>v. childVars' = childVars => Owned'
  BY <1>c DEF childVars
<1>x. status # "done" /\ (fiveman' = fiveman \/ fiveman' = "killed") => ExitedLast'
  BY DEF ExitedLast
<1>1. CASE Reflect
  <2>1. PassStarts' /\ SpawnGuarded' /\ Attached' /\ ExitedLast'
    BY <1>1 DEF Reflect, SpawnGuarded, Attached, ExitedLast, childVars
  <2>2. Tracked' /\ StopsTold'
    BY <1>1, <1>o DEF Reflect, Tracked, StopsTold, Converged
  <2>3. QED
    BY <2>1, <2>2, <1>1, <1>v DEF Reflect
<1>2. CASE Reap
  <2>1. NoNewProcess /\ fiveman' = fiveman
    BY <1>2, <1>t, WaitedFacts DEF Reap, ReapZombieProcesses, ChildrenTypeOK, Waited
  <2>2. PassStarts' /\ SpawnGuarded' /\ Attached' /\ ExitedLast'
    BY <1>2, <2>1 DEF Reap, SpawnGuarded, Attached, ExitedLast, tableVars
  <2>3. Tracked'
    BY <1>2, <1>n, <2>1 DEF Reap, Tracked, tableVars
  <2>4. StopsTold'
    <3>1. \A e \in Entries : ~Converged(e)'
      <4>1. status' = "converge" /\ row' = 1
        BY <1>2 DEF Reap, PassStarts
      <4>2. QED
        BY <4>1, EntryFacts DEF Converged, Entries
    <3>2. QED
      BY <3>1 DEF StopsTold
  <2>5. QED
    BY <2>1, <2>2, <2>3, <2>4, <1>w
<1>3. CASE Converge
  <2>1. Tracked' /\ ExitedLast'
    BY <1>3, <1>o, <1>x, RowDoneFacts DEF Converge, Tracked, childVars, tableVars
  <2>2. Attached'
    BY <1>3, <1>t, RowDoneFacts DEF Converge, Attached, tableVars
  <2>3. SpawnGuarded' /\ PassStarts'
    BY <1>3, <1>t, RowDoneFacts
       DEF Converge, SpawnGuarded, tableVars, childVars, IsAlive, KillSucceeds, RowDone
  <2>4. StopsTold'
    <3> SUFFICES ASSUME NEW e \in Entries, Converged(e)', intent'[e] = "STOP",
                        NEW p \in Pids, Occupies(p, e)', proc'[p] = "alive"
                 PROVE  e \in Stubborn
      BY DEF StopsTold
    <3>1. intent[e] = "STOP" /\ Occupies(p, e) /\ proc[p] = "alive"
      BY <1>3, <1>o DEF Converge, childVars, tableVars
    <3>2. CASE Converged(e)
      BY <3>1, <3>2 DEF StopsTold
    <3>3. CASE ~Converged(e)
      <4>1. e = row /\ RowDone
        <5>1. CASE RowDone
          BY <1>t, <5>1, <1>3, <3>3, RowDoneConverges DEF Converge
        <5>2. CASE row' = row /\ status' \in {"spawn", "term"}
          BY <5>2, <1>3, <3>3 DEF Converged, Converge
        <5>3. QED
          BY <5>1, <5>2, <1>3 DEF Converge
      <4>2. ~IsAlive(row)
        <5>1. \/ intent[row] = "START"
              \/ intent[row] = "STOP" /\ IsAlive(row) /\ status' = "term"
              \/ ~IsAlive(row)
          BY <1>3, <1>t DEF Converge, TableTypeOK, Intents
        <5>2. status' # "term"
          BY <4>1, <1>t, RowDoneFacts DEF ThreadTypeOK
        <5>3. QED
          BY <5>1, <5>2, <4>1, <3>1
      <4>3. pid[row] = p
        BY <3>1, <4>1, <1>3 DEF Tracked, Converge
      <4>4. QED
        BY <4>2, <4>3, <3>1, ChildrenAssumption
           DEF IsAlive, KillSucceeds, Occupies, ChildrenAssumption
    <3>4. QED
      BY <3>2, <3>3
  <2>5. QED
    BY <2>1, <2>2, <2>3, <2>4, <1>3, <1>v DEF Converge
<1>4. CASE Spawn
  <2>1. PICK p \in FreePids : Spawned(p, row) /\ subchild' = p
    BY <1>4 DEF Spawn
  <2>2. p \in Pids /\ proc[p] = "free"
    BY DEF FreePids
  <2>3. /\ Occupies(p, row)'
        /\ \A q \in Pids, e \in Entries : Occupies(q, e)' =>
             (q = p /\ e = row) \/ (q # p /\ Occupies(q, e) /\ proc'[q] = proc[q])
    <3>1. \A q \in Pids : /\ proc'[q] = IF q = p THEN "alive" ELSE proc[q]
                          /\ owner'[q] = IF q = p THEN row ELSE owner[q]
      BY <1>t, <2>1, <2>2 DEF Spawned, ChildrenTypeOK
    <3>2. row' = row
      BY <1>4 DEF Spawn
    <3>3. QED
      BY <2>2, <3>1, <3>2 DEF Occupies
  <2>4. intent[row] = "START"
    BY <1>4 DEF SpawnGuarded, Spawn
  <2>5. PassStarts' /\ Attached' /\ ExitedLast'
    BY <1>4, <1>x, <2>1 DEF Spawn, Spawned, Attached, tableVars
  <2>6. SpawnGuarded'
    <3>1. ~IsAlive(row)
      BY <1>4 DEF Spawn, SpawnGuarded
    <3>2. pid'[row'] = p \/ ~IsAlive(row)'
      BY <3>1, <2>1, <2>2, <1>4, <1>t
         DEF Spawn, Spawned, IsAlive, KillSucceeds, tableVars, ChildrenTypeOK
    <3>3. QED
      BY <3>2, <2>1, <2>4, <1>4 DEF Spawn, SpawnGuarded, tableVars
  <2>7. Tracked'
    BY <2>1, <2>3, <1>4 DEF Spawn, Tracked, tableVars
  <2>8. StopsTold'
    <3>1. \A e \in Entries : Converged(e)' => Converged(e) /\ e # row
      BY <1>4, <1>t, ChildrenAssumption
         DEF Spawn, Converged, ThreadTypeOK, Entries, ChildrenAssumption
    <3>2. QED
      BY <3>1, <2>3, <1>4 DEF Spawn, StopsTold, tableVars
  <2>9. Owned'
    BY <2>1, <2>2, <1>t DEF Spawned, Owned, ChildrenTypeOK, ThreadTypeOK
  <2>10. QED
    BY <2>5, <2>6, <2>7, <2>8, <2>9
<1>5. CASE SpawnFails \/ AttachFails
  <2>1. /\ UNCHANGED <<proc, owner, tableVars, threadVars>>
        /\ fiveman' = "killed"
    BY <1>5 DEF SpawnFails, AttachFails
  <2>2. Tracked' /\ StopsTold' /\ Attached' /\ ExitedLast' /\ PassStarts'
    BY <2>1 DEF Tracked, StopsTold, Converged, Occupies, Attached, ExitedLast,
                tableVars, threadVars
  <2>3. SpawnGuarded'
    BY <2>1 DEF SpawnGuarded, IsAlive, KillSucceeds, tableVars, threadVars
  <2>4. QED
    BY <2>1, <2>2, <2>3, <1>c
<1>6. CASE AssignPid
  <2>1. ExitedLast' /\ PassStarts' /\ SpawnGuarded'
    BY <1>6, <1>x DEF AssignPid, SpawnGuarded, childVars
  <2>2. Attached'
    BY <1>6, <1>t DEF AssignPid, Attached, TableTypeOK
  <2>3. \A e \in Entries : pid'[e] = IF e = row THEN subchild ELSE pid[e]
    BY <1>6, <1>t DEF AssignPid, TableTypeOK
  <2>4. Tracked'
    <3>1. \A q \in Pids : Occupies(q, row) => q = subchild
      BY <1>6, NothingToSpawnOver DEF AssignPid
    <3>2. QED
      BY <3>1, <2>3, <1>6, <1>o DEF AssignPid, Tracked
  <2>5. StopsTold'
    BY <1>6, <1>o DEF AssignPid, StopsTold, Converged
  <2>6. QED
    BY <2>1, <2>2, <2>4, <2>5, <1>6, <1>v DEF AssignPid
<1>7. CASE Attach
  <2>1. ExitedLast' /\ PassStarts' /\ SpawnGuarded'
    BY <1>7, <1>t, <1>x, RowDoneFacts DEF Attach, SpawnGuarded, childVars, RowDone, ThreadTypeOK
  <2>2. Attached'
    <3>1. status' # "attach"
      BY <1>7, <1>t, RowDoneFacts DEF Attach, ThreadTypeOK
    <3>2. QED
      BY <1>7, <1>t, <3>1 DEF Attach, Attached, TableTypeOK
  <2>3. Tracked'
    BY <1>7, <1>o DEF Attach, Tracked
  <2>4. StopsTold'
    <3>1. intent[row] = "START"
      BY <1>7 DEF Attach, SpawnGuarded
    <3>2. QED
      BY <1>7, <1>t, <1>o, <3>1, RowDoneConverges DEF Attach, StopsTold
  <2>5. QED
    BY <2>1, <2>2, <2>3, <2>4, <1>7, <1>v DEF Attach
<1>8. CASE ConvergeStop
  <2>1. NoNewProcess /\ fiveman' = fiveman
    <3>1. fiveman' = fiveman
      BY <1>8 DEF ConvergeStop, Signal, Killpg, childVars
    <3>2. QED
      BY <3>1, <1>8, <1>t, SignalFacts DEF ConvergeStop
  <2>2. ExitedLast' /\ PassStarts' /\ SpawnGuarded'
    BY <1>8, <1>t, <1>x, <2>1, RowDoneFacts
       DEF ConvergeStop, SpawnGuarded, RowDone, ThreadTypeOK
  <2>3. Attached'
    BY <1>8, <1>t, RowDoneFacts DEF ConvergeStop, Attached, ThreadTypeOK, tableVars
  <2>4. Tracked'
    BY <1>8, <1>n, <2>1 DEF ConvergeStop, Tracked, tableVars
  <2>5. StopsTold'
    <3> SUFFICES ASSUME NEW e \in Entries, Converged(e)', intent'[e] = "STOP",
                        NEW p \in Pids, Occupies(p, e)', proc'[p] = "alive"
                 PROVE  e \in Stubborn
      BY DEF StopsTold
    <3>1. intent[e] = "STOP" /\ Occupies(p, e) /\ proc[p] = "alive"
      BY <1>8, <1>n, <2>1 DEF ConvergeStop, tableVars
    <3>2. CASE Converged(e)
      BY <3>1, <3>2 DEF StopsTold
    <3>3. CASE e = row
      <4>1. pid[row] = p
        BY <3>1, <3>3, <1>8 DEF Tracked, ConvergeStop
      <4>2. Killpg(p, "SIGTERM")
        BY <4>1, <1>8, ChildrenAssumption DEF ConvergeStop, Signal, ChildrenAssumption
      <4>3. owner[p] \in Stubborn
        BY <4>2, <3>1, <1>t DEF Killpg, ChildrenTypeOK
      <4>4. QED
        BY <4>3, <3>1, <3>3 DEF Occupies
    <3>4. QED
      BY <1>8, <1>t, <3>2, <3>3, RowDoneConverges DEF ConvergeStop
  <2>6. QED
    BY <2>1, <2>2, <2>3, <2>4, <2>5, <1>w
<1>9. CASE Observe \/ Publish
  <2>1. /\ UNCHANGED <<childVars, tableVars, row, subchild>>
        /\ status \in {"observe", "publish"}
        /\ status' \in {"publish", "reflect", "done"}
    BY <1>9 DEF Observe, Publish
  <2>2. ExitedLast' /\ PassStarts' /\ SpawnGuarded' /\ Attached'
    BY <2>1, <1>x DEF SpawnGuarded, Attached, childVars, tableVars
  <2>3. Tracked'
    BY <2>1, <1>o DEF Tracked, tableVars
  <2>4. StopsTold'
    BY <2>1, <1>o DEF StopsTold, Converged, tableVars
  <2>5. QED
    BY <2>1, <2>2, <2>3, <2>4, <1>v
<1>10. QED
  BY <1>1, <1>2, <1>3, <1>4, <1>5, <1>6, <1>7, <1>8, <1>9 DEF StatusStep

LEMMA NextKeeps == IInv /\ [Next]_vars => IInv'
<1> SUFFICES ASSUME IInv, [Next]_vars PROVE IInv'
  OBVIOUS
<1>1. /\ TypeOK'
      /\ \/ Quiet
         \/ fiveman = "running" /\ (StatusStep \/ Finish)
  BY NextFacts DEF IInv
<1>2. QED
  BY <1>1, QuietKeeps, StatusKeeps, FinishKeeps

LEMMA Invariance == Spec => []IInv
<1>1. QED
  BY InitIInv, NextKeeps, PTL DEF Spec
-----------------------------------------------------------------------------
(* The types of every variable of the supervisor, in every behaviour.      *)
THEOREM TypeCorrect == Spec => []TypeOK
<1>1. IInv => TypeOK
  BY DEF IInv
<1>2. QED
  BY <1>1, Invariance, PTL

(* Every leader fiveman spawned and that is still there is in the row of   *)
(* its entry or about to be (fiveman_process_state_start).                 *)
THEOREM ChildrenAreTracked == Spec => []EveryChildTracked
<1>1. IInv => EveryChildTracked
  BY DEF IInv, Tracked, EveryChildTracked
<1>2. QED
  BY <1>1, Invariance, PTL

(* No entry ever has two instances, however children die, pids are reused  *)
(* and the two threads and the signal handlers interleave.                 *)
THEOREM NoSecondInstance == Spec => []SingleInstance
<1>1. IInv => SingleInstance
  <2> SUFFICES ASSUME IInv, NEW e \in Entries, NEW p \in Pids, NEW q \in Pids,
                      Occupies(p, e), Occupies(q, e)
               PROVE  p = q
    BY DEF SingleInstance
  <2>1. \/ pid[e] = p /\ pid[e] = q
        \/ status = "assign" /\ row = e
    BY DEF IInv, Tracked
  <2>2. CASE status = "assign" /\ row = e
    BY <2>2, NothingToSpawnOver
  <2>3. QED
    BY <2>1, <2>2
<1>2. QED
  BY <1>1, Invariance, PTL

(* fiveman_sample_info never meets a row without its dtrace context.       *)
THEOREM SamplingIsAttached == Spec => []SampledIsAttached
<1>1. IInv => SampledIsAttached
  BY DEF IInv, Attached, SampledIsAttached, IsAlive
<1>2. QED
  BY <1>1, Invariance, PTL

(* What main leaves behind untold belongs to entries adopted as START.     *)
THEOREM LeftoversWereWanted == Spec => []LeftoverWasWanted
<1>1. IInv => LeftoverWasWanted
  <2> SUFFICES ASSUME IInv, fiveman = "exited", NEW p \in Pids,
                      proc[p] = "alive", owner[p] \notin Stubborn
               PROVE  intent[owner[p]] = "START"
    BY DEF LeftoverWasWanted
  <2>1. Converged(owner[p])
    BY DEF IInv, ExitedLast, Converged
  <2>2. owner[p] \in Entries
    BY DEF IInv, Owned
  <2>3. intent[owner[p]] # "STOP"
    BY <2>1, <2>2 DEF IInv, StopsTold, Occupies
  <2>4. QED
    BY <2>2, <2>3 DEF IInv, TypeOK, TableTypeOK, Intents
<1>2. QED
  BY <1>1, Invariance, PTL

(* What only the status thread's Spawn can break: no other step gives an   *)
(* entry an instance it did not have.                                      *)
LEMMA OnlySpawnCreates ==
  ASSUME IInv, [Next]_vars, NEW p \in Pids, NEW e \in Entries, Occupies(p, e)'
  PROVE  Occupies(p, e) \/ (Spawn /\ e = row)
<1>1. \/ Quiet
      \/ StatusStep
      \/ Finish
  BY NextFacts DEF IInv
<1>2. NoNewProcess => Occupies(p, e)
  BY DEF NoNewProcess, Occupies
<1>3. CASE Spawn
  <2>1. PICK q \in Pids : Spawned(q, row)
    BY <1>3 DEF Spawn, FreePids
  <2>2. QED
    BY <1>3, <2>1 DEF Spawned, Occupies, IInv, TypeOK, ChildrenTypeOK
<1>4. CASE Finish
  BY <1>4 DEF Finish, Occupies
<1>5. QED
  BY <1>1, <1>2, <1>3, <1>4, StatusStepFacts DEF IInv, TypeOK, Quiet

(* An entry whose adopted intent is STOP gets no new instance.             *)
THEOREM StopSticks == Spec => AdoptedStopSticks
<1>1. ASSUME IInv, [Next]_vars
      PROVE  [\A e \in Entries : intent[e] = "STOP" /\ intent'[e] = "STOP" =>
                \A p \in Pids : Occupies(p, e)' => Occupies(p, e)]_vars
  <2>1. Spawn => intent[row] = "START"
    BY <1>1 DEF Spawn, IInv, SpawnGuarded
  <2>2. QED
    BY <1>1, <2>1, OnlySpawnCreates
<1>2. QED
  BY <1>1, Invariance, PTL DEF Spec, AdoptedStopSticks
-----------------------------------------------------------------------------
(* The entries that have an instance, as the refinement mapping sees them. *)
Up == {e \in Entries : \E p \in Pids : Occupies(p, e)}

LEMMA UpShrinks == NoNewProcess => Up' \subseteq Up
BY DEF NoNewProcess, Up, Occupies

LEMMA UpStays == UNCHANGED <<proc, owner>> => Up' = Up
BY DEF Up, Occupies

(* A step that creates nothing and leaves the wishes, the plan and fiveman *)
(* itself alone is, for the abstract supervisor, the end of some instances.*)
LEMMA EndsInstances ==
  ASSUME NoNewProcess, UNCHANGED <<intent, desired_intent, fiveman>>
  PROVE  Abstract!Next
<1> DEFINE es == Up \ Up'
<1>1. es \in SUBSET Entries
  BY DEF Up
<1>2. Up' = Up \ es
  BY UpShrinks
<1>3. Abstract!End(es)
  BY <1>2 DEF Abstract!End, Up
<1>4. QED
  BY <1>1, <1>3 DEF Abstract!Next

(* A step that ends fiveman and touches nothing else the abstract          *)
(* supervisor knows of closes it.                                          *)
LEMMA Closes ==
  ASSUME fiveman = "running", fiveman' # "running",
         UNCHANGED <<intent, desired_intent, proc, owner>>
  PROVE  Abstract!Next
<1>1. Abstract!Close
  BY UpStays DEF Abstract!Close, Up
<1>2. QED
  BY <1>1 DEF Abstract!Next

LEMMA StatusStepRefines ==
  ASSUME IInv, StatusStep, fiveman = "running"
  PROVE  Abstract!Next
<1> USE DEF IInv, TypeOK
<1>1. CASE Reflect
  <2>1. Abstract!Adopt
    BY <1>1, UpStays DEF Reflect, childVars, Abstract!Adopt, Up
  <2>2. QED
    BY <2>1 DEF Abstract!Next
<1>2. CASE Spawn
  <2>1. PICK p \in Pids : Spawned(p, row) /\ proc[p] = "free"
    BY <1>2 DEF Spawn, FreePids
  <2>2. row \in Entries /\ intent[row] = "START"
    BY <1>2 DEF Spawn, SpawnGuarded, ThreadTypeOK
  <2>3. row \notin Up
    BY <1>2, NothingToSpawnOver DEF Spawn, Up
  <2>4. Up' = Up \cup {row}
    <3>1. \A q \in Pids : /\ proc'[q] = IF q = p THEN "alive" ELSE proc[q]
                          /\ owner'[q] = IF q = p THEN row ELSE owner[q]
      BY <2>1 DEF Spawned, ChildrenTypeOK
    <3>2. \A q \in Pids, e \in Entries :
            Occupies(q, e)' <=> (q = p /\ e = row) \/ Occupies(q, e)
      BY <2>1, <3>1 DEF Occupies
    <3>3. QED
      BY <2>1, <2>2, <3>2 DEF Up
  <2>5. Abstract!Launch(row)
    BY <1>2, <2>1, <2>2, <2>3, <2>4 DEF Abstract!Launch, Up, Spawn, Spawned, tableVars
  <2>6. QED
    BY <2>2, <2>5 DEF Abstract!Next
<1>3. CASE SpawnFails \/ AttachFails
  BY <1>3, Closes DEF SpawnFails, AttachFails, tableVars
<1>4. CASE ~Reflect /\ ~Spawn /\ ~SpawnFails /\ ~AttachFails
  <2>1. UNCHANGED <<intent, desired_intent, fiveman>>
    BY <1>4 DEF StatusStep, Reap, ReapZombieProcesses, Waited, Converge, AssignPid, Attach,
                ConvergeStop, Signal, Killpg, Observe, Publish, childVars, tableVars
  <2>2. NoNewProcess
    BY <1>4, StatusStepFacts
  <2>3. QED
    BY <2>1, <2>2, EndsInstances
<1>5. QED
  BY <1>1, <1>2, <1>3, <1>4

LEMMA MainStepRefines ==
  ASSUME IInv, MainStep, fiveman = "running"
  PROVE  Abstract!Next
<1> USE DEF IInv, TypeOK
<1>1. ASSUME NEW i \in Intents, KeyDesires(i)
      PROVE  Abstract!Next
  <2>1. highlighted_row \in Entries
    BY DEF ScreenTypeOK
  <2>2. Abstract!Wish(highlighted_row, i)
    BY <1>1, UpStays DEF KeyDesires, DesiresIntent, childVars, Abstract!Wish, Up
  <2>3. QED
    BY <2>1, <2>2 DEF Abstract!Next, Intents
<1>2. CASE BeginTermination
  <2>1. Abstract!StopAll
    BY <1>2, UpStays
       DEF BeginTermination, TableDesiresIntent, childVars, Abstract!StopAll, Up
  <2>2. QED
    BY <2>1 DEF Abstract!Next
<1>3. CASE Finish
  BY <1>3, Closes DEF Finish
<1>4. CASE SignalRow
  <2>1. UNCHANGED <<intent, desired_intent, fiveman>>
    BY <1>4 DEF SignalRow, Signal, Killpg, childVars, tableVars
  <2>2. PICK sig : Signal(cursor, sig)
    BY <1>4 DEF SignalRow
  <2>3. QED
    BY <2>1, <2>2, SignalFacts, EndsInstances
<1>5. CASE \/ SetupScreen \/ KeyNone \/ KeyQuit \/ KeyMove
           \/ PagerAnswers \/ PagerReturns \/ TermLock \/ Count \/ CountLast
           \/ LeaveLoop \/ NextTurn \/ StatusThreadDestroy
  <2>1. UNCHANGED <<childVars, intent, desired_intent>>
    BY <1>5 DEF SetupScreen, KeyNone, KeyQuit, KeyMove, PagerAnswers,
                PagerReturns, TermLock, Count, CountLast, LeaveLoop, NextTurn,
                StatusThreadDestroy, systemVars, tableVars
  <2>2. NoNewProcess /\ fiveman' = fiveman
    BY <2>1 DEF childVars, NoNewProcess
  <2>3. QED
    BY <2>1, <2>2, EndsInstances
<1>6. CASE KeyPage
  <2>1. UNCHANGED <<proc, owner, intent, desired_intent>>
    BY <1>6 DEF KeyPage, tableVars
  <2>2. NoNewProcess
    BY <2>1 DEF NoNewProcess
  <2>3. QED
    BY <1>6, <2>1, <2>2, EndsInstances, Closes DEF KeyPage
<1>7. QED
  BY <1>1, <1>2, <1>3, <1>4, <1>5, <1>6 DEF MainStep

LEMMA NextRefines ==
  ASSUME IInv, [Next]_vars
  PROVE  [Abstract!Next]_Abstract!vars
<1>t. ChildrenTypeOK
  BY DEF IInv, TypeOK
<1>1. CASE fiveman = "running" /\ StatusThreadRuns
  BY <1>1, StatusStepRefines DEF StatusThreadRuns
<1>2. CASE fiveman = "running" /\ MainThreadRuns
  BY <1>2, MainStepRefines DEF MainThreadRuns
<1>3. CASE HandleSigchld
  <2>1. NoNewProcess
    BY <1>3, <1>t, WaitedFacts DEF HandleSigchld, ReapZombieProcesses
  <2>2. UNCHANGED <<intent, desired_intent, fiveman>>
    BY <1>3 DEF HandleSigchld, ReapZombieProcesses, Waited, tableVars
  <2>3. QED
    BY <2>1, <2>2, EndsInstances
<1>4. CASE fiveman = "running" /\ HandleSigint
  <2>1. UNCHANGED <<proc, owner, intent, desired_intent>>
    BY <1>4 DEF HandleSigint, tableVars
  <2>2. NoNewProcess
    BY <2>1 DEF NoNewProcess
  <2>3. QED
    BY <1>4, <2>1, <2>2, EndsInstances, Closes DEF HandleSigint
<1>5. CASE ChildrenRun
  <2>1. PICK p \in Pids : LeaderExits(p) \/ HelperExits(p)
    BY <1>5 DEF ChildrenRun
  <2>2. UNCHANGED <<intent, desired_intent, fiveman>>
    BY <1>5, <2>1
       DEF ChildrenRun, LeaderExits, ExitAsZombie, ExitReaped, HelperExits, tableVars
  <2>3. QED
    BY <1>t, <2>1, <2>2, ExitFacts, EndsInstances
<1>6. CASE Tick \/ Over \/ UNCHANGED vars
  <2>1. UNCHANGED <<childVars, tableVars>>
    BY <1>6 DEF Tick, Over, vars, systemVars
  <2>2. NoNewProcess /\ UNCHANGED <<intent, desired_intent, fiveman>>
    BY <2>1 DEF childVars, tableVars, NoNewProcess
  <2>3. QED
    BY <2>2, EndsInstances
<1>7. QED
  BY <1>1, <1>2, <1>3, <1>4, <1>5, <1>6 DEF Next

(* The two threads, their mutex, the signals and the process ids implement *)
(* the abstract supervisor: at most one instance, launched only when the   *)
(* adopted plan says so, and nothing after fiveman is gone.                *)
THEOREM Refinement == Spec => Supervises
<1>1. Init => Abstract!Init
  BY DEF Init, ChildrenInit, TableInit, Abstract!Init, Occupies
<1>2. IInv /\ [Next]_vars => [Abstract!Next]_Abstract!vars
  BY NextRefines
<1>3. QED
  BY <1>1, <1>2, Invariance, PTL DEF Spec, Supervises, Abstract!Spec
-----------------------------------------------------------------------------
(* A step of the contract, or none.                                        *)
PagedStep == [Paged!Next]_Paged!vars

(* The end of fiveman is the end of the client of the pager fork, and may  *)
(* be that of the fork.                                                    *)
LEMMA ClientLeaves ==
  ASSUME fiveman = "running", fiveman' # "running",
         pager_fork' \in {pager_fork, "down"}
  PROVE  PagedStep
<1>1. Paged!Leave
  BY DEF Paged!Leave
<1>2. QED
  BY <1>1 DEF Paged!Next, PagedStep

LEMMA ClientStays ==
  ASSUME UNCHANGED <<fiveman, main, pager_fork>>
  PROVE  PagedStep
BY DEF Paged!vars, PagedStep

LEMMA MainStepRespects ==
  ASSUME MainStep, fiveman = "running"
  PROVE  PagedStep
<1>1. CASE KeyPage
  <2>1. CASE pager_fork = "up"
    <3>1. Paged!Ask
      BY <1>1, <2>1 DEF KeyPage, flagVars, Paged!Ask
    <3>2. QED
      BY <3>1 DEF Paged!Next, PagedStep
  <2>2. CASE pager_fork # "up"
    BY <1>1, <2>2, ClientLeaves DEF KeyPage, flagVars
  <2>3. QED
    BY <2>1, <2>2
<1>2. CASE PagerAnswers
  <2>1. Paged!Answer
    BY <1>2 DEF PagerAnswers, systemVars, childVars, flagVars, Paged!Answer
  <2>2. QED
    BY <2>1 DEF Paged!Next, PagedStep
<1>3. CASE PagerReturns
  <2>1. Paged!Return
    BY <1>3 DEF PagerReturns, AfterKey, systemVars, childVars, flagVars,
                Paged!Return
  <2>2. QED
    BY <2>1 DEF Paged!Next, PagedStep
<1>4. CASE Finish
  BY <1>4, ClientLeaves DEF Finish
<1>5. CASE \/ SetupScreen \/ KeyNone \/ KeyQuit \/ KeyMove
           \/ (\E i \in Intents : KeyDesires(i))
           \/ TermLock \/ Count \/ CountLast \/ SignalRow \/ LeaveLoop
           \/ BeginTermination \/ NextTurn \/ StatusThreadDestroy
  <2>1. /\ fiveman' = fiveman /\ pager_fork' = pager_fork
        /\ main \notin {"paging", "resume"}
        /\ main' \notin {"paging", "resume"}
    BY <1>5 DEF SetupScreen, KeyNone, KeyQuit, KeyMove, KeyDesires, TermLock,
                Count, CountLast, SignalRow, Signal, Killpg, LeaveLoop,
                BeginTermination, NextTurn, StatusThreadDestroy, AfterKey,
                systemVars, childVars, flagVars
  <2>2. QED
    BY <2>1 DEF Paged!vars, PagedStep
<1>6. QED
  BY <1>1, <1>2, <1>3, <1>4, <1>5 DEF MainStep

(* Paging keeps the contract of the pager fork in every interleaving: one  *)
(* request at a time, and no screen before an answer (draw_screen, 'o').   *)
THEOREM PagingRespected == Spec => RespectsPager
<1>1. Init => Paged!Init
  BY DEF Init, ChildrenInit, ScreenInit, Paged!Init
<1>2. ASSUME [Next]_vars
      PROVE  PagedStep
  <2>1. CASE fiveman = "running" /\ StatusThreadRuns
    <3>1. UNCHANGED <<main, pager_fork>>
      BY <2>1 DEF StatusThreadRuns, screenVars, flagVars
    <3>2. QED
      BY <2>1, <3>1, ClientLeaves, ClientStays
  <2>2. CASE fiveman = "running" /\ MainThreadRuns
    BY <2>2, MainStepRespects DEF MainThreadRuns
  <2>3. CASE fiveman = "running" /\ HandleSigint
    <3>1. main' = main /\ pager_fork' \in {pager_fork, "down"}
      BY <2>3 DEF HandleSigint
    <3>2. CASE fiveman' # "running"
      BY <2>3, <3>1, <3>2, ClientLeaves
    <3>3. CASE fiveman' = fiveman /\ pager_fork' # pager_fork
      <4>1. Paged!BreakDown
        BY <3>1, <3>3 DEF Paged!BreakDown
      <4>2. QED
        BY <4>1 DEF Paged!Next, PagedStep
    <3>4. CASE fiveman' = fiveman /\ pager_fork' = pager_fork
      BY <3>1, <3>4, ClientStays
    <3>5. QED
      BY <2>3, <3>2, <3>3, <3>4 DEF HandleSigint
  <2>4. CASE HandleSigchld \/ Tick \/ ChildrenRun \/ Over \/ UNCHANGED vars
    <3>1. UNCHANGED <<fiveman, main, pager_fork>>
      BY <2>4 DEF HandleSigchld, ReapZombieProcesses, Waited, Tick, ChildrenRun,
                  LeaderExits, ExitAsZombie, ExitReaped, HelperExits, Over, vars,
                  systemVars, childVars, screenVars, flagVars
    <3>2. QED
      BY <3>1, ClientStays
  <2>5. QED
    BY <1>2, <2>1, <2>2, <2>3, <2>4 DEF Next
<1>3. QED
  BY <1>1, <1>2, PTL DEF Spec, RespectsPager, Paged!Spec, PagedStep
=============================================================================
