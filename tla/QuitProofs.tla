---------------------------- MODULE QuitProofs ------------------------------
(***************************************************************************)
(* Proof that the end of draw_screen misses nobody: when every stop has    *)
(* been adopted, no leader is alive that was not told to die when the main *)
(* thread leaves its loop, although it looks at the rows one by one while  *)
(* the status thread, the handlers and the children run.                   *)
(*                                                                         *)
(* The argument: the walks are taken under the mutex, without which no     *)
(* intent can be adopted, and a row whose adopted intent is STOP gets no   *)
(* process.  So what a walk has found of the rows behind it stays true.    *)
(*                                                                         *)
(* From the same invariant: the mutex is held for the walks alone, nothing *)
(* takes a quit back, and nobody is killed before his time is up.          *)
(***************************************************************************)
EXTENDS FivemanProofs

AllStopped == \A e \in Entries : intent[e] = "STOP"

(* Once the loop is to be left the main thread reads no key.               *)
Decided ==
  exit_fiveman_immediately =>
    main \in {"signal", "check_exit", "left", "join", "done"}

(* What has been found of the rows behind the cursor.                      *)
CountedStayGone ==
  AllStopped /\ main = "count" /\ ~any_alive =>
    \A e \in Entries : e < cursor => \A p \in Pids : ~Occupies(p, e)
KilledStayKilled ==
  AllStopped /\ main = "signal" /\ exit_fiveman_immediately =>
    \A e \in Entries : e < cursor =>
      \A p \in Pids : Occupies(p, e) => proc[p] # "alive"

WalkIInv ==
  IInv /\ LockedForWalks /\ Decided /\ CountedStayGone /\ KilledStayKilled
-----------------------------------------------------------------------------
LEMMA InitWalkIInv == Init => WalkIInv
BY InitIInv
   DEF Init, ScreenInit, ThreadInit, WalkIInv, LockedForWalks, Decided,
       CountedStayGone, KilledStayKilled

(* Nothing is created while every adopted intent is STOP.                  *)
LEMMA NothingCreated ==
  ASSUME IInv, [Next]_vars, AllStopped
  PROVE  NoNewProcess
<1>1. ~Spawn
  <2>1. row \in Entries
    BY DEF IInv, TypeOK, ThreadTypeOK
  <2>2. status # "spawn"
    BY <2>1 DEF IInv, SpawnGuarded, AllStopped
  <2>3. QED
    BY <2>2 DEF Spawn
<1>2. Finish => NoNewProcess
  BY DEF Finish, NoNewProcess
<1>3. QED
  BY <1>1, <1>2, NextFacts, StatusStepFacts DEF IInv, TypeOK, Quiet

(* A leader is in its row, as nobody is being started.                     *)
LEMMA StoppedAreTracked ==
  ASSUME IInv, AllStopped, NEW p \in Pids, NEW e \in Entries, Occupies(p, e)
  PROVE  pid[e] = p /\ pid[e] # NoPid /\ IsAlive(e)
<1>1. status # "assign"
  BY DEF IInv, SpawnGuarded, TypeOK, ThreadTypeOK, AllStopped
<1>2. pid[e] = p
  BY <1>1 DEF IInv, Tracked
<1>3. QED
  BY <1>2, ChildrenAssumption DEF Occupies, IsAlive, KillSucceeds, ChildrenAssumption

(* No intent is adopted during a walk.                                     *)
LEMMA NoneAdopted ==
  ASSUME WalkIInv, [Next]_vars, main \in {"count", "signal"}
  PROVE  intent' = intent
<1>1. Quiet \/ StatusStep \/ Finish
  BY NextFacts DEF WalkIInv, IInv
<1>2. ~Reflect
  BY DEF WalkIInv, LockedForWalks, Reflect
<1>3. CASE StatusStep
  BY <1>2, <1>3
     DEF StatusStep, Reap, Converge, Spawn, SpawnFails, AssignPid, Attach,
         AttachFails, ConvergeStop, Observe, Publish, tableVars
<1>4. QED
  BY <1>1, <1>3 DEF Quiet, threadOwned, Finish

(* A step that leaves the walk where it is.                                *)
LEMMA WalkStands ==
  ASSUME WalkIInv, [Next]_vars,
         UNCHANGED <<main, mutex, cursor, any_alive, exit_fiveman_immediately>>
  PROVE  WalkIInv'
<1>1. IInv'
  BY NextKeeps DEF WalkIInv
<1>2. LockedForWalks' /\ Decided'
  BY DEF WalkIInv, LockedForWalks, Decided
<1>3. AllStopped' /\ main \in {"count", "signal"} => AllStopped /\ NoNewProcess
  BY NoneAdopted, NothingCreated DEF WalkIInv, AllStopped
<1>4. CountedStayGone'
  BY <1>3 DEF WalkIInv, CountedStayGone, NoNewProcess, Occupies
<1>5. KilledStayKilled'
  BY <1>3 DEF WalkIInv, KilledStayKilled, NoNewProcess, Occupies
<1>6. QED
  BY <1>1, <1>2, <1>4, <1>5 DEF WalkIInv

(* SIGKILL for the row of a leader.                                        *)
LEMMA KillTells ==
  ASSUME IInv, AllStopped, NEW e \in Entries, Signal(e, "SIGKILL"),
         NEW p \in Pids, Occupies(p, e)'
  PROVE  proc'[p] # "alive"
<1>1. NoNewProcess
  BY SignalFacts DEF IInv, TypeOK
<1>2. Occupies(p, e)
  BY <1>1 DEF NoNewProcess, Occupies
<1>3. pid[e] = p /\ pid[e] # NoPid
  BY <1>2, StoppedAreTracked
<1>4. QED
  BY <1>3 DEF Signal, Killpg, IInv, TypeOK, ChildrenTypeOK

(* One row of either walk.                                                 *)
LEMMA CountWalks == ASSUME WalkIInv, Next, Count PROVE WalkIInv'
<1>1. IInv'
  BY NextKeeps DEF WalkIInv
<1>2. /\ main = "count" /\ main' = "count" /\ cursor' = cursor + 1
      /\ any_alive' = (any_alive \/ IsAlive(cursor))
      /\ UNCHANGED <<proc, owner, pid, intent, mutex, exit_fiveman_immediately>>
  BY DEF Count, systemVars, childVars, tableVars, threadVars, flagVars
<1>3. LockedForWalks' /\ Decided' /\ KilledStayKilled'
  BY <1>2 DEF WalkIInv, LockedForWalks, Decided, KilledStayKilled
<1>4. ASSUME AllStopped', ~any_alive', NEW e \in Entries, e < cursor + 1,
             NEW p \in Pids, Occupies(p, e)
      PROVE  FALSE
  <2>1. AllStopped /\ ~any_alive /\ ~IsAlive(cursor)
    BY <1>2, <1>4 DEF AllStopped
  <2>2. ~(e < cursor)
    BY <1>2, <1>4, <2>1 DEF WalkIInv, CountedStayGone
  <2>3. e = cursor
    BY <1>4, <2>2, EntryFacts DEF WalkIInv, IInv, TypeOK, ScreenTypeOK
  <2>4. QED
    BY <1>4, <2>1, <2>3, StoppedAreTracked DEF WalkIInv
<1>5. CountedStayGone'
  BY <1>2, <1>4 DEF CountedStayGone, Occupies
<1>6. QED
  BY <1>1, <1>3, <1>5 DEF WalkIInv

LEMMA SignalWalks == ASSUME WalkIInv, Next, SignalRow PROVE WalkIInv'
<1>1. IInv'
  BY NextKeeps DEF WalkIInv
<1>2. /\ main = "signal" /\ main' \in {"signal", "check_exit"}
      /\ main' = "signal" => cursor' = cursor + 1 /\ mutex' = mutex
      /\ main' = "check_exit" => mutex' = "none"
      /\ Signal(cursor, IF exit_fiveman_immediately THEN "SIGKILL" ELSE "SIGTERM")
      /\ UNCHANGED <<intent, exit_fiveman_immediately>>
      /\ cursor \in Entries /\ cursor \in Nat
  BY EntryFacts
     DEF SignalRow, tableVars, flagVars, WalkIInv, IInv, TypeOK, ScreenTypeOK
<1>3. LockedForWalks' /\ Decided' /\ CountedStayGone'
  BY <1>2 DEF WalkIInv, LockedForWalks, Decided, CountedStayGone
<1>4. ASSUME AllStopped', main' = "signal", exit_fiveman_immediately',
             NEW e \in Entries, e < cursor + 1, NEW p \in Pids, Occupies(p, e)'
      PROVE  proc'[p] # "alive"
  <2>1. AllStopped /\ exit_fiveman_immediately /\ Signal(cursor, "SIGKILL")
    BY <1>2, <1>4 DEF AllStopped
  <2>2. CASE e < cursor
    <3>1. NoNewProcess
      BY <2>1, SignalFacts DEF WalkIInv, IInv, TypeOK
    <3>2. QED
      BY <1>2, <1>4, <2>1, <2>2, <3>1
         DEF WalkIInv, KilledStayKilled, NoNewProcess, Occupies
  <2>3. CASE e = cursor
    BY <1>4, <2>1, <2>3, KillTells DEF WalkIInv
  <2>4. QED
    BY <1>2, <1>4, <2>2, <2>3, EntryFacts
<1>5. KilledStayKilled'
  BY <1>2, <1>4 DEF KilledStayKilled
<1>6. QED
  BY <1>1, <1>3, <1>5 DEF WalkIInv

(* The other steps of the main thread begin a walk or are outside of one.  *)
LEMMA MainWalks ==
  ASSUME WalkIInv, Next, MainStep, ~Count, ~SignalRow
  PROVE  WalkIInv'
<1>1. IInv'
  BY NextKeeps DEF WalkIInv
<1>2. \/ /\ main' \notin {"count", "signal"}
         /\ \/ mutex' = "none"
            \/ main \notin {"count", "signal"} /\ mutex' = mutex
      \/ main' \in {"count", "signal"} /\ cursor' = 1 /\ mutex' = "main"
  BY DEF MainStep, SetupScreen, KeyNone, KeyQuit, KeyMove, KeyPage,
         PagerAnswers, PagerReturns, KeyDesires, TermLock, CountLast, LeaveLoop,
         BeginTermination, NextTurn, StatusThreadDestroy, Finish, AfterKey,
         systemVars, threadVars
<1>3. Decided'
  BY DEF WalkIInv, Decided, MainStep, SetupScreen, KeyNone, KeyQuit, KeyMove,
         KeyPage, PagerAnswers, PagerReturns, KeyDesires, TermLock, CountLast,
         LeaveLoop, BeginTermination, NextTurn, StatusThreadDestroy, Finish,
         AfterKey, flagVars
<1>4. \A e \in Entries : ~(e < 1)
  BY EntryFacts DEF Entries
<1>5. LockedForWalks' /\ CountedStayGone' /\ KilledStayKilled'
  BY <1>2, <1>4 DEF WalkIInv, LockedForWalks, CountedStayGone, KilledStayKilled
<1>6. QED
  BY <1>1, <1>3, <1>5 DEF WalkIInv

LEMMA NextWalks == WalkIInv /\ [Next]_vars => WalkIInv'
<1> SUFFICES ASSUME WalkIInv, [Next]_vars PROVE WalkIInv'
  OBVIOUS
<1>1. CASE fiveman = "running" /\ StatusThreadRuns
  <2>1. UNCHANGED <<main, mutex, cursor, any_alive, exit_fiveman_immediately>>
    BY <1>1
       DEF StatusThreadRuns, StatusStep, Reflect, Reap, Converge, Spawn,
           SpawnFails, AssignPid, Attach, AttachFails, ConvergeStop, Observe,
           Publish, threadVars, screenVars, flagVars, walkVars
  <2>2. QED
    BY <2>1, WalkStands
<1>2. CASE fiveman = "running" /\ MainThreadRuns
  BY <1>2, CountWalks, SignalWalks, MainWalks DEF MainThreadRuns, Next
<1>3. CASE HandleSigchld \/ HandleSigint \/ Tick \/ ChildrenRun \/ Over \/ UNCHANGED vars
  <2>1. UNCHANGED <<main, mutex, cursor, any_alive, exit_fiveman_immediately>>
    BY <1>3
       DEF HandleSigchld, HandleSigint, Tick, ChildrenRun, Over, vars,
           systemVars, threadVars, screenVars, flagVars, walkVars
  <2>2. QED
    BY <2>1, WalkStands
<1>4. QED
  BY <1>1, <1>2, <1>3 DEF Next

LEMMA WalkInvariance == Spec => []WalkIInv
BY InitWalkIInv, NextWalks, PTL DEF Spec
-----------------------------------------------------------------------------
(* The decision, by the count or after the last SIGKILL.                   *)
LEMMA DecidesCleanly ==
  ASSUME WalkIInv, [Next]_vars, NothingWanted, ~Leaving, Leaving'
  PROVE  NobodyAlive'
<1>1. AllStopped /\ NoNewProcess
  BY NothingCreated DEF NothingWanted, AllStopped, WalkIInv
<1>2. \A p \in Pids : proc[p] = "alive" => owner[p] \in Entries /\ Occupies(p, owner[p])
  BY DEF WalkIInv, IInv, Owned, Occupies
<1>3. cursor \in Entries /\ \A e \in Entries : e < N \/ e = N
  BY EntryFacts, ChildrenAssumption
     DEF WalkIInv, IInv, TypeOK, ScreenTypeOK, Entries, ChildrenAssumption
<1>4. CASE CountLast
  <2>1. /\ main = "count" /\ cursor = N /\ ~any_alive /\ ~IsAlive(N)
        /\ UNCHANGED proc
    BY <1>4 DEF CountLast, Leaving, childVars
  <2>2. ASSUME NEW p \in Pids, proc[p] = "alive" PROVE FALSE
    <3>1. owner[p] = N
      BY <1>1, <1>2, <1>3, <2>1, <2>2 DEF WalkIInv, CountedStayGone
    <3>2. QED
      BY <1>1, <1>2, <2>1, <2>2, <3>1, StoppedAreTracked DEF WalkIInv
  <2>3. QED
    BY <2>1, <2>2 DEF NobodyAlive
<1>5. CASE SignalRow
  <2>1. /\ main = "signal" /\ cursor = N /\ exit_fiveman_immediately
        /\ Signal(N, "SIGKILL")
    BY <1>3, <1>5 DEF SignalRow, Leaving, flagVars
  <2>2. ASSUME NEW p \in Pids, proc'[p] = "alive" PROVE FALSE
    <3>1. proc[p] = "alive" /\ owner'[p] = owner[p] /\ owner[p] \in Entries
      BY <1>1, <1>2, <2>2 DEF NoNewProcess
    <3>2. owner[p] = N
      BY <1>1, <1>2, <1>3, <2>1, <3>1 DEF WalkIInv, KilledStayKilled
    <3>3. Occupies(p, N)'
      BY <2>2, <3>1, <3>2 DEF Occupies
    <3>4. QED
      BY <1>1, <1>3, <2>1, <2>2, <3>2, <3>1, <3>3, KillTells DEF WalkIInv
  <2>3. QED
    BY <2>2 DEF NobodyAlive
<1>6. CASE MainStep /\ ~CountLast /\ ~SignalRow
  BY <1>6
     DEF WalkIInv, Decided, Leaving, MainStep, SetupScreen, KeyNone, KeyQuit,
         KeyMove, KeyPage, PagerAnswers, PagerReturns, KeyDesires, TermLock,
         Count, LeaveLoop, BeginTermination, NextTurn, StatusThreadDestroy,
         Finish, AfterKey, flagVars
<1>7. CASE UNCHANGED <<main, exit_fiveman_immediately>>
  BY <1>7 DEF Leaving
<1>8. \/ MainStep
      \/ UNCHANGED <<main, exit_fiveman_immediately>>
  BY DEF Next, MainThreadRuns, StatusThreadRuns, HandleSigchld, HandleSigint,
         Tick, ChildrenRun, Over, vars, screenVars, flagVars
<1>9. QED
  BY <1>4, <1>5, <1>6, <1>7, <1>8

(* Nothing becomes wanted: no key is read any more.                        *)
LEMMA NothingWantedStays ==
  ASSUME WalkIInv, [Next]_vars, NothingWanted, Leaving'
  PROVE  NothingWanted'
<1>1. intent' \in {intent, desired_intent}
  <2>1. Quiet \/ StatusStep \/ Finish
    BY NextFacts DEF WalkIInv, IInv
  <2>2. CASE StatusStep
    BY <2>2
       DEF StatusStep, Reflect, Reap, Converge, Spawn, SpawnFails, AssignPid,
           Attach, AttachFails, ConvergeStop, Observe, Publish, tableVars
  <2>3. QED
    BY <2>1, <2>2 DEF Quiet, threadOwned, Finish
<1>2. \A e \in Entries : desired_intent'[e] \in {desired_intent[e], "STOP"}
  <2>1. CASE MainStep
    <3>1. ASSUME NEW i \in Intents, KeyDesires(i) PROVE FALSE
      BY <3>1 DEF KeyDesires, Leaving, AfterKey, WalkIInv, Decided, flagVars
    <3>2. QED
      BY <2>1, <3>1
         DEF MainStep, SetupScreen, KeyNone, KeyQuit, KeyMove, KeyPage,
             PagerAnswers, PagerReturns, TermLock, Count, CountLast, SignalRow,
             LeaveLoop, BeginTermination, TableDesiresIntent, NextTurn,
             StatusThreadDestroy, Finish, systemVars, tableVars
  <2>2. CASE StatusStep
    BY <2>2
       DEF StatusStep, Reflect, Reap, Converge, Spawn, SpawnFails, AssignPid,
           Attach, AttachFails, ConvergeStop, Observe, Publish, tableVars
  <2>3. CASE HandleSigchld \/ HandleSigint \/ Tick \/ ChildrenRun \/ Over
             \/ UNCHANGED vars
    BY <2>3
       DEF HandleSigchld, HandleSigint, Tick, ChildrenRun, Over, vars,
           systemVars, tableVars
  <2>4. QED
    BY <2>1, <2>2, <2>3 DEF Next, MainThreadRuns, StatusThreadRuns
<1>3. QED
  BY <1>1, <1>2 DEF NothingWanted

(* QuitLeavesNobody: orphans come only from a launch that was still wanted *)
(* when the loop of draw_screen was left, or that the status thread had    *)
(* not yet heard to be taken back.                                         *)
THEOREM NobodyLeft == Spec => QuitLeavesNobody
<1>1. ASSUME WalkIInv, [Next]_vars
      PROVE  [NothingWanted /\ (Leaving => NobodyAlive) /\ Leaving'
                => (NothingWanted /\ NobodyAlive)']_vars
  <2> SUFFICES ASSUME NothingWanted, Leaving => NobodyAlive, Leaving'
               PROVE  NothingWanted' /\ NobodyAlive'
    OBVIOUS
  <2>1. NothingWanted'
    BY <1>1, NothingWantedStays
  <2>2. CASE ~Leaving
    BY <1>1, <2>1, <2>2, DecidesCleanly
  <2>3. CASE Leaving
    <3>1. NoNewProcess
      BY <1>1, NothingCreated DEF WalkIInv, NothingWanted, AllStopped
    <3>2. QED
      BY <2>1, <2>3, <3>1 DEF NobodyAlive, NoNewProcess
  <2>4. QED
    BY <2>1, <2>2, <2>3
<1>2. QED
  BY WalkInvariance, <1>1, PTL DEF Spec, QuitLeavesNobody
-----------------------------------------------------------------------------
(* Between its steps the main thread holds the mutex in its walks and      *)
(* nowhere else: it gives it back before it reads a key, waits for a pager *)
(* or joins the status thread, whatever it has found and decided           *)
(* (draw_screen; the sections that draw and handle a key are one step).    *)
THEOREM MutexForWalks == Spec => []LockedForWalks
<1>1. WalkIInv => LockedForWalks
  BY DEF WalkIInv
<1>2. QED
  BY <1>1, WalkInvariance, PTL
-----------------------------------------------------------------------------
(* Out of the loop of draw_screen.                                         *)
LEMMA MainOnItsWay ==
  ASSUME WalkIInv, MainStep
  PROVE  /\ is_terminating => is_terminating'
         /\ exit => exit'
         /\ exit_fiveman_immediately => exit_fiveman_immediately' /\ MainForward
<1>1. is_terminating => is_terminating'
  BY DEF MainStep, SetupScreen, KeyNone, KeyQuit, KeyMove, KeyPage,
         PagerAnswers, PagerReturns, KeyDesires, TermLock, Count, CountLast,
         SignalRow, LeaveLoop, BeginTermination, NextTurn, StatusThreadDestroy,
         Finish, flagVars
<1>2. exit => exit'
  BY DEF MainStep, SetupScreen, KeyNone, KeyQuit, KeyMove, KeyPage,
         PagerAnswers, PagerReturns, KeyDesires, TermLock, Count, CountLast,
         SignalRow, LeaveLoop, BeginTermination, NextTurn, StatusThreadDestroy,
         Finish, systemVars, threadVars
<1>3. ASSUME exit_fiveman_immediately
      PROVE  exit_fiveman_immediately' /\ MainForward
  <2>1. main \in {"signal", "check_exit", "left", "join", "done"}
    BY <1>3 DEF WalkIInv, Decided
  <2>2. SignalRow \/ LeaveLoop \/ StatusThreadDestroy \/ Finish
    BY <1>3, <2>1
       DEF MainStep, SetupScreen, KeyNone, KeyQuit, KeyMove, KeyPage,
           PagerAnswers, PagerReturns, KeyDesires, TermLock, Count, CountLast,
           BeginTermination, NextTurn
  <2>3. exit_fiveman_immediately'
    BY <1>3, <2>2
       DEF SignalRow, LeaveLoop, StatusThreadDestroy, Finish, flagVars
  <2>4. CASE SignalRow
    <3>1. cursor \in Nat
      BY EntryFacts DEF WalkIInv, IInv, TypeOK, ScreenTypeOK
    <3>2. \/ main' = main /\ cursor' = cursor + 1
          \/ main' = "check_exit"
      BY <2>4 DEF SignalRow
    <3>3. main = "signal"
      BY <2>4 DEF SignalRow
    <3>4. QED
      BY <2>3, <3>1, <3>2, <3>3 DEF MainForward, WayOut
  <2>5. CASE LeaveLoop \/ StatusThreadDestroy \/ Finish
    <3>1. \/ main = "check_exit" /\ main' = "left"
          \/ main = "left" /\ main' = "join"
          \/ main = "join" /\ main' = "done"
      BY <2>5 DEF LeaveLoop, StatusThreadDestroy, Finish
    <3>2. QED
      BY <2>3, <3>1 DEF MainForward, WayOut
  <2>6. QED
    BY <2>2, <2>4, <2>5
<1>4. QED
  BY <1>1, <1>2, <1>3

(* Through the last pass, once the thread knows that it is to exit.        *)
LEMMA StatusOnItsWay ==
  ASSUME row \in Entries, StatusStep, exit
  PROVE  exit' /\ (UNCHANGED <<status, row>> \/ StatusForward)
<1>1. exit'
  BY DEF StatusStep, Reflect, Reap, Converge, Spawn, SpawnFails, AssignPid,
         Attach, AttachFails, ConvergeStop, Observe, Publish, threadVars
<1>2. CASE Reflect \/ Reap \/ Observe \/ Publish
  <2>1. \/ status = "reflect" /\ status' = "reap"
        \/ status = "reap" /\ status' = "converge"
        \/ status = "observe" /\ status' = "publish"
        \/ status = "publish" /\ status' = "done"
    BY <1>2 DEF Reflect, Reap, Observe, Publish
  <2>2. StatusForward
    BY <2>1 DEF StatusForward, PassPart
  <2>3. QED
    BY <1>1, <2>2
<1>3. ASSUME RowDone, status \in {"converge", "attach", "term"}
      PROVE  StatusForward
  <2>1. row \in Nat
    BY EntryFacts
  <2>2. \/ status' = "converge" /\ row' = row + 1
        \/ status' = "observe"
    BY <1>3 DEF RowDone
  <2>3. QED
    BY <1>3, <2>1, <2>2 DEF StatusForward, PassPart
<1>4. CASE Converge \/ Spawn \/ AssignPid \/ Attach \/ ConvergeStop
  <2>1. \/ status = "converge" /\ status' \in {"spawn", "term"} /\ row' = row
        \/ status = "spawn" /\ status' = "assign" /\ row' = row
        \/ status = "assign" /\ status' = "attach" /\ row' = row
        \/ RowDone /\ status \in {"converge", "attach", "term"}
    BY <1>4 DEF Converge, Spawn, AssignPid, Attach, ConvergeStop
  <2>2. CASE RowDone /\ status \in {"converge", "attach", "term"}
    BY <1>1, <1>3, <2>2
  <2>3. CASE \/ status = "converge" /\ status' \in {"spawn", "term"} /\ row' = row
             \/ status = "spawn" /\ status' = "assign" /\ row' = row
             \/ status = "assign" /\ status' = "attach" /\ row' = row
    <3>1. StatusForward
      BY <2>3 DEF StatusForward, PassPart, RowPart
    <3>2. QED
      BY <1>1, <3>1
  <2>4. QED
    BY <2>1, <2>2, <2>3
<1>5. CASE SpawnFails \/ AttachFails
  BY <1>1, <1>5 DEF SpawnFails, AttachFails, threadVars
<1>6. QED
  BY <1>2, <1>4, <1>5 DEF StatusStep

(* A quit is never taken back, by nothing the user, the children or the    *)
(* other thread do: with a scheduled thread this is why draw_screen and    *)
(* the last pass of the status thread come to their ends.                  *)
THEOREM QuitGoesForward == Spec => QuitMovesForward
<1>1. ASSUME WalkIInv, [Next]_vars
      PROVE  /\ is_terminating => is_terminating'
             /\ exit_fiveman_immediately =>
                  exit_fiveman_immediately' /\ (UNCHANGED <<main, cursor>> \/ MainForward)
             /\ exit => exit' /\ (UNCHANGED <<status, row>> \/ StatusForward)
  <2>1. CASE StatusThreadRuns
    <3>1. row \in Entries
      BY <1>1 DEF WalkIInv, IInv, TypeOK, ThreadTypeOK
    <3>2. StatusStep
          /\ UNCHANGED <<is_terminating, exit_fiveman_immediately, main, cursor>>
      BY <2>1 DEF StatusThreadRuns, screenVars, flagVars, walkVars
    <3>3. QED
      BY <3>1, <3>2, StatusOnItsWay
  <2>2. CASE MainThreadRuns
    <3>1. MainStep
      BY <2>2 DEF MainThreadRuns
    <3>2. UNCHANGED <<status, row>>
      BY <3>1
         DEF MainStep, SetupScreen, KeyNone, KeyQuit, KeyMove, KeyPage,
             PagerAnswers, PagerReturns, KeyDesires, TermLock, Count, CountLast,
             SignalRow, LeaveLoop, BeginTermination, NextTurn,
             StatusThreadDestroy, Finish, systemVars, threadVars
    <3>3. QED
      BY <1>1, <3>1, <3>2, MainOnItsWay
  <2>3. CASE HandleSigchld \/ HandleSigint \/ Tick \/ ChildrenRun \/ Over
             \/ UNCHANGED vars
    BY <2>3
       DEF HandleSigchld, HandleSigint, Tick, ChildrenRun, Over, vars,
           systemVars, threadVars, screenVars, flagVars, walkVars
  <2>4. QED
    BY <1>1, <2>1, <2>2, <2>3 DEF Next
<1>2. QED
  BY WalkInvariance, <1>1, PTL DEF Spec, QuitMovesForward
-----------------------------------------------------------------------------
(* The walks are those of a termination, and the one that kills has been   *)
(* decided on at the end of the time.                                      *)
GraceIInv ==
  /\ main \in {"lock", "count", "signal"} => is_terminating
  /\ main = "signal" /\ exit_fiveman_immediately => waited = TermTimeout

LEMMA InitGrace == Init => GraceIInv
BY DEF Init, ScreenInit, GraceIInv

LEMMA NextGrace == WalkIInv /\ GraceIInv /\ [Next]_vars => GraceIInv'
<1> SUFFICES ASSUME WalkIInv, GraceIInv, [Next]_vars PROVE GraceIInv'
  OBVIOUS
<1>1. waited \in Nat /\ TermTimeout \in Nat /\ waited <= TermTimeout
  BY ScreenAssumption
     DEF ScreenAssumption, WalkIInv, IInv, TypeOK, ScreenTypeOK
<1>2. CASE CountLast
  <2>1. /\ main = "count" /\ is_terminating' = is_terminating /\ waited' = waited
        /\ main' \in {"signal", "check_exit"}
        /\ main' = "signal" /\ exit_fiveman_immediately' => waited >= TermTimeout
    BY <1>2 DEF CountLast
  <2>2. QED
    BY <1>1, <2>1 DEF GraceIInv
<1>3. CASE MainStep /\ ~CountLast
  <2>1. \/ main' = "signal" /\ main = "signal"
             /\ UNCHANGED <<is_terminating, exit_fiveman_immediately, waited>>
        \/ main' = "lock" /\ is_terminating'
        \/ main' = "count" /\ main \in {"lock", "count"}
             /\ is_terminating' = is_terminating
        \/ main' \notin {"lock", "count", "signal"}
        \/ UNCHANGED <<main, is_terminating, exit_fiveman_immediately, waited>>
    BY <1>3
       DEF MainStep, SetupScreen, KeyNone, KeyQuit, KeyMove, KeyPage,
           PagerAnswers, PagerReturns, KeyDesires, TermLock, Count, SignalRow,
           LeaveLoop, BeginTermination, NextTurn, StatusThreadDestroy, Finish,
           AfterKey, flagVars
  <2>2. QED
    BY <2>1 DEF GraceIInv
<1>4. CASE Tick
  BY <1>1, <1>4 DEF Tick, flagVars, GraceIInv
<1>5. CASE StatusThreadRuns \/ HandleSigchld \/ HandleSigint \/ ChildrenRun
           \/ Over \/ UNCHANGED vars
  <2>1. UNCHANGED <<main, is_terminating, exit_fiveman_immediately, waited>>
    BY <1>5
       DEF StatusThreadRuns, HandleSigchld, HandleSigint, ChildrenRun, Over,
           vars, screenVars, flagVars
  <2>2. QED
    BY <2>1 DEF GraceIInv
<1>6. QED
  BY <1>2, <1>3, <1>4, <1>5 DEF Next, MainThreadRuns

(* A process that ignores SIGTERM is told to die by a kill and by nothing  *)
(* else.                                                                   *)
LEMMA OnlyKillTells ==
  ASSUME ChildrenTypeOK, [Next]_vars, NEW p \in Pids, proc[p] = "alive",
         owner[p] \in Stubborn, proc'[p] = "dying"
  PROVE  SignalRow /\ exit_fiveman_immediately
<1>1. ASSUME NEW q, NEW sig, Killpg(q, sig) PROVE sig = "SIGKILL"
  BY <1>1 DEF Killpg, ChildrenTypeOK
<1>2. ASSUME NEW e, NEW sig, Signal(e, sig) PROVE sig = "SIGKILL"
  BY <1>1, <1>2 DEF Signal, childVars
<1>3. proc' # proc
  OBVIOUS
<1>4. ASSUME NEW ps, Waited(ps) PROVE FALSE
  BY <1>4 DEF Waited
<1>5. ASSUME NEW q \in Pids, LeaderExits(q) \/ HelperExits(q) PROVE FALSE
  BY <1>5 DEF LeaderExits, ExitAsZombie, ExitReaped, HelperExits, ChildrenTypeOK
<1>6. ASSUME NEW q \in Pids, NEW e, Spawned(q, e) PROVE FALSE
  BY <1>6 DEF Spawned, ChildrenTypeOK
<1>7. ~HandleSigchld /\ ~ChildrenRun
  BY <1>4, <1>5 DEF HandleSigchld, ReapZombieProcesses, ChildrenRun
<1>8. ~HandleSigint /\ ~Tick /\ ~Over /\ ~(UNCHANGED vars)
  BY <1>3 DEF HandleSigint, Tick, Over, vars, systemVars, childVars
<1>9. ~StatusStep
  <2>1. ~Reap /\ ~Spawn
    BY <1>4, <1>6 DEF Reap, ReapZombieProcesses, Spawn, FreePids
  <2>2. ~ConvergeStop
    BY <1>2 DEF ConvergeStop
  <2>3. QED
    BY <1>3, <2>1, <2>2
       DEF StatusStep, Reflect, Converge, SpawnFails, AssignPid, Attach,
           AttachFails, Observe, Publish, childVars
<1>10. MainStep
  BY <1>7, <1>8, <1>9 DEF Next, StatusThreadRuns, MainThreadRuns
<1>11. SignalRow
  BY <1>3, <1>10
     DEF MainStep, SetupScreen, KeyNone, KeyQuit, KeyMove, KeyPage,
         PagerAnswers, PagerReturns, KeyDesires, TermLock, Count, CountLast,
         LeaveLoop, BeginTermination, NextTurn, StatusThreadDestroy, Finish,
         systemVars, childVars
<1>12. exit_fiveman_immediately
  BY <1>2, <1>11 DEF SignalRow
<1>13. QED
  BY <1>11, <1>12

(* A command that ignores SIGTERM gets all of the time draw_screen fixes   *)
(* (term_timeout), counted from the user's last request to quit, however   *)
(* often he asks and whatever else goes on.                                *)
THEOREM GraceGiven == Spec => KilledAfterGrace
<1>1. ASSUME WalkIInv, GraceIInv, [Next]_vars
      PROVE  \A p \in Pids :
               proc[p] = "alive" /\ owner[p] \in Stubborn /\ proc'[p] = "dying"
                 => is_terminating /\ waited = TermTimeout
  <2> SUFFICES ASSUME NEW p \in Pids, proc[p] = "alive", owner[p] \in Stubborn,
                      proc'[p] = "dying"
               PROVE  is_terminating /\ waited = TermTimeout
    OBVIOUS
  <2>1. SignalRow /\ exit_fiveman_immediately
    BY <1>1, OnlyKillTells DEF WalkIInv, IInv, TypeOK
  <2>2. QED
    BY <1>1, <2>1 DEF SignalRow, GraceIInv
<1>2. Spec => []GraceIInv
  BY WalkInvariance, InitGrace, NextGrace, PTL DEF Spec
<1>3. QED
  BY WalkInvariance, <1>1, <1>2, PTL DEF Spec, KilledAfterGrace
=============================================================================
