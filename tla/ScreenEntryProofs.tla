-------------------------- MODULE ScreenEntryProofs --------------------------
(***************************************************************************)
(* Proofs, for every clock and every number of restarts, of what           *)
(* ScreenEntry.cfg checks on an instance.                                  *)
(*                                                                         *)
(* The argument follows an entry on its way to the screen: the row, the    *)
(* status thread's own entry, the published one and the line.  Each can be *)
(* behind the one before it, and the place of the status thread in its     *)
(* pass bounds by how much.                                                *)
(***************************************************************************)
EXTENDS ScreenEntry, TLAPS

(* No modification time and no mark is ahead of the clock, and a mark is   *)
(* not later than the return from the pager that made it.                  *)
TimesOK ==
  /\ file.mtime <= Seconds(clock) /\ stdout_stat.mtime <= file.mtime
  /\ left <= Seconds(clock) /\ paged_at <= left
  /\ pass_began <= Seconds(clock)
  /\ file.mtime = 0 => file.size = 0

(* What was sampled, gathered, published or drawn is about the process it  *)
(* is shown with.                                                          *)
Fits(entry) == entry.of \in {0, entry.pid}

OwnFigures ==
  /\ sample_of \in {0, pid}
  /\ Fits(cur_draw) /\ Fits(cur_entry) /\ Fits(shown.entry)

(* How far the entries are behind the row.                                 *)
PidsFollow ==
  /\ cur_entry.pid \in {pid, pid - 1}
  /\ step \in {"reap", "converge", "sleep"} => cur_entry.pid = pid
  /\ step = "publish" => cur_draw.pid = pid

(* A file nobody has written to since the pass began is known as it is.    *)
StatIsFresh ==
  step \in {"work", "entry", "publish", "sleep"} /\ file.mtime < pass_began
    => stdout_stat = file

NewOutput == file.size > 0 /\ left < file.mtime /\ file.mtime < pass_began

Announcing ==
  /\ step = "publish" /\ NewOutput => cur_draw.stdout_active
  /\ step = "sleep" /\ NewOutput => cur_entry.stdout_active

(* Once caught up, nothing is new, whether the file has been made since or *)
(* not.                                                                    *)
CaughtUp ==
  caught_up =>
    \/ stdout_stat = file /\ paged_at = file.mtime
    \/ file.size = 0 /\ stdout_stat.size = 0

Quiet ==
  caught_up /\ left < pass_began =>
    /\ step = "publish" => ~cur_draw.stdout_active
    /\ step = "sleep" => ~cur_entry.stdout_active

IInv ==
  /\ TypeOK /\ TimesOK /\ OwnFigures /\ PidsFollow
  /\ StatIsFresh /\ Announcing /\ CaughtUp /\ Quiet
-----------------------------------------------------------------------------
(* The clock in seconds.                                                   *)
LEMMA SecondsFacts ==
  /\ \A t \in Nat : Seconds(t) \in Nat
  /\ \A s, t \in Nat : s <= t => Seconds(s) <= Seconds(t)
  /\ \A t \in Nat : Second <= t => Seconds(t) > 0
BY RowAssumption DEF RowAssumption, Seconds

LEMMA ClockFacts ==
  ASSUME RowTypeOK
  PROVE  /\ clock \in Nat /\ Seconds(clock) \in Times /\ Seconds(clock) > 0
         /\ 0 \in Times /\ Times \subseteq Nat
         /\ Epoch \in 0..Horizon /\ 0 \in 0..MaxInstances
BY SecondsFacts, RowAssumption DEF RowAssumption, RowTypeOK, Times

LEMMA InitIInv == Init => IInv
<1> SUFFICES ASSUME Init PROVE IInv
  OBVIOUS
<1>1. RowTypeOK
  BY RowAssumption DEF Init, RowInit, RowTypeOK, RowAssumption, Steps
<1>2. Entry = [pid |-> 0, of |-> 0, stdout_active |-> FALSE]
  BY DEF Init, RowInit, Entry, HasNewEntries
<1>3. Activity \in Activities
  BY DEF Init, Activity, Activities
<1>4. TypeOK
  BY <1>1, <1>2, <1>3, ClockFacts DEF Init, TypeOK, Output, DrawEntries
<1>5. TimesOK
  BY <1>1, ClockFacts DEF Init, TimesOK
<1>6. OwnFigures /\ PidsFollow
  BY <1>2 DEF Init, RowInit, OwnFigures, Fits, PidsFollow
<1>7. StatIsFresh /\ Announcing /\ CaughtUp /\ Quiet
  BY DEF Init, RowInit, StatIsFresh, Announcing, CaughtUp, Quiet
<1>8. QED
  BY <1>4, <1>5, <1>6, <1>7 DEF IInv

(* What the steps of Row do to the types and the time.                     *)
LEMMA RowFacts ==
  ASSUME RowTypeOK,
         TimePasses \/ Exits \/ HandleSigchld \/ ReapZombie \/ WakeUp \/ Sleep
  PROVE  RowTypeOK' /\ Seconds(clock) <= Seconds(clock)' /\ pid' = pid
<1> USE RowAssumption DEF RowAssumption, RowTypeOK, Steps
<1>1. clock \in Nat /\ clock + 1 \in Nat
  OBVIOUS
<1>2. CASE TimePasses
  <2>1. RowTypeOK' /\ pid' = pid
    BY <1>2 DEF TimePasses
  <2>2. Seconds(clock) <= Seconds(clock')
    BY <1>1, <1>2, SecondsFacts DEF TimePasses
  <2>3. QED
    BY <2>1, <2>2 DEF Seconds
<1>3. CASE Exits \/ HandleSigchld \/ ReapZombie \/ WakeUp \/ Sleep
  <2>1. RowTypeOK' /\ clock' = clock /\ pid' = pid
    BY <1>3 DEF Exits, HandleSigchld, ReapZombie, WakeUp, Sleep
  <2>2. Seconds(clock) \in Nat
    BY <1>1, SecondsFacts
  <2>3. Seconds(clock)' = Seconds(clock)
    BY <2>1 DEF Seconds
  <2>4. QED
    BY <2>1, <2>2, <2>3
<1>4. QED
  BY <1>2, <1>3

(* What a pass may do to the row when it converges.                        *)
LEMMA StartFacts ==
  ASSUME TypeOK, StartOrNot, UNCHANGED clock
  PROVE  /\ pid' \in 0..MaxInstances
         /\ child' \in {"none", "up", "zombie", "gone"}
         /\ \/ pid' = pid /\ sample_of' = sample_of /\ file' = file
            \/ /\ pid' = pid + 1 /\ sample_of' = 0
               /\ \/ file' = file
                  \/ file.mtime = 0 /\ file' = [mtime |-> Seconds(clock), size |-> 0]
<1>1. pid \in 0..MaxInstances /\ MaxInstances \in Nat
  BY RowAssumption DEF RowAssumption, TypeOK, RowTypeOK
<1>2. QED
  BY <1>1 DEF StartOrNot, Start, NewInstance, TypeOK, RowTypeOK

LEMMA TypeKeeps ==
  ASSUME TypeOK, [Next]_vars
  PROVE  TypeOK' /\ Seconds(clock) <= Seconds(clock)'
<1>1. Entry \in DrawEntries
  BY DEF Entry, DrawEntries, TypeOK, RowTypeOK, HasNewEntries
<1>2. Activity \in Activities
  BY DEF Activity, Activities, TypeOK
<1>s. Seconds(clock) \in Times
  BY ClockFacts DEF TypeOK
<1>q. clock' = clock => Seconds(clock) <= Seconds(clock)'
  BY <1>s, ClockFacts DEF Seconds, TypeOK
<1> USE DEF TypeOK, markerVars, entryVars, screenVars, outputVars
<1>3. CASE Reap
  BY <1>3, <1>s, RowFacts DEF Reap
<1>4. CASE Converge
  <2>1. file' \in Output
    BY <1>4, <1>s, StartFacts DEF Converge, Output
  <2>2. RowTypeOK'
    BY <1>4, StartFacts DEF Converge, RowTypeOK, Steps
  <2>3. sample_of' \in 0..MaxInstances
    BY <1>4, ClockFacts, StartFacts DEF Converge
  <2>4. QED
    BY <1>4, <1>q, <2>1, <2>2, <2>3 DEF Converge
<1>5. CASE Sample
  BY <1>5, <1>q DEF Sample, RowTypeOK, Steps
<1>6. CASE UpdateScreenEntry
  BY <1>1, <1>6, <1>q DEF UpdateScreenEntry, RowTypeOK, Steps
<1>7. CASE Publish
  BY <1>7, RowFacts DEF Publish
<1>8. CASE DrawScreenEntry
  BY <1>2, <1>8, <1>q DEF DrawScreenEntry, rowVars, RowTypeOK
<1>9. CASE Page
  BY <1>9, <1>q DEF Page, rowVars, RowTypeOK
<1>10. CASE PageStdout
  BY <1>10, <1>s, <1>q DEF PageStdout, rowVars, RowTypeOK, Output
<1>11. CASE Write
  BY <1>11, <1>s, <1>q DEF Write, rowVars, RowTypeOK, Output
<1>12. CASE RowGoesOn
  BY <1>12, RowFacts DEF RowGoesOn
<1>13. CASE UNCHANGED vars
  BY <1>13, <1>q DEF vars, rowVars, RowTypeOK
<1>14. QED
  BY <1>3, <1>4, <1>5, <1>6, <1>7, <1>8, <1>9, <1>10, <1>11, <1>12, <1>13 DEF Next
-----------------------------------------------------------------------------
(* What the steps do to the rest of the invariant: one lemma per part of   *)
(* it.  The times it compares are natural numbers throughout.              *)
LEMMA NumberFacts ==
  ASSUME TypeOK
  PROVE  /\ Seconds(clock) \in Nat /\ pass_began \in Nat /\ left \in Nat
         /\ paged_at \in Nat /\ file.mtime \in Nat /\ stdout_stat.mtime \in Nat
         /\ file.size \in {0, 1} /\ stdout_stat.size \in {0, 1}
         /\ pid \in Nat /\ Seconds(clock) > 0
BY ClockFacts, RowAssumption DEF TypeOK, RowTypeOK, Output, RowAssumption

LEMMA TimesKeep ==
  ASSUME IInv, [Next]_vars
  PROVE  TimesOK'
<1>1. /\ Seconds(clock) \in Nat /\ Seconds(clock)' \in Nat
      /\ Seconds(clock) <= Seconds(clock)' /\ Seconds(clock) > 0
      /\ file.mtime \in Nat /\ stdout_stat.mtime \in Nat
      /\ left \in Nat /\ paged_at \in Nat /\ pass_began \in Nat
  <2>1. TypeOK /\ TypeOK' /\ Seconds(clock) <= Seconds(clock)'
    BY TypeKeeps DEF IInv
  <2>2. Seconds(clock)' \in Nat
    <3>1. clock' \in Nat
      BY <2>1, RowAssumption DEF TypeOK, RowTypeOK, RowAssumption
    <3>2. QED
      BY <3>1, SecondsFacts DEF Seconds
  <2>3. QED
    BY <2>1, <2>2, NumberFacts
<1>2. TimesOK
  BY DEF IInv
<1> USE DEF TimesOK, markerVars, outputVars
<1>3. CASE Reap
  BY <1>1, <1>2, <1>3 DEF Reap, ReapZombie, Seconds
<1>4. CASE Converge
  <2>1. clock' = clock /\ TypeOK /\ StartOrNot
    BY <1>4 DEF Converge, IInv
  <2>2. \/ file' = file
        \/ file.mtime = 0 /\ file' = [mtime |-> Seconds(clock), size |-> 0]
    BY <2>1, StartFacts
  <2>3. Seconds(clock)' = Seconds(clock)
    BY <2>1 DEF Seconds
  <2>4. QED
    BY <1>1, <1>2, <1>4, <2>2, <2>3 DEF Converge
<1>5. CASE Sample \/ UpdateScreenEntry \/ Publish \/ DrawScreenEntry \/ Page
            \/ RowGoesOn \/ UNCHANGED vars
  <2>1. UNCHANGED <<file, stdout_stat, left, paged_at, pass_began>>
    BY <1>5 DEF Sample, UpdateScreenEntry, Publish, DrawScreenEntry, Page,
                RowGoesOn, vars
  <2>2. QED
    BY <1>1, <1>2, <2>1
<1>6. CASE PageStdout
  <2>1. Seconds(clock)' = Seconds(clock)
    BY <1>6 DEF PageStdout, rowVars, Seconds
  <2>2. QED
    BY <1>1, <1>2, <1>6, <2>1 DEF PageStdout
<1>7. CASE Write
  <2>1. Seconds(clock)' = Seconds(clock)
    BY <1>7 DEF Write, rowVars, Seconds
  <2>2. QED
    BY <1>1, <1>2, <1>7, <2>1 DEF Write
<1>8. QED
  BY <1>3, <1>4, <1>5, <1>6, <1>7 DEF Next

LEMMA FiguresKeep ==
  ASSUME IInv, [Next]_vars
  PROVE  OwnFigures'
<1>1. OwnFigures /\ TypeOK
  BY DEF IInv
<1> USE DEF OwnFigures, Fits, entryVars, screenVars
<1>2. CASE Reap
  BY <1>1, <1>2 DEF Reap, ReapZombie
<1>3. CASE Converge
  <2>1. \/ pid' = pid /\ sample_of' = sample_of
        \/ sample_of' = 0
    BY <1>1, <1>3, StartFacts DEF Converge
  <2>2. QED
    BY <1>1, <1>3, <2>1 DEF Converge
<1>4. CASE Sample
  BY <1>1, <1>4 DEF Sample
<1>5. CASE UpdateScreenEntry
  BY <1>1, <1>5 DEF UpdateScreenEntry, Entry
<1>6. CASE Publish
  BY <1>1, <1>6 DEF Publish, Sleep
<1>7. CASE DrawScreenEntry
  BY <1>1, <1>7 DEF DrawScreenEntry, rowVars
<1>8. CASE Page \/ PageStdout \/ Write \/ UNCHANGED vars
  BY <1>1, <1>8 DEF Page, PageStdout, Write, rowVars, vars
<1>9. CASE RowGoesOn
  BY <1>1, <1>9 DEF RowGoesOn, TimePasses, Exits, HandleSigchld, WakeUp
<1>10. QED
  BY <1>2, <1>3, <1>4, <1>5, <1>6, <1>7, <1>8, <1>9 DEF Next

LEMMA PidsKeep ==
  ASSUME IInv, [Next]_vars
  PROVE  PidsFollow'
<1>1. PidsFollow /\ TypeOK /\ pid \in Nat
  BY NumberFacts DEF IInv
<1> USE DEF PidsFollow, entryVars
<1>2. CASE Reap
  BY <1>1, <1>2 DEF Reap, ReapZombie
<1>3. CASE Converge
  <2>1. pid' \in {pid, pid + 1}
    BY <1>1, <1>3, StartFacts DEF Converge
  <2>2. cur_entry' = cur_entry /\ cur_entry.pid = pid /\ step' = "work"
    BY <1>1, <1>3 DEF Converge
  <2>3. pid = pid' \/ pid = pid' - 1
    <3>1. CASE pid' = pid
      BY <3>1
    <3>2. CASE pid' = pid + 1
      BY <1>1, <3>2
    <3>3. QED
      BY <2>1, <3>1, <3>2
  <2>4. cur_entry.pid' = pid
    BY <2>2
  <2>5. QED
    BY <2>2, <2>3, <2>4
<1>4. CASE Sample
  BY <1>1, <1>4 DEF Sample
<1>5. CASE UpdateScreenEntry
  BY <1>1, <1>5 DEF UpdateScreenEntry, Entry
<1>6. CASE Publish
  BY <1>1, <1>6 DEF Publish, Sleep
<1>7. CASE DrawScreenEntry \/ Page \/ PageStdout \/ Write \/ UNCHANGED vars
  BY <1>1, <1>7 DEF DrawScreenEntry, Page, PageStdout, Write, rowVars, vars
<1>8. CASE RowGoesOn
  BY <1>1, <1>8 DEF RowGoesOn, TimePasses, Exits, HandleSigchld, WakeUp
<1>9. QED
  BY <1>2, <1>3, <1>4, <1>5, <1>6, <1>7, <1>8 DEF Next

(* The steps after which no entry, mark or output has changed and the pass *)
(* is where it was, or one whose place the last three parts do not mind.   *)
LEMMA OtherSteps ==
  ASSUME [Next]_vars
  PROVE  \/ Converge \/ Sample \/ UpdateScreenEntry \/ Publish
         \/ PageStdout \/ Write
         \/ /\ UNCHANGED <<file, stdout_stat, paged_at, left, caught_up,
                            cur_draw, cur_entry>>
            /\ \/ step' \in {"reap", "converge"}
               \/ UNCHANGED <<step, pass_began>>
<1> USE DEF markerVars, entryVars, outputVars
<1>1. CASE Reap
  BY <1>1 DEF Reap, ReapZombie
<1>2. CASE DrawScreenEntry \/ Page \/ UNCHANGED vars
  BY <1>2 DEF DrawScreenEntry, Page, rowVars, vars
<1>3. CASE RowGoesOn
  BY <1>3 DEF RowGoesOn, TimePasses, Exits, HandleSigchld, WakeUp
<1>4. QED
  BY <1>1, <1>2, <1>3 DEF Next

LEMMA FreshKeeps ==
  ASSUME IInv, [Next]_vars
  PROVE  StatIsFresh'
<1>1. StatIsFresh /\ TypeOK
  BY DEF IInv
<1>2. /\ Seconds(clock) \in Nat /\ pass_began \in Nat
      /\ pass_began <= Seconds(clock)
  BY NumberFacts DEF IInv, TimesOK
<1> USE DEF StatIsFresh, markerVars, outputVars
<1>3. CASE Converge
  <2>1. \/ file' = file
        \/ file' = [mtime |-> Seconds(clock), size |-> 0]
    BY <1>1, <1>3, StartFacts DEF Converge
  <2>2. stdout_stat' = file /\ pass_began' = pass_began
    BY <1>3 DEF Converge
  <2>3. QED
    BY <1>2, <2>1, <2>2
<1>4. CASE Sample \/ UpdateScreenEntry
  BY <1>1, <1>4 DEF Sample, UpdateScreenEntry
<1>5. CASE Publish
  <2>1. step = "publish" /\ UNCHANGED <<file, stdout_stat, pass_began>>
    BY <1>5 DEF Publish
  <2>2. QED
    BY <1>1, <2>1
<1>6. CASE PageStdout
  BY <1>1, <1>6 DEF PageStdout, rowVars
<1>7. CASE Write
  BY <1>2, <1>7 DEF Write, rowVars
<1>8. QED
  BY <1>1, <1>3, <1>4, <1>5, <1>6, <1>7, OtherSteps

LEMMA AnnouncingKeeps ==
  ASSUME IInv, [Next]_vars
  PROVE  Announcing'
<1>1. Announcing /\ StatIsFresh /\ TimesOK
  BY DEF IInv
<1>2. /\ Seconds(clock) \in Nat /\ pass_began \in Nat /\ left \in Nat
      /\ paged_at \in Nat /\ file.mtime \in Nat
  BY NumberFacts DEF IInv
<1> USE DEF Announcing, NewOutput, outputVars
<1>3. CASE Converge \/ Sample
  BY <1>3 DEF Converge, Sample
<1>4. CASE UpdateScreenEntry
  <2>1. /\ step = "entry" /\ step' = "publish" /\ cur_draw' = Entry
        /\ UNCHANGED <<file, left, pass_began>>
    BY <1>4 DEF UpdateScreenEntry, markerVars
  <2>2. ASSUME NewOutput
        PROVE  HasNewEntries
    <3>1. stdout_stat = file
      BY <1>1, <2>1, <2>2 DEF StatIsFresh
    <3>2. paged_at # file.mtime
      BY <1>1, <1>2, <2>2 DEF TimesOK
    <3>3. QED
      BY <2>2, <3>1, <3>2 DEF HasNewEntries
  <2>3. QED
    BY <2>1, <2>2 DEF Entry
<1>5. CASE Publish
  <2>1. /\ step = "publish" /\ step' = "sleep" /\ cur_entry' = cur_draw
        /\ UNCHANGED <<file, left, pass_began>>
    BY <1>5 DEF Publish, Sleep, markerVars
  <2>2. QED
    BY <1>1, <2>1
<1>6. CASE PageStdout
  <2>1. left' = Seconds(clock) /\ file' = file
    BY <1>6 DEF PageStdout
  <2>2. ~NewOutput'
    BY <1>1, <1>2, <2>1 DEF TimesOK
  <2>3. QED
    BY <2>2
<1>7. CASE Write
  <2>1. file'.mtime = Seconds(clock) /\ pass_began' = pass_began
    BY <1>7 DEF Write
  <2>2. ~NewOutput'
    BY <1>1, <1>2, <2>1 DEF TimesOK
  <2>3. QED
    BY <2>2
<1>8. QED
  BY <1>1, <1>3, <1>4, <1>5, <1>6, <1>7, OtherSteps

LEMMA CaughtUpKeeps ==
  ASSUME IInv, [Next]_vars
  PROVE  CaughtUp'
<1>1. CaughtUp /\ TimesOK /\ TypeOK
  BY DEF IInv
<1> USE DEF CaughtUp, markerVars, outputVars
<1>2. CASE Converge
  <2>1. \/ file' = file
        \/ file.mtime = 0 /\ file' = [mtime |-> Seconds(clock), size |-> 0]
    BY <1>1, <1>2, StartFacts DEF Converge
  <2>2. stdout_stat' = file /\ UNCHANGED <<paged_at, caught_up>>
    BY <1>2 DEF Converge
  <2>3. file.mtime = 0 => file.size = 0
    BY <1>1 DEF TimesOK
  <2>4. QED
    BY <1>1, <2>1, <2>2, <2>3
<1>3. CASE Sample \/ UpdateScreenEntry \/ Publish
  BY <1>1, <1>3 DEF Sample, UpdateScreenEntry, Publish
<1>4. CASE PageStdout
  BY <1>4 DEF PageStdout
<1>5. CASE Write
  BY <1>5 DEF Write
<1>6. QED
  BY <1>1, <1>2, <1>3, <1>4, <1>5, OtherSteps

LEMMA QuietKeeps ==
  ASSUME IInv, [Next]_vars
  PROVE  Quiet'
<1>1. Quiet /\ CaughtUp /\ TimesOK
  BY DEF IInv
<1>2. Seconds(clock) \in Nat /\ pass_began \in Nat
  BY NumberFacts DEF IInv
<1> USE DEF Quiet
<1>3. CASE Converge \/ Sample
  BY <1>3 DEF Converge, Sample
<1>4. CASE UpdateScreenEntry
  <2>1. caught_up => ~HasNewEntries
    BY <1>1 DEF CaughtUp, HasNewEntries
  <2>2. QED
    BY <1>4, <2>1 DEF UpdateScreenEntry, Entry, outputVars
<1>5. CASE Publish
  BY <1>1, <1>5 DEF Publish, Sleep, markerVars, outputVars
<1>6. CASE PageStdout
  BY <1>1, <1>2, <1>6 DEF PageStdout, TimesOK
<1>7. CASE Write
  BY <1>7 DEF Write
<1>8. QED
  BY <1>1, <1>3, <1>4, <1>5, <1>6, <1>7, OtherSteps

LEMMA NextKeeps == IInv /\ [Next]_vars => IInv'
<1> SUFFICES ASSUME IInv, [Next]_vars PROVE IInv'
  OBVIOUS
<1>1. TypeOK'
  BY TypeKeeps DEF IInv
<1>2. QED
  BY <1>1, TimesKeep, FiguresKeep, PidsKeep, FreshKeeps, AnnouncingKeeps,
     CaughtUpKeeps, QuietKeeps DEF IInv

THEOREM Invariance == Spec => []IInv
BY InitIInv, NextKeeps, PTL DEF Spec
-----------------------------------------------------------------------------
(* Types are as declared: in particular a line has one of the activities.  *)
THEOREM TypeCorrect == Spec => []TypeOK
<1>1. IInv => TypeOK
  BY DEF IInv
<1>2. QED
  BY <1>1, Invariance, PTL

(* Output newer than the last visit of the pager is announced.             *)
THEOREM OutputAnnounced == Spec => []Announced
<1>1. IInv => Announced
  BY DEF IInv, Announcing, NewOutput, Announced
<1>2. QED
  BY <1>1, Invariance, PTL

(* Output that was viewed is not announced again.                          *)
THEOREM ViewedStaysQuiet == Spec => []ViewedIsQuiet
<1>1. IInv => ViewedIsQuiet
  BY DEF IInv, Quiet, ViewedIsQuiet
<1>2. QED
  BY <1>1, Invariance, PTL

(* A line never shows the figures of one process with the pid of another.  *)
THEOREM FiguresBelong == Spec => []FiguresFit
<1>1. IInv => FiguresFit
  BY DEF IInv, OwnFigures, Fits, FiguresFit
<1>2. QED
  BY <1>1, Invariance, PTL

(* A line is drawn with the pid of the instance there is, or of the one    *)
(* before it.                                                              *)
THEOREM LinesRecent == Spec => LineIsRecent
<1>1. ASSUME IInv, [Next]_vars
      PROVE  [shown' # shown => shown'.entry.pid \in {pid, pid - 1}]_vars
  <2>1. CASE DrawScreenEntry
    <3>1. shown'.entry = cur_entry
      BY <2>1 DEF DrawScreenEntry
    <3>2. cur_entry.pid \in {pid, pid - 1}
      BY <1>1 DEF IInv, PidsFollow
    <3>3. QED
      BY <3>1, <3>2
  <2>2. CASE ~DrawScreenEntry
    <3>1. shown' = shown
      BY <1>1, <2>2 DEF Next, Reap, Converge, Sample, UpdateScreenEntry, Publish,
                        Page, PageStdout, Write, RowGoesOn, vars, screenVars
    <3>2. QED
      BY <3>1
  <2>3. QED
    BY <2>1, <2>2
<1>2. QED
  BY <1>1, Invariance, PTL DEF Spec, LineIsRecent
=============================================================================
