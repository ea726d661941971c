---------------------------- MODULE ScreenEntry -----------------------------
(***************************************************************************)
(* What the screen says about a row: the pass of the status thread that    *)
(* gathers it (src/src/fiveman_status_thread.c), draw_screen_entry of the  *)
(* main thread (src/src/ncurses_screen.c) and the markers of output that   *)
(* was not viewed yet (src/src/fiveman_process_state.c).                   *)
(*                                                                         *)
(* The status thread looks at the output file, converges the row, samples  *)
(* it, fills an entry of its own and publishes that under the mutex.  The  *)
(* main thread draws what was published, under the mutex as well, but asks *)
(* the row itself whether its process is alive.  Paging a file marks it as *)
(* viewed with the modification time the status thread saw last.           *)
(*                                                                         *)
(* One of the two output files is enough, and of the figures no more than  *)
(* whose they are.  Adoption of the user's wishes is in StatusThread: here *)
(* a pass may find any intent.                                             *)
(***************************************************************************)
EXTENDS Row

VARIABLES
  intent,       \* the adopted intent
  file,         \* the output file: modification time in seconds, and size
  stdout_stat,  \* what the status thread knows of it
  paged_at,     \* stdout_paged_at
  sample_of,    \* the instance state->sample is about, 0 if it is cleared
  cur_draw,     \* the status thread's own entry
  cur_entry,    \* the published entry
  main,         \* the main thread draws, or a file is being paged
  shown,        \* the line on the screen
  pass_began,   \* history: when the pass of the status thread began
  left,         \* history: when the pager was left last
  caught_up     \* history: nothing was written since a pager was left, and
                \* all there was then had been seen by the status thread

markerVars == <<stdout_stat, paged_at, left>>
entryVars == <<sample_of, cur_draw, cur_entry>>
screenVars == <<main, shown>>
outputVars == <<file, caught_up>>
vars == <<rowVars, intent, markerVars, entryVars, screenVars, outputVars, pass_began>>

Times == 0..Seconds(Horizon)
Output == [mtime : Times, size : {0, 1}]
Activities == {"RUNNING", "STARTING_UP", "SHUTTING_DOWN", "STOPPED"}
DrawEntries == [pid : 0..MaxInstances, of : 0..MaxInstances, stdout_active : BOOLEAN]

TypeOK ==
  /\ RowTypeOK
  /\ intent \in {"START", "STOP"}
  /\ file \in Output /\ stdout_stat \in Output
  /\ paged_at \in Times /\ left \in Times /\ pass_began \in Times
  /\ sample_of \in 0..MaxInstances
  /\ cur_draw \in DrawEntries /\ cur_entry \in DrawEntries
  /\ main \in {"drawing", "paging"}
  /\ shown \in [entry : DrawEntries, activity : Activities]
  /\ caught_up \in BOOLEAN
-----------------------------------------------------------------------------
(* fiveman_process_state_current_activity                                  *)
Activity ==
  CASE intent = "START" /\ IsAlive -> "RUNNING"
    [] intent = "START" /\ ~IsAlive -> "STARTING_UP"
    [] intent = "STOP" /\ IsAlive -> "SHUTTING_DOWN"
    [] intent = "STOP" /\ ~IsAlive -> "STOPPED"

(* fiveman_process_state_stdout_has_new_entries                            *)
HasNewEntries == paged_at # stdout_stat.mtime /\ stdout_stat.size > 0

(* update_screen_entry                                                     *)
Entry == [pid |-> pid, of |-> sample_of, stdout_active |-> HasNewEntries]

Init ==
  /\ RowInit
  /\ intent = "START"
  /\ file = [mtime |-> 0, size |-> 0] /\ stdout_stat = file
  /\ paged_at = 0 /\ left = 0 /\ sample_of = 0
  /\ cur_draw = Entry /\ cur_entry = Entry
  /\ main = "drawing" /\ shown = [entry |-> Entry, activity |-> Activity]
  /\ pass_began = 0 /\ caught_up = FALSE

(* The head of a pass: the intent is adopted and zombies are reaped.       *)
Reap ==
  /\ ReapZombie
  /\ intent' \in {"START", "STOP"}
  /\ pass_began' = Seconds(clock)
  /\ UNCHANGED <<markerVars, entryVars, screenVars, outputVars>>

(* Variant with a defect: the sample of the last instance stays.           *)
StartUncleared ==
  /\ NewInstance
  /\ file' = IF file.mtime = 0 THEN [mtime |-> Seconds(clock), size |-> 0] ELSE file
  /\ UNCHANGED sample_of

(* fiveman_process_state_start: the sample is cleared, and opening the     *)
(* output file makes it if it is not there.                                *)
Start ==
  /\ NewInstance
  /\ sample_of' = 0
  /\ file' = IF file.mtime = 0 THEN [mtime |-> Seconds(clock), size |-> 0] ELSE file

(* start, or else nothing the screen would know of: a SIGTERM only makes   *)
(* likelier what the process may do anyway.                                *)
StartOrNot ==
  IF intent = "START" /\ ~IsAlive
  THEN Start
  ELSE UNCHANGED <<pid, child, sample_of, file>>

(* Variants with a defect: a row that is to be stopped is not looked at;   *)
(* the entry is filled before the row converges.                           *)
ConvergeLookingLess ==
  /\ step = "converge" /\ step' = "work"
  /\ stdout_stat' = IF intent = "START" THEN file ELSE stdout_stat
  /\ StartOrNot
  /\ UNCHANGED <<clock, intent, paged_at, left, cur_draw, cur_entry,
                 screenVars, caught_up, pass_began>>

ConvergeAfterEntry ==
  /\ step = "converge" /\ step' = "publish"
  /\ stdout_stat' = file
  /\ cur_draw' = Entry
  /\ StartOrNot
  /\ UNCHANGED <<clock, intent, paged_at, left, cur_entry, screenVars,
                 caught_up, pass_began>>

(* fiveman_process_state_converge: stat comes first.                       *)
Converge ==
  /\ step = "converge" /\ step' = "work"
  /\ stdout_stat' = file
  /\ StartOrNot
  /\ UNCHANGED <<clock, intent, paged_at, left, cur_draw, cur_entry,
                 screenVars, caught_up, pass_began>>

(* fiveman_process_state_child_process_status                              *)
Sample ==
  /\ step = "work" /\ step' = "entry"
  /\ sample_of' = IF IsAlive THEN pid ELSE sample_of
  /\ UNCHANGED <<clock, pid, child, intent, markerVars, cur_draw,
                 cur_entry, screenVars, outputVars, pass_began>>

UpdateScreenEntry ==
  /\ step = "entry" /\ step' = "publish"
  /\ cur_draw' = Entry
  /\ UNCHANGED <<clock, pid, child, intent, markerVars, sample_of,
                 cur_entry, screenVars, outputVars, pass_began>>

(* The second critical section of the pass, and the sleep.                 *)
Publish ==
  /\ step = "publish" /\ Sleep
  /\ cur_entry' = cur_draw
  /\ UNCHANGED <<intent, markerVars, sample_of, cur_draw, screenVars,
                 outputVars, pass_began>>
-----------------------------------------------------------------------------
(* The process writes a line.                                              *)
Write ==
  /\ child = "up"
  /\ file' = [mtime |-> Seconds(clock), size |-> 1]
  /\ caught_up' = FALSE
  /\ UNCHANGED <<rowVars, intent, markerVars, entryVars, screenVars, pass_began>>

(* draw_screen_entry: the published entry, the present activity.           *)
DrawScreenEntry ==
  /\ main = "drawing"
  /\ shown' = [entry |-> cur_entry, activity |-> Activity]
  /\ UNCHANGED <<rowVars, intent, markerVars, entryVars, main, outputVars, pass_began>>

(* 'o': the main thread draws nothing until the pager fork has answered.   *)
Page ==
  /\ main = "drawing"
  /\ main' = "paging"
  /\ UNCHANGED <<rowVars, intent, markerVars, entryVars, shown, outputVars, pass_began>>

(* Variant with a defect: the mark is the time, not that of the output.    *)
PageStdoutNow ==
  /\ main = "paging"
  /\ main' = "drawing"
  /\ paged_at' = Seconds(clock)
  /\ left' = Seconds(clock)
  /\ caught_up' = (stdout_stat = file)
  /\ UNCHANGED <<rowVars, intent, file, stdout_stat, entryVars, shown, pass_began>>

(* fiveman_process_state_page_stdout, once the pager has been left.        *)
PageStdout ==
  /\ main = "paging"
  /\ main' = "drawing"
  /\ paged_at' = stdout_stat.mtime
  /\ left' = Seconds(clock)
  /\ caught_up' = (stdout_stat = file)
  /\ UNCHANGED <<rowVars, intent, file, stdout_stat, entryVars, shown, pass_began>>

(* Time passes, the process exits or is waited for, the status thread      *)
(* wakes up.                                                               *)
RowGoesOn ==
  /\ TimePasses \/ Exits \/ HandleSigchld \/ WakeUp
  /\ UNCHANGED <<intent, markerVars, entryVars, screenVars, outputVars, pass_began>>

Next ==
  \/ Reap \/ Converge \/ Sample \/ UpdateScreenEntry \/ Publish
  \/ DrawScreenEntry \/ Page \/ PageStdout
  \/ Write \/ RowGoesOn

Spec == Init /\ [][Next]_vars
-----------------------------------------------------------------------------
(* Output written in a later second than the pager was left, and before    *)
(* the pass began, is announced by what the pass has published, whatever   *)
(* was viewed in between and whether or not the entry is to run.           *)
Announced ==
  step = "sleep" /\ file.size > 0 /\ left < file.mtime /\ file.mtime < pass_began
    => cur_entry.stdout_active

(* Output that was viewed is not announced again: if the status thread had *)
(* seen all of it when the pager was left and nothing came since, a pass   *)
(* that began later publishes no marker.                                   *)
ViewedIsQuiet ==
  step = "sleep" /\ caught_up /\ left < pass_began => ~cur_entry.stdout_active

(* The figures on a line are of the process whose pid it shows, or none:   *)
(* never those of an instance before it.                                   *)
FiguresFit == shown.entry.of \in {0, shown.entry.pid}

(* A line that is drawn shows the pid of the present instance or of the    *)
(* one before it, although the row converges while it is drawn and its     *)
(* activity is asked of the row itself.                                    *)
LineIsRecent ==
  [][shown' # shown => shown'.entry.pid \in {pid, pid - 1}]_vars
=============================================================================
