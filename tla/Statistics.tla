----------------------------- MODULE Statistics -----------------------------
(***************************************************************************)
(* The figures of a row: fiveman_process_state_sample_process of           *)
(* src/src/fiveman_process_state.c and the macOS sampling of               *)
(* src/src/fiveman_process_statistics_mac.c.                               *)
(*                                                                         *)
(* The status thread samples a row that is alive once a pass: it consumes  *)
(* the records dtrace has gathered, reads the clock, asks the kernel twice *)
(* for CPU time (once for the threads that have ended, once for those that *)
(* live) and turns the differences to the previous sample into rates.  The *)
(* process goes on between any two of these.                               *)
(*                                                                         *)
(* The six byte counters are treated alike, so there is one.  Words and    *)
(* microseconds are scaled down, and everything is computed modulo the     *)
(* word it is computed in.                                                 *)
(***************************************************************************)
EXTENDS Row

CONSTANTS
  Word,       \* the values of a uint64_t
  HalfWord,   \* the values of a uint32_t
  NoNumber,   \* what lround may give for an infinity or no number
  MaxBytes    \* bound: what one instance reads

(* A clock in microseconds is always far ahead of one in seconds.          *)
ASSUME StatisticsAssumption ==
  /\ Seconds(Horizon) < Epoch
  /\ HalfWord \in Nat \ {0} /\ Word \in Nat /\ Horizon < Word
  /\ NoNumber # {} /\ NoNumber \subseteq 0..(HalfWord - 1)
  /\ MaxBytes \in Nat

VARIABLES
  live,      \* the CPU time of its threads that live
  ended,     \* the CPU time of its threads that have ended
  traced,    \* the bytes dtrace has recorded and nobody has consumed
  counter,   \* the bytes consumed since the last sample
  sample,    \* state->sample
  reading,   \* the sample that is being taken
  actual     \* history: the truth about the instance, see Truth

cpuVars == <<live, ended>>
byteVars == <<traced, counter>>
vars == <<rowVars, cpuVars, byteVars, sample, reading, actual>>

(* What the program cannot know: the bytes the instance has read, the      *)
(* bytes its samples account for, its CPU time when it was last sampled,   *)
(* and whether a thread ended between the two questions of the sample that *)
(* is being taken or of the one before.                                    *)
Truth == [bytes : 0..MaxBytes, reported : Nat, spent : Nat,
          missed : BOOLEAN, missed_before : BOOLEAN]

(* bzero of a sample.                                                      *)
Cleared == [time |-> 0, total |-> 0, cpu |-> 0, rate |-> 0]

NoReading == [time |-> 0, delta |-> 0, ended |-> 0, told |-> FALSE]
NothingYet == [bytes |-> 0, reported |-> 0, spent |-> 0,
               missed |-> FALSE, missed_before |-> FALSE]

TypeOK ==
  /\ RowTypeOK
  /\ live \in Nat /\ ended \in Nat
  /\ traced \in 0..MaxBytes /\ counter \in 0..MaxBytes
  /\ sample \in [time : 0..Horizon, total : 0..(Word - 1),
                 cpu : 0..(HalfWord - 1), rate : 0..MaxBytes]
  /\ reading \in [time : 0..Horizon, delta : 0..(Word - 1), ended : Nat,
                  told : BOOLEAN]
  /\ actual \in Truth

Init ==
  /\ RowInit
  /\ live = 0 /\ ended = 0 /\ traced = 0 /\ counter = 0
  /\ sample = Cleared /\ reading = NoReading /\ actual = NothingYet
-----------------------------------------------------------------------------
(* Time passes; a process that runs may have used it.                      *)
Tick ==
  /\ TimePasses
  /\ live' \in {live} \cup (IF child = "up" THEN {live + 1} ELSE {})
  /\ UNCHANGED <<ended, byteVars, sample, reading, actual>>

(* The probes of progstr record a read of the process.                     *)
Trace ==
  /\ child = "up" /\ actual.bytes < MaxBytes
  /\ traced' = traced + 1
  /\ actual' = [actual EXCEPT !.bytes = @ + 1]
  /\ UNCHANGED <<rowVars, cpuVars, counter, sample, reading>>

(* The threads but an idle one end, between the two questions perhaps.     *)
ThreadsEnd ==
  /\ child = "up" /\ live > 0
  /\ ended' = ended + live /\ live' = 0
  /\ actual' = [actual EXCEPT !.missed = @ \/ step = "times"]
  /\ UNCHANGED <<rowVars, byteVars, sample, reading>>

ProcessEnds ==
  /\ Exits \/ HandleSigchld
  /\ UNCHANGED <<cpuVars, byteVars, sample, reading, actual>>
-----------------------------------------------------------------------------
(* The steps of a pass that leave the figures alone.  A row that is to be  *)
(* stopped, or is alive, is not started.                                   *)
PassGoesOn ==
  /\ \/ ReapZombie
     \/ step = "converge" /\ step' = "work" /\ UNCHANGED <<clock, pid, child>>
     \/ step = "entry" /\ Sleep
     \/ WakeUp
  /\ UNCHANGED <<cpuVars, byteVars, sample, reading, actual>>

(* Variants with a defect: the sampling context of the last instance, or   *)
(* its last sample, stays.                                                 *)
StartInOldContext ==
  /\ step = "converge" /\ NewInstance
  /\ live' = 0 /\ ended' = 0
  /\ sample' = Cleared
  /\ actual' = NothingYet
  /\ step' = "work"
  /\ UNCHANGED <<clock, byteVars, reading>>

StartUncleared ==
  /\ step = "converge" /\ NewInstance
  /\ live' = 0 /\ ended' = 0 /\ traced' = 0 /\ counter' = 0
  /\ actual' = NothingYet
  /\ step' = "work"
  /\ UNCHANGED <<clock, sample, reading>>

(* fiveman_process_state_start as far as the figures go: the sample is     *)
(* cleared and the new instance gets a new context.                        *)
Start ==
  /\ step = "converge" /\ NewInstance
  /\ live' = 0 /\ ended' = 0 /\ traced' = 0 /\ counter' = 0
  /\ sample' = Cleared
  /\ actual' = NothingYet
  /\ step' = "work"
  /\ UNCHANGED <<clock, reading>>

(* The sample is older than a second, in the unsigned arithmetic of a time *)
(* in seconds and one in microseconds.                                     *)
SampleIsDue == (Seconds(clock) - sample.time) % Word >= 1

(* dtrace_work runs dorec on the records there are, if dtrace_status says  *)
(* that it is time to.                                                     *)
Consume ==
  \/ counter' = counter + traced /\ traced' = 0
  \/ UNCHANGED byteVars

(* fiveman_sample_info, up to the clock.                                   *)
Work ==
  /\ step = "work" /\ IsAlive /\ SampleIsDue
  /\ Consume
  /\ reading' = [NoReading EXCEPT !.time = clock,
                                  !.delta = (clock - sample.time) % Word]
  /\ step' = "info"
  /\ UNCHANGED <<clock, pid, child, cpuVars, sample, actual>>

(* fiveman_process_state_child_process_status of a row that is not alive.  *)
Skip ==
  /\ step = "work" /\ ~(IsAlive /\ SampleIsDue)
  /\ step' = "entry"
  /\ UNCHANGED <<clock, pid, child, cpuVars, byteVars, sample, reading,
                 actual>>

(* TASK_BASIC_INFO_64: the time of the threads that have ended.  There is  *)
(* no answer once the process has exited.                                  *)
TaskBasicInfo ==
  /\ step = "info"
  /\ reading' = [reading EXCEPT !.told = (child = "up"), !.ended = ended]
  /\ step' = "times"
  /\ UNCHANGED <<clock, pid, child, cpuVars, byteVars, sample, actual>>

(* 100 * n / d, rounded.                                                   *)
Percent(n, d) == (200 * n + d) \div (2 * d)

(* lround of that quotient of doubles, as a uint32_t.  Two samples in one  *)
(* unit of the clock make d zero and the quotient an infinity or no number *)
(* at all; what lround returns for those is left open by the standard.     *)
Rounded(n, d) == IF d = 0 THEN NoNumber ELSE {Percent(n, d) % HalfWord}

DeltaInSeconds ==
  LET whole == Seconds(reading.delta) % HalfWord
  IN  IF whole = 0 THEN 1 ELSE whole

Rate == counter \div DeltaInSeconds

(* The answer to TASK_THREAD_TIMES_INFO, if there are both answers.        *)
Told == reading.told /\ child = "up"
Total == IF Told THEN (live + reading.ended) % Word ELSE 0
CpuUsages ==
  IF Told /\ sample.time > 0
  THEN Rounded((Total - sample.total) % Word, reading.delta) ELSE {0}

NewSamples ==
  {[time |-> reading.time, total |-> Total, cpu |-> c, rate |-> Rate] :
     c \in CpuUsages}

Accounted ==
  [actual EXCEPT !.reported = @ + Rate * DeltaInSeconds,
                 !.spent = live + ended,
                 !.missed_before = actual.missed, !.missed = FALSE]

(* Variant with a defect: the counter is not reset.                        *)
TaskThreadTimesCounting ==
  /\ step = "times"
  /\ sample' \in NewSamples /\ reading' = NoReading
  /\ actual' = Accounted
  /\ step' = "entry"
  /\ UNCHANGED <<clock, pid, child, cpuVars, byteVars>>

(* The second question, the rates, and the new sample takes the place of   *)
(* the old one (fiveman_process_state_set_sample).                         *)
TaskThreadTimes ==
  /\ step = "times"
  /\ sample' \in NewSamples /\ reading' = NoReading
  /\ counter' = 0
  /\ actual' = Accounted
  /\ step' = "entry"
  /\ UNCHANGED <<clock, pid, child, cpuVars, traced>>

(* The bound Horizon is reached: the model looks no further.               *)
Over == clock = Horizon /\ UNCHANGED vars

Next ==
  \/ Tick \/ Trace \/ ThreadsEnd \/ ProcessEnds
  \/ PassGoesOn \/ Start
  \/ Work \/ Skip \/ TaskBasicInfo \/ TaskThreadTimes
  \/ Over

Spec == Init /\ [][Next]_vars
-----------------------------------------------------------------------------
(* The CPU figure of a sample is at most what the instance has used since  *)
(* it was sampled last, however the difference of the totals was computed: *)
(* no total of another instance and no wrapped difference gets into it.  A *)
(* thread that ends between the two task_info calls is in neither answer:  *)
(* that sample may wrap, and the next one makes up for the time.  And when *)
(* the sleep between two samples is cut so short that the clock has not    *)
(* moved, nothing is promised of the figure: it is a division by zero.     *)
CpuIsOwn ==
  [][step = "times" =>
       \/ step' = "times" \/ actual.missed \/ actual.missed_before
       \/ reading.delta = 0
       \/ sample'.cpu <= Percent(live + ended - actual.spent, reading.delta)]_vars

(* A byte is accounted for in at most one sample of the instance that read *)
(* it, whichever sample dtrace delivers it to.                             *)
NoByteTwice == actual.reported + counter + traced <= actual.bytes
=============================================================================
