# Verification of fiveman

fiveman runs the commands of a Procfile, each in a process group of its own, restarts
what dies, stops and relaunches what the user asks for from an ncurses screen, and shows
the output files in a pager. This directory holds TLA+ models of its code, the TLC
configurations that check them on small instances, and proofs, checked by TLAPS, of every
property that holds but liveness: about the supervisor, the pager fork, the parser, the start
of `main` and what the screen shows, for every number of entries, processes and restarts,
every file and every command line.

Paths below are relative to the repository: the code is in `src/src/`.

## 1. The system

### Components

| component | files | state | operations |
|---|---|---|---|
| process state and table | `fiveman_process_state.c`, `fiveman_process_state_table.c` | per entry: `intent`, `desired_intent`, `pid`, dtrace context, output files and their markers | initialise, desire an intent, converge (start / stop), is_alive, signal, reap, count alive, sample, page |
| status thread | `fiveman_status_thread.c` | `exit`, mutex, the published screen entries | one endless loop: adopt intents, reap, converge, display; create, destroy |
| main thread and screen | `main.c`, `ncurses_screen.c` | `exit_fiveman`, `exit_fiveman_immediately`, `is_terminating`, `term_issued_at`, the highlighted row | set-up, key handling, termination, end of `main` |
| signal handlers | `signal_handlers.c` | dispositions of SIGINT and SIGCHLD | SIGINT asks to quit, SIGCHLD reaps |
| pager fork | `fiveman_pager_fork.c` | two pipes, a read buffer | ask for a file, wait for the confirmation; in the fork: read the name, run the pager, confirm |
| Procfile parser | `procfile.c`, `fiveman_instruction.c` | file position, chunk, instruction list | read a chunk, scan it, seek back |
| process statistics | `fiveman_process_statistics_mac.c` | dtrace context, samples | attach, detach, sample |
| start of main, options | `main.c`, `options.c` | directory, Procfile, port, command | read the environment and the command line, check access, allocate the table |
| types | `fiveman_types.h`, `fiveman.h` | none | declarations |

### How they interact

`main` first forks the pager fork, while it is still a small single-threaded process, then
reads the environment, installs the handlers, reads the command line, parses the Procfile,
allocates the table, creates the status thread and enters `draw_screen`. From then on two threads share the table:

* the **main thread** writes `desired_intent` (keys `s`, `l`; all rows on quit) under the
  mutex; once it is terminating, every turn of its loop it takes the mutex, asks of every
  row whether its leader is alive, and sends every group SIGTERM, or SIGKILL after
  `term_timeout`. It leaves the loop when nothing was alive or the timeout has passed, sets
  `exit` and joins the other thread;
* the **status thread** copies `desired_intent` to `intent` under the mutex, and then reaps,
  converges each row (a `kill(pid, 0)` test, then `posix_spawn` or `killpg`), and samples it
  **without** the mutex. `state->pid` is written outside any critical section;
* the **handlers** run between any two instructions of either thread: SIGCHLD waits for
  every `pid` in the table; SIGINT sets `exit_fiveman`.

While a file is paged, the main thread blocks on a pipe from the pager fork. What the user
sees of a row travels: the status thread looks at the output file, converges the row, samples
it, fills an entry of its own and publishes that under the mutex; the main thread draws the
published entry, but asks the row itself what it is doing. Leaving the pager marks the file
with the modification time the status thread saw last.

### What is hard, and what makes each part correct

| part | hard because | correct when |
|---|---|---|
| table, status thread | convergence is unlocked; the tests read the kernel's state, which changes under them; three parties reap | no entry ever has two instances; no process is outside the table; what is wanted runs, what is not wanted stops; no zombie stays |
| attachment | an assertion per system call, on a process that may have gone | a row that is sampled has a context for the pid it names |
| termination | it races with the status thread, with keys, with further requests and with stubborn children | the request is heard, fiveman ends, and leaves nobody behind |
| pager fork | pipes without message boundaries, a reused buffer, Ctrl-C to a whole group, failing forks | the file that is shown is the one asked for, the terminal has one owner, the screen comes back |
| parser | tokens across chunk boundaries, end-of-file on a boundary | chunks do not show in the result, and it ends |
| start of main | options in any order and number, assertions on what nobody checked, arithmetic on `environ` | rows, ports and environment are what the invocation asks for, or it is refused |
| screen entries and markers | four copies of a row, two threads, modification times in seconds | a line is about one process, at most one pass old; new output is announced, viewed output is not |
| statistics | differences of unsigned counters across restarts, two answers that do not belong to one moment | a figure includes nothing of another instance; no byte counts twice |

`PROJECT.json` lists every hazard with the line where it bites and the properties for it.

## 2. The modules

```
Children                     the operating system: groups, signals, zombies, fiveman's life
  ProcessStateTable          rows, intents, is_alive, signal, reap
    StatusThread             the loop of the status thread, converge, start, stop, attach
      DrawScreen             keys, paging, termination, the end of main
        Fiveman              + handlers, time, children: Init, Next, Spec, properties
          MCFiveman          the instance for TLC (pid symmetry)
          FivemanProofs      its theorems
            QuitProofs       its theorems about the way out of draw_screen
            SignalProofs     its theorem about whom fiveman signals
Supervision                  the abstract supervisor, implemented by Fiveman
Pager                        the contract of the pager fork and its client, implemented by
                             PagerFork on one side and kept by Fiveman on the other
PagerFork                    the pager fork and its client, with the pipes
  PagerForkProofs            its theorems
Row                          one row, the clock and the steps of a pass
  Statistics                 dtrace records, samples, rates
    StatisticsProofs         its theorems
  ScreenEntry                output markers, published entries, the line on the screen
    ScreenEntryProofs        its theorems
Procfile                     the parser
  Startup                    from main to the first process
    MCStartup                the files and invocations it is run on
    StartupProofs            its theorems and the parser's
  ProcfileProofs             the invariant of the parser, which StartupProofs uses
```

Each module `EXTENDS` the one above it, because the parts share all their state; the split
is by the owner of the code. What the other trees share with the supervisor is narrow:

* the pager fork shares two pipes with the main thread. `Pager` says in four actions what
  each side may expect. `PagerFork` is shown to implement it, with the code of both sides
  (`KeepsContract`), and `Fiveman`, which has one variable `pager_fork` for the other
  process, is shown to ask no more of it (`RespectsPager`). A SIGINT from the keyboard
  (`CtrlC`) reaches both: it may take the pager fork down, and from then on the main thread
  waits in vain or, if it asks later, dies of SIGPIPE;
* `Startup` is over when the supervisor begins;
* `Statistics` and `ScreenEntry` are about one row. Rows share nothing of their state, and
  when rows are started and stopped is what `Fiveman` is about: here a pass may find any
  intent, and a process may exit at any time.

### Supervisor: state and actions against the code

| variable | code |
|---|---|
| `proc`, `owner`, `helper` | the kernel's processes: group leaders, the entry each was spawned for, groups that hold a second process |
| `sigchld`, `sigint` | the pending SIGCHLD; the disposition of SIGINT |
| `fiveman` | running, returned from `main`, or killed (assertion, default SIGINT) |
| `intent`, `desired_intent`, `pid`, `sample_ctxt` | the fields of `fiveman_process_state` of these names (`sample_ctxt` is the pid the dtrace context belongs to) |
| `status`, `row`, `subchild` | where the status thread is, the row it converges, the local variable of `fiveman_process_state_start` |
| `mutex`, `exit` | `thread_info->mutex`, `thread_info->exit` |
| `main`, `cursor`, `any_alive` | where the main thread is, and its walk over the table |
| `exit_fiveman`, `exit_fiveman_immediately`, `is_terminating` | the statics of `ncurses_screen.c` |
| `pager_fork` | whether the pager fork is there |
| `waited` | the time since `term_issued_at`, up to `TermTimeout` |
| `highlighted_row`, `quits` | the row the keys apply to; a counter for the bound `MaxQuits` |

A step of a model is what another thread, a handler or a child cannot come between in a way
that could be noticed. `is_alive` and the system call it guards are separate steps
(`Converge`, then `Spawn` or `ConvergeStop`), and so are `posix_spawn` and the assignment of
its result (`Spawn`, `AssignPid`), and that and the attachment (`Attach`, `AttachFails`).
The main thread's two walks are one row per step (`Count`, `SignalRow`), because the status
thread runs meanwhile. The status thread's two critical sections (`Reflect`, `Publish`) are
one step each, so `mutex` only ever shows the main thread.

Merged on purpose: a walk that waits for every row (`ReapZombieProcesses`) is one step, as
the handler and both threads may all do it at any time and waiting for one leader does not
depend on another; the test and the clearing of `exit_fiveman`
(`BeginTermination`), where a second request falling between the two would merely fail to
restart the clock; asking the pager fork and waiting for it (`KeyPage`, "paging"), as the pieces
of a request, and a SIGPIPE between them, are the subject of `PagerFork`; drawing a row or
setting a wish with the mutex held, which no other thread can see a part of.

### Facts about the platform the model rests on

The Makefile builds for macOS, and the sources call its kernel by name.

* `kill(pid, 0)` succeeds on a zombie, and a signal to a zombie changes nothing.
* SIGCHLD is installed with `SA_NOCLDWAIT`: an exited child vanishes without a SIGCHLD,
  unless it is traced when it exits, in which case it becomes a zombie that has to be waited
  for. Both are possible for every exit.
* `install_signal_handlers` never initialises `sa_flags` of its second `sigaction`; the
  SIGINT handler may be for one delivery (`SA_RESETHAND`). `Init` chooses.
* The assertions are compiled in (no `-DNDEBUG` in `Makefile`): a failing one ends fiveman.
* `setup_screen` calls `halfdelay` after `raw`, which turns the terminal's signal
  characters on again: Ctrl-C is a SIGINT to the foreground process group.

### Pager fork

`PagerFork` has both processes, both pipes as sequences of bytes with their reads and
writes in pieces (`PageFile`, `WriteName`, `ReadSize`, `ReadName`), the pager, the
confirmation (`Confirm`, `WaitForConfirm`), Ctrl-C (`Interrupt`), a `fork()` that fails for the
pager (`ReadName`) or for the pager fork itself, which nobody notices (`Init`), and the
end or the death of fiveman (`Destroy`, `ParentDies`). A file is the length of its name and
byte `i` of it is the pair of the file and `i`, so that bytes of different names differ.

### Parser and start of main

`Procfile` is the scanner one character per step (`Scan`), one chunk per `Fread`, with the
assertions as an outcome. Characters are the ones it tells apart: colon, newline, blank,
any other. The reference knows no chunks and no order of reading: a name ends at the first
colon of a line (`NameEnds`), an instruction at the newline of a line that has one
(`ExecEnds`), and `Expected(p)` is the instruction that ends at `p`, the `Number(p)`th.

`Startup` runs main in its order: the identity of SUDO_UID and SUDO_GID, whose failure leaves
only a trace in `errno`, and PORT (`ReadEnvironment`), one option per step (`ParseOption`),
the defaults (`DefaultPaths`, with the assertion on `errno`), the command, the assertions of
main (`Access`), the parser's steps (`ParseProcfile`), a row for every instruction of the list
(`Allocate`), and the environment of the first process: the walk that counts `environ`, one
turn per step (`CountEnviron`, with `esize`, `turn` for the code's `i`, and the index `c` of the
entry looked at), and the copy with its stores (`CopyEnviron`, in the indices of the code, from 0,
with the null pointers `calloc` left). A word of the command line
carries its option, its text and the number `atoi` makes of it; of a variable of the
environment only its name and whether its value is inherited or new is kept. `getopt_long`
is external: it delivers options in their order and moves other words behind them.

### One row: Statistics and ScreenEntry

`Row` is the clock, the process of a row (its instances are numbered) and the place of the
status thread in its pass. `clock` counts units, `Second` of which make a second: times in
microseconds are units, `time` and `st_mtime` are `Seconds`. The sleep between two passes ends at
any time (`WakeUp`): a SIGCHLD or a SIGINT that is handled on the status thread cuts it short.

`Statistics` takes the sampling apart where the process can come between: the records dtrace
has gathered (`Trace`, `Consume`), the clock (`Work`), the CPU time of ended threads
(`TaskBasicInfo`), that of living ones and the new sample (`TaskThreadTimes`). Words have
`Word` values and half-words `HalfWord`, and every difference is computed modulo its width.
After a sleep that was cut short two samples can have the same time; the CPU figure is then
`lround` of an infinity or of no number, which is any value of `NoNumber`.
The six byte counters are treated alike by the code and are one here. `actual` is the truth
the program cannot know, for the properties only.

`ScreenEntry` has the output file as its modification time and whether it is empty,
`stdout_stat` and `paged_at` as the row has them, the status thread's own entry (`cur_draw`),
the published one (`cur_entry`) and the line that was drawn last (`shown`). Of the figures an
entry carries, only whose they are is kept (`of`). The two output files are treated alike and
are one. `pass_began`, `left` and `caught_up` are history variables for the properties.

### Defect variants

Each property comes with a variant of a definition, written next to it and used by no
action, that carries one plausible mistake ("Variant with a defect"). Replacing the
definition by its variant makes TLC find the property violated in the run that checks it;
`PROJECT.json` ("mutants") pairs them. They show that the property is not true of
everything.

## 3. What is checked

| run | instance | shows |
|---|---|---|
| `safety` | 2 entries (entry 1 ignores SIGTERM), 3 pids, reused; dtrace may fail, children may exit before attachment, 1 quit | types; no second instance; every child tracked; sampled rows are attached; what is left at the end was wanted; an adopted stop sticks; once every stop is adopted the end of `draw_screen` misses nobody; the mutex is held for the walks alone; outside of a termination only an adopted stop makes fiveman signal; `Supervision` is implemented |
| `convergence` | 2 entries (entry 1 stubborn), 3 pids, no quit | what is wanted is restarted, what is not wanted stops, zombies go |
| `quit` | 1 stubborn entry with a second process, 2 pids, 2 requests | a request is heard and never taken back; the entry is killed only when the time since the last request is over; fiveman ends |
| `orphans` | 1 entry, 1 quit | **violated**: fiveman leaves a process it never signalled, with no dtrace failure |
| `short_lived` | 1 entry that may exit at once | **violated**: a short-lived child aborts fiveman instead of being restarted |
| `pid_reused` | 2 entries, pid reuse | **violated**: a dead entry whose pid was given to another entry's process is not restarted |
| `paging` | 3 files, 3 requests, Ctrl-C, failing forks, the death of fiveman | the pager shows the file asked for; it never shares the terminal with the screen; neither side waits for the other in a circle; what is not disturbed ends; `Pager` is implemented |
| `paging_interrupted` | 1 file, Ctrl-C | **violated**: the fork is dead and fiveman waits for ever |
| `screen` | 1 row, up to 3 instances, 4 seconds | output newer than the last visit of the pager is announced, viewed output is not; a line has the figures of the process it names, which is the present one or the one before |
| `statistics` | 1 row, 2 instances, 3 seconds of 2 units, sleeps of any length, 1 byte | CPU figures are of the instance alone; no byte is in two samples |
| `startup` | all files of up to 6 characters, chunks of 4; for two of them every command line of up to 3 words and every environment | chunks do not show in the result; short files parse; rows, ports, paths and environment are those asked for; what cannot be served is refused, and nothing else; it ends |
| `parse_unfinished` | one line without a newline | **violated**: the last assertion fails |

A violated run checks one statement made by the README, an assertion or a comment, and its
counterexample is what `findings` in `PROJECT.json` describes.

One more assertion is known to fail: `procfile.c:69`, when the text that is left fits the chunk
exactly, so that the end of the file has not been noticed yet. `ShortFilesParse` says what
holds instead, and its bound is the best there is: with `Len(file) > LineSize` in place of
`>=` the run `startup` finds a file of one complete line, as long as a chunk, that aborts.

What some properties leave out, because the code does not have it:

* `Announced` is about output of a later second than the one the pager was left in. Modification
  times are compared in seconds, so output of that same second can be taken for seen.
* `CpuIsOwn` excepts the samples next to a thread that ended between the two questions about
  CPU time: it is in neither answer, and the unsigned difference wraps when the total falls. It
  says nothing either of a sample taken in the same microsecond as the one before, which is a
  division by zero.
* `FiguresFit` and `LineIsRecent` allow a line of an instance that is dead: a row that is not
  alive is not sampled, and keeps its last figures.
* `NoByteTwice` bounds what is accounted for from above. From below there is nothing to
  claim: the first sample of an instance divides its bytes by the seconds since the epoch.
* `QuitCompletes` and `QuitIsHeard` except the main thread that waits for a pager fork which
  Ctrl-C has killed (`Stranded`): it is the state `paging_interrupted` shows.
* `QuitLeavesNobody` asks that no entry is wanted any more, neither by the user nor by the
  status thread, when the decision to leave is taken. Without that the run `orphans` shows
  what happens. It is about leaders: a member of a group that survives its leader is
  signalled with it, and never again (`fiveman_process_state_table.c:85`).
* `SignalsAreMeant` is about the row whose stop causes a signal, not about the group it reaches.
  Where the kernel has reused the pid of a dead leader, that is another entry's, and nothing in
  the code forbids it (`fiveman_process_state.c:244`); `pid_reused` shows the same cause, for
  restarting.
* `LockedForWalks` is about the steps of the model. In the code the mutex is also held while a
  row is drawn and while a key sets a wish, each of which is one step here.
* No property forbids that fiveman is killed: by its assertions, by a second Ctrl-C when the
  handler was for one delivery, by SIGPIPE when it asks a dead pager fork, or for want of
  processes. All of these are steps of the models, and count as an end of fiveman.
* `KilledAfterGrace` counts from the last request to quit, as the code does; the time is fixed in
  `draw_screen` (`term_timeout`).
* `RespectsPager` and `KeepsContract` are about a contract that has the client die when it asks a
  service that is down: they do not say that it should.
* `RowsOfFile` says when there is a row that is not counted. That the arrays of published entries
  are sized by the count and filled by walking the list is not in the models.
* `RefusedOrStarted` is about what the code refuses, on purpose or not: `errno` left behind by a
  failed `setegid`, and a missing PATH, are among it.
* `NobodyStuck` is about requests no fault has come between; `paging_interrupted` has one.
* `ChildEnvironment` excepts the last variable of `environ`, which the new PATH overwrites; that
  PATH and PORT may be there twice is why it asks for the last of a name.

### Bounds

* **Entries** `N`. Two entries are enough for what depends on another row: the order of the
  walk, the pid of one row reused by another, a row reached while another is started. Nothing
  relates three rows. The proofs have no bound.
* **Pids**. `N + 1`, so that an entry can be restarted while its old pid is still remembered.
  Running out of pids (`SpawnFails`) happens in `quit`, where a second process keeps the pid of
  its group in use; in the other runs there is always one left.
* **`MaxQuits`**. A second request restarts the clock, so two are needed (`quit`, where
  `KilledAfterGrace` is checked for that reason); a user who
  asks for ever postpones SIGKILL for ever, and then `QuitCompletes` is not claimed.
  `convergence` has none because quitting is not its question; its state space is the
  largest of the liveness runs.
* **`TermTimeout`** = 1: before and after the timeout is all the code distinguishes.
* **`Stubborn`, `Forking`** are commands' behaviours; both kinds are in each instance that
  depends on them. In `convergence` entry 2 is not stubborn, which is the case `Stopped` is
  about.
* **`PidReuse`, `DtraceMayFail`, `ExitDuringAttach`** switch off, in the liveness runs, what
  the runs `short_lived` and `pid_reused` show to break restarting; the safety run has all
  of them on.
* **`CtrlC`** is on in `safety` and `quit`. **`Faults`** are what may happen to the pager fork.
* **Pager**: names of up to three bytes arrive in every partition; three requests reach
  the third use of the buffer after a longer and a shorter name.
* **One row**: a sample is compared with the one before, and an entry is behind by a pass, so
  two instances and two passes after a start are enough: `Horizon` leaves three seconds to
  `statistics` and four to `screen`, each for as many passes as the sleeps let in, and `screen`
  has a third instance. `Second` = 2 gives two times
  in one second where microseconds and seconds are compared; `Epoch` makes a clock in units
  larger than one in seconds, as it always is (`StatisticsAssumption`). `Word` is large enough
  for every clock of the model and small enough to tell a wrapped difference from any other.
  `NoNumber` has a least and a large value of a half-word.
  The models stop at `Horizon`.
* **Startup**: three words give every pair of options in both orders with a command before,
  between or after them; the environments have PATH first, last, alone and not at all, and a
  PORT.
* **Parser**: with chunks of four, files of six characters need two or three chunks and put
  a boundary on, before and after every kind of character.

Pid symmetry is used only in the safety run, which has no liveness property; the pids are
interchangeable in every definition.

### Fairness

* The status thread: strong fairness, as it needs the mutex. The main thread holds the mutex
  only for the time of a drawing or a walk (`LockedForWalks`, proved) and then waits in
  `getch` for up to a second without it, so the other thread gets it again and again.
* The main thread, the delivery of a pending SIGCHLD, the clock, the death of a process a
  fatal signal was delivered to: weak fairness.
* The user leaves the pager, and a pager fork that is there answers (`PagerAnswers`); how it
  may fail to is the subject of `PagerFork`, where both processes are weakly fair.
* `Startup` is one thread: weak fairness of its next step.
* Nothing is assumed of keys, of SIGINT, or of processes exiting by themselves.

## 4. What is proved

`FivemanProofs` proves, for every `N`, every finite set of pids and every choice of the
other constants:

| theorem | statement |
|---|---|
| `TypeCorrect` | `Spec => []TypeOK` |
| `ChildrenAreTracked` | `Spec => []EveryChildTracked` |
| `NoSecondInstance` | `Spec => []SingleInstance` |
| `SamplingIsAttached` | `Spec => []SampledIsAttached` |
| `LeftoversWereWanted` | `Spec => []LeftoverWasWanted` |
| `StopSticks` | `Spec => AdoptedStopSticks` |
| `Refinement` | `Spec => Supervises` |
| `PagingRespected` | `Spec => RespectsPager` |

`ScreenEntryProofs` proves, for every clock, every length of a second and every number of
instances:

| theorem | statement |
|---|---|
| `TypeCorrect` | `Spec => []TypeOK` |
| `OutputAnnounced` | `Spec => []Announced` |
| `ViewedStaysQuiet` | `Spec => []ViewedIsQuiet` |
| `FiguresBelong` | `Spec => []FiguresFit` |
| `LinesRecent` | `Spec => LineIsRecent` |

`StatisticsProofs` proves, for every clock, every width of the two words and every amount of
data:

| theorem | statement |
|---|---|
| `FiguresInRange` | `Spec => []TypeOK` |
| `BytesCountedOnce` | `Spec => []NoByteTwice` |
| `CpuOfInstance` | `Spec => CpuIsOwn` |

`QuitProofs` proves, for the same constants as `FivemanProofs`:

| theorem | statement |
|---|---|
| `NobodyLeft` | `Spec => QuitLeavesNobody` |
| `MutexForWalks` | `Spec => []LockedForWalks` |
| `QuitGoesForward` | `Spec => QuitMovesForward` |
| `GraceGiven` | `Spec => KilledAfterGrace` |

and `SignalProofs`:

| theorem | statement |
|---|---|
| `SignalsMeant` | `Spec => SignalsAreMeant` |

`PagerForkProofs` proves, for every set of files, every length of a name and every number of
requests:

| theorem | statement |
|---|---|
| `TypeCorrect` | `Spec => []TypeOK` |
| `RequestedIsPaged` | `Spec => []PagedIsRequested` |
| `ScreenIsFree` | `Spec => []ScreenAlone` |
| `NoMutualWait` | `Spec => []NobodyStuck` |
| `ContractKept` | `Spec => KeepsContract` |

`StartupProofs` proves, for every set of files, every size of a chunk, every command line and
every environment:

| theorem | statement |
|---|---|
| `TypeCorrect` | `Spec => []TypeOK` |
| `ChunksInvisible` | `Spec => []ChunksDontShow` |
| `ShortFilesAccepted` | `Spec => []ShortFilesParse` |
| `PathsFound` | `Spec => []PathsAreAsked` |
| `TableIsFile` | `Spec => []RowsOfFile` |
| `EnvironmentBuilt` | `Spec => []ChildEnvironment` |
| `RefusalsExact` | `Spec => []RefusedOrStarted` |
| `NothingTwice` | `Spec => MovesForward` |

The assumptions are those of the modules on their constants (`ChildrenAssumption`,
`ReuseAssumption`, `DtraceAssumption`, `ScreenAssumption`, `FivemanAssumption`,
`RowAssumption`, `StatisticsAssumption`, `PagerAssumption`, `ProcfileAssumption`,
`StartupAssumption`): `N`, the timeout and the length of a second are positive, the set of
pids is finite and does not contain 0, fiveman starts after the first second of the epoch, the
time of day fits the larger word, names of files are not empty, a chunk holds a character, and
an invocation is a sequence of words with an environment.

**The argument for the supervisor.** Only the status thread ever creates a process, and only when its own test
has found the row's leader gone; everybody else only takes processes away. So between that
test and the `posix_spawn` nothing can bring a leader back: the answer "dead" cannot go
stale. The inductive invariant `IInv` makes that precise, in parts:

* `SpawnGuarded`: where the status thread is about to spawn, the row's pid is not alive; it
  stays so until the new pid is assigned; and from the decision to the attachment the row's
  adopted intent is START;
* `Owned`: every process that is there was spawned for an entry;
* `Tracked`: every process is named by the row of its owner, or is the `subchild` about to be
  recorded (`EveryChildTracked` without its restriction to a running fiveman);
* `Attached`: until the status thread has ended, every row that has a pid has a context for
  it, except the row that is being attached;
* `PassStarts`: a pass begins and is displayed at the first row, so that "the rows before
  `row`" are those this pass has converged;
* `StopsTold`: a row converged in this pass whose intent is STOP has been told to die, unless
  its command ignores that; this is what the last pass hands to `LeftoverWasWanted`;
* `ExitedLast`: `main` has returned only after the status thread ended its last pass.

`SingleInstance` alone is not inductive: two processes could each be in no row.
Together with `Tracked`, two instances of one entry would have to be the same `pid[e]`, and
the remaining case, a spawn next to a living leader, is excluded by `SpawnGuarded`. Most
actions leave the variables of the invariant alone or only take processes away; lemmas on
these "quiet" steps deal with them once.

**Refinement.** `Supervision` has one `Launch`, which the step `Spawn` implements, one
`Adopt` (`Reflect`), wishes (`KeyDesires`, `BeginTermination`), `End` (waiting, silent exits)
and `Close` (returning, aborting, being killed). Every other step stutters. The theorem
uses `IInv` where `Launch` needs that the entry has no instance and is planned to run.

**Paging.** `PagingRespected` maps "paging" to a client that asks and "resume" to one that was
answered. Every step of `Fiveman` but those of the main thread, a SIGINT and an abort leaves
both alone; the latter two are `BreakDown` and `Leave`.

**The argument for the end of `draw_screen`.** `NobodyLeft` is about two walks over the table
that look at one row per step. `WalkIInv` adds to `IInv`:

* `LockedForWalks`: a walk holds the mutex, so that no intent is adopted during it. Where every
  adopted intent is STOP, `SpawnGuarded` then says that nothing is created (`NothingCreated`);
* `CountedStayGone`: hence the rows behind the cursor of a count that has found nobody still
  have no leader;
* `KilledStayKilled`: and those behind the cursor of the last signalling have none that has
  not been told to die;
* `Decided`: once the loop is to be left no further key is read, so nothing is launched again.

The last step of either walk makes its statement one about all rows, and `Tracked` extends
that from rows to processes: with every intent STOP, no process is outside the table.

`QuitGoesForward` needs `Decided` as well: `setup_screen`, which clears the decision, and a count,
which takes it anew, are both behind a main thread that has decided; and the last part of a pass
is ordered by `PassPart`, `row` and `RowPart`, with `TypeOK`. `GraceGiven` adds `GraceIInv`: walks
belong to a termination, and while the last signalling goes on the clock stands at the timeout,
as only a request that is looked at after the walk sets it back. That a process that ignores
SIGTERM is told to die by nothing but this walk (`OnlyKillTells`) goes through all steps.

**The argument for signals.** The status thread tests the intent of a row and signals two steps
apart, without the mutex. `StopGuarded`: where it is about to send SIGTERM, the row's adopted
intent is STOP, which stays so because the same thread adopts intents, at the top of a pass
only. The other step that signals is the walk of the main thread, which `GraceIInv` places in a
termination. Every other step of either thread, of a handler or of a child tells nobody to die.
`SignalIInv` is these three together with `IInv`.

**The argument for the pager fork.** `IInv` of `PagerForkProofs` follows the name of the
requested file through three places: what the fork has read, what is in the pipe and what is
still to be written are, one after the other, the name (`NameIsInParts`, and `SizeIsNext`
while its size has not been read). So the fork, which reads until it has as many bytes as the
size says, reads that name and nothing of the next, in whatever pieces. `PagingIsAlone` and
`ConfirmedIsServed` say that while the pager runs, and when the byte that confirms it is on
its way, no part of a request is left anywhere. `PagedIsRequested` alone does not
say what the next read will add. `NoMutualWait` needs two more parts: a dead fork has a reason
(`DeathIsExplained`), and a request that is neither in the pipe nor with the fork was answered
(`ServedIsAnswered`); that a fork in the middle of a name has bytes to read follows from the
lengths in `NameIsInParts`. `ContractKept` maps each step to a step of `Pager` or a
stutter with the same invariant.

**The argument for the parser.** `ParserIInv` of `ProcfileProofs` follows one position of the
file, `head`, where the current token begins. `ChunkOfFile`: the chunk is a piece of the file,
so a position in it is one in the file. `TokenIsOpen`: the token before ended at `head`, and
nothing that has been looked at since ends this one; a chunk that ends inside a token is given
back to its beginning, which leaves `head` where it is, and this is why chunks do not
show. `ListIsBuilt`: the list is that of the tokens that end up to `head`.
When the file has been read, these say what the list is (`FileIsRead`). `ShortFilesParse` is
part of the invariant: a file shorter than a chunk is all in the first one, so if no token
ends in that chunk the file has no instruction; and the last assertion fails only if no
instruction was completed.

**The argument for the start of `main`.** `IInv` of `StartupProofs` says what has been found
after each word in terms of the words looked at so far: `OptionsAreSeen` (a path and the port
are those of the last such option up to `optind`), `WordsAreSeen` (the command is the first
word), and in `NothingRefused` which of the reasons to refuse have been excluded, one for every
assertion that was passed. After the last word this is what the properties say. `TableIsBuilt`
connects the rows with the parser's list. `EnvironIsCounted` relates the three variables of the
walk over `environ`: the entry looked at is always number `esize`, and the turn at most one ahead
of it. So at the null pointer `esize` is the number of entries, and the stores at `esize - 1` and
`esize` fall on the last entry and on the first zero behind it (`EnvironIsCopied`).

**The argument for the screen.** An entry is copied three times on its way to the screen, and
each copy can be behind the one before it; the step the status thread has reached bounds by
how much. `IInv` of `ScreenEntryProofs` says so in parts:

* `TimesOK`: no modification time and no mark is ahead of the clock, and a mark is not later
  than the return from the pager that made it;
* `StatIsFresh`: a file nobody has written to since the pass began is known as it is, from
  the moment the row has converged;
* `Announcing`: hence an entry filled later in the pass announces output newer than the mark;
* `CaughtUp`, `Quiet`: what was seen completely stays so until something is written, even if
  the file is made anew by a start meanwhile, and a pass that begins later finds nothing new;
* `PidsFollow`: the published entry is at most one instance behind, and not at all between the
  end of a pass and the next convergence;
* `OwnFigures`: a sample is of the row's own instance or cleared, and so is every copy of it.

`Announced` alone is not inductive: an entry that is published next was filled two steps
before, from a look at the file another two steps before that.

**The argument for the figures.** `IInv` of `StatisticsProofs` adds to `NoByteTwice` what the
sampling relies on, `CpuFollows`: while a process is up and no thread was missed, `sample.total`
is what the instance had used when it was sampled, as far as a word holds it.
`CpuIsOwn` then follows from `WordDifference`: the difference of two words, in a word, is not
more than the difference of the numbers they stand for. That the figures stay in their words
holds whatever `lround` gives (`NoNumber`), so no length of a sleep is assumed.
`BytesCountedOnce` rests on a quotient times its divisor being at most the dividend.

**Only proved** are the types of `ScreenEntry` and `MovesForward` of `Startup`: TLC agrees with both,
but what they would show in a run is in other properties of it (`Terminates` fails for the
same mistakes as `MovesForward`).

**Only model-checked** is liveness, as fairness and `ENABLED` are out of the prover's reach:
`Restarted`, `Stopped`, `ZombiesReaped`, `QuitCompletes`, `QuitIsHeard`,
`PagingEndsUndisturbed` and `Terminates`. What they rest on and what is about single steps is
proved. For `Terminates`: by `NothingTwice` no step of the parser or of `main` takes it back, and
the positions it moves through are bounded by the file and the command line. For
`QuitCompletes`: by `QuitGoesForward` every step of either thread on the way out is one
forward, on finite scales, and by `MutexForWalks` none of them is blocked by the other thread for
longer than a walk. For `PagingEndsUndisturbed`: by `NoMutualWait` one of the two sides can
always go on. That such a step is then taken, and that finitely many of them are enough, is
fairness and induction, and is left to TLC.

## 5. What is not modelled

* The formatting of sizes and ages, the extents of the columns, the headers: values that no
  state change depends on. `last_state_change` is only ever formatted. (Among them is
  `BYTES_PER_EXABYTE`, which is a petabyte, so sizes from a petabyte up get the wrong unit.)
* What dtrace records: a record is one byte read, whichever of the six counters it goes to. The
  probes of `progstr` for the network record a descriptor for a size, not bytes.
* A clock that is set back, and a time of day beyond the range of an int.
* The removal of the output files by `fiveman_process_state_deallocate`, after which nothing
  looks at them.
* The pager itself and `PAGER`: a pager runs until the user leaves it.
* A kill of fiveman or of a child from outside, beyond what "a leader exits" covers.
* Code no caller reaches: `fiveman_process_state_change_intent` with the converge paths of
  INTENT_SIG and INTENT_NONE, the status strings,
  `reset_signal_handlers`, `install_ignore_sigint_handler`, `install_child_kill_handler`, the
  SIGPIPE pair and the reaping helper of `signal_handlers.c`.
* Failures of `pthread` calls, of memory allocation and of files that cannot be opened.

## 6. Plan

Done, in this order: the supervisor (`Children` to `Fiveman`), its abstract specification,
its safety proofs and refinement; the pager fork; the parser; the contract between main thread
and pager fork, on both sides; statistics; screen entries and output markers; the start of
main; the proofs about screen entries and statistics; the proofs about the pager fork, the
parser, the start of main and the end of `draw_screen`; the state halves of the liveness
arguments, and the proofs about the mutex, the way out and the causes of signals.

Left for later: the formatting of section 5, if anything is ever decided by a formatted value;
and, should a prover with `ENABLED` become available, `QuitCompletes` and `Restarted` along the
lines of the paragraph above.
