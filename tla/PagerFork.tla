----------------------------- MODULE PagerFork ------------------------------
(***************************************************************************)
(* The pager fork: a process forked at the very start of main that runs    *)
(* the user's PAGER on request (src/src/fiveman_pager_fork.c).             *)
(*                                                                         *)
(* The parent asks for a file over one pipe, first the length of its name, *)
(* then the name, and blocks until a byte comes back over a second pipe.   *)
(* The fork reads the two parts, forks the pager, waits for it and sends   *)
(* the byte.  A pipe keeps no message boundaries: a read returns what is   *)
(* there, up to what it asked for.                                         *)
(***************************************************************************)
EXTENDS Naturals, Sequences, SequencesExt

CONSTANTS
  Files,         \* the files that can be paged; a file is the length of its name
  MaxRequests,   \* bound: how many files the user pages
  Faults         \* what may happen: the user presses Ctrl-C ("ctrl_c"),
                 \* fork() fails, for the pager fork or in it ("no_fork")

ASSUME PagerAssumption ==
  /\ Files \subseteq Nat \ {0}
  /\ MaxRequests \in Nat
  /\ Faults \subseteq {"ctrl_c", "no_fork"}

VARIABLES
  parent,           \* what the main thread of fiveman is doing
  request,          \* the file it last asked for, 0 if none
  unwritten,        \* what is left to write of its name
  file_pipe,        \* the bytes in the pipe to the fork
  confirm_pipe,     \* the number of bytes in the pipe back
  fork,             \* what the pager fork is doing
  num_bytes,        \* the length it has read
  buffer,           \* its buffer, up to the first zero byte
  buffer_pointer,   \* where it reads the next bytes to
  pager,            \* the name the running pager was given, <<>> if none runs
  requests,         \* how many files were paged
  happened          \* history: the faults that have happened

parentVars == <<parent, request, unwritten, requests>>
forkVars == <<fork, num_bytes, buffer, buffer_pointer>>
vars == <<parentVars, forkVars, file_pipe, confirm_pipe, pager, happened>>

(* The bytes of the name of file f, and its length as one item: the four   *)
(* bytes are written by one write no reader can see a part of.             *)
Size(f) == <<f, 0>>
Name(f) == [i \in 1..f |-> <<f, i>>]

Bytes == UNION {{f} \X (0..f) : f \in Files}

TypeOK ==
  /\ parent \in {"idle", "writing", "waiting", "gone"}
  /\ request \in Files \cup {0}
  /\ unwritten \in Seq(Bytes)
  /\ file_pipe \in Seq(Bytes)
  /\ confirm_pipe \in Nat
  /\ fork \in {"size", "name", "paging", "dead"}
  /\ num_bytes \in Nat
  /\ buffer \in Seq(Bytes)
  /\ buffer_pointer \in Nat
  /\ pager \in Seq(Bytes)
  /\ requests \in 0..MaxRequests
  /\ happened \subseteq Faults

(* fiveman_pager_fork_create.  Nothing looks at what fork() returned: with *)
(* no pager fork nobody has the other ends of the pipes, as when it died.  *)
Init ==
  /\ parent = "idle" /\ request = 0 /\ unwritten = <<>> /\ requests = 0
  /\ file_pipe = <<>> /\ confirm_pipe = 0
  /\ \/ fork = "size" /\ happened = {}
     \/ "no_fork" \in Faults /\ fork = "dead" /\ happened = {"no_fork"}
  /\ num_bytes = 0 /\ buffer = <<>> /\ buffer_pointer = 0
  /\ pager = <<>>
-----------------------------------------------------------------------------
(* Variant with a defect: the terminating zero byte is sent as well.       *)
PageFileAndZero(f) ==
  /\ parent = "idle" /\ requests < MaxRequests
  /\ request' = f /\ requests' = requests + 1
  /\ \/ /\ fork # "dead"
        /\ file_pipe' = Append(file_pipe, Size(f))
        /\ unwritten' = [i \in 1..(f + 1) |-> <<f, i>>]
        /\ parent' = "writing"
     \/ /\ fork = "dead"
        /\ parent' = "gone"
        /\ UNCHANGED <<file_pipe, unwritten>>
  /\ UNCHANGED <<forkVars, confirm_pipe, pager, happened>>

(* Variant with a defect: the terminating zero byte is counted.            *)
PageFileCountingZero(f) ==
  /\ parent = "idle" /\ requests < MaxRequests
  /\ request' = f /\ requests' = requests + 1
  /\ \/ /\ fork # "dead"
        /\ file_pipe' = Append(file_pipe, Size(f + 1))
        /\ unwritten' = Name(f)
        /\ parent' = "writing"
     \/ /\ fork = "dead"
        /\ parent' = "gone"
        /\ UNCHANGED <<file_pipe, unwritten>>
  /\ UNCHANGED <<forkVars, confirm_pipe, pager, happened>>

(* Variant with a defect: SIGPIPE is ignored.                              *)
PageFileIgnoringSigpipe(f) ==
  /\ parent = "idle" /\ requests < MaxRequests
  /\ request' = f /\ requests' = requests + 1
  /\ file_pipe' = IF fork # "dead" THEN Append(file_pipe, Size(f)) ELSE file_pipe
  /\ unwritten' = Name(f)
  /\ parent' = "writing"
  /\ UNCHANGED <<forkVars, confirm_pipe, pager, happened>>

(* fiveman_pager_fork_page_file: the length.  Writing to a pipe nobody     *)
(* reads any more ends fiveman with SIGPIPE.                               *)
PageFile(f) ==
  /\ parent = "idle" /\ requests < MaxRequests
  /\ request' = f /\ requests' = requests + 1
  /\ \/ /\ fork # "dead"
        /\ file_pipe' = Append(file_pipe, Size(f))
        /\ unwritten' = Name(f)
        /\ parent' = "writing"
     \/ /\ fork = "dead"
        /\ parent' = "gone"
        /\ UNCHANGED <<file_pipe, unwritten>>
  /\ UNCHANGED <<forkVars, confirm_pipe, pager, happened>>

(* The name, longer than the kernel copies in one piece perhaps.           *)
WriteName ==
  /\ parent = "writing"
  /\ \/ /\ fork # "dead"
        /\ \E n \in 1..Len(unwritten) :
             /\ file_pipe' = file_pipe \o SubSeq(unwritten, 1, n)
             /\ unwritten' = SubSeq(unwritten, n + 1, Len(unwritten))
        /\ parent' = IF unwritten' = <<>> THEN "waiting" ELSE "writing"
     \/ /\ fork = "dead"
        /\ parent' = "gone"
        /\ UNCHANGED <<file_pipe, unwritten>>
  /\ UNCHANGED <<request, requests, forkVars, confirm_pipe, pager, happened>>

(* Variant with a defect: the wait gives up after a while.                 *)
WaitWithTimeout ==
  /\ parent = "waiting"
  /\ confirm_pipe' = 0
  /\ parent' = "idle"
  /\ UNCHANGED <<request, unwritten, requests, forkVars, file_pipe, pager, happened>>

(* fiveman_pager_fork_wait_for_confirm: whatever has been sent will do.    *)
(* (With nothing in the pipe and nobody to write, it reads nothing for     *)
(* ever.)                                                                  *)
WaitForConfirm ==
  /\ parent = "waiting" /\ confirm_pipe > 0
  /\ confirm_pipe' = 0
  /\ parent' = "idle"
  /\ UNCHANGED <<request, unwritten, requests, forkVars, file_pipe, pager, happened>>

(* fiveman_pager_fork_destroy, at the end of main.                         *)
Destroy ==
  /\ parent = "idle"
  /\ parent' = "gone" /\ fork' = "dead"
  /\ UNCHANGED <<request, unwritten, requests, num_bytes, buffer,
                 buffer_pointer, file_pipe, confirm_pipe, pager, happened>>

(* fiveman is aborted by an assertion on its status thread, or killed.     *)
ParentDies ==
  /\ parent # "gone"
  /\ parent' = "gone"
  /\ UNCHANGED <<request, unwritten, requests, forkVars, file_pipe,
                 confirm_pipe, pager, happened>>
-----------------------------------------------------------------------------
ReadSize ==
  /\ fork = "size" /\ file_pipe # <<>>
  /\ num_bytes' = Head(file_pipe)[1]
  /\ file_pipe' = Tail(file_pipe)
  /\ fork' = "name"
  /\ buffer_pointer' = 0 /\ buffer' = <<>>
  /\ UNCHANGED <<parentVars, confirm_pipe, pager, happened>>

(* Variant with a defect: every read goes to the start of the buffer.      *)
OverwrittenFromStart(buf, at, bs) ==
  bs \o SubSeq(buf, Len(bs) + 1, Len(buf))

(* What the buffer holds after a read of bs at position at.                *)
Overwritten(buf, at, bs) ==
  SubSeq(buf, 1, at) \o bs \o SubSeq(buf, at + Len(bs) + 1, Len(buf))

(* A read of up to num_bytes; when the name is complete the pager is       *)
(* forked, and if that fails nobody is told.                               *)
ReadName ==
  /\ fork = "name" /\ file_pipe # <<>>
  /\ LET n == Min({num_bytes, Len(file_pipe)})
         read == Overwritten(buffer, buffer_pointer, SubSeq(file_pipe, 1, n))
     IN  /\ file_pipe' = SubSeq(file_pipe, n + 1, Len(file_pipe))
         /\ \/ /\ buffer_pointer + n # num_bytes
               /\ buffer' = read /\ buffer_pointer' = buffer_pointer + n
               /\ UNCHANGED <<fork, pager, happened>>
            \/ /\ buffer_pointer + n = num_bytes
               /\ buffer' = read /\ buffer_pointer' = buffer_pointer + n
               /\ fork' = "paging" /\ pager' = read
               /\ UNCHANGED happened
            \/ /\ buffer_pointer + n = num_bytes /\ "no_fork" \in Faults
               /\ happened' = happened \cup {"no_fork"}
               /\ buffer' = <<>> /\ buffer_pointer' = 0
               /\ fork' = "size"
               /\ UNCHANGED pager
  /\ UNCHANGED <<parentVars, num_bytes, confirm_pipe>>

(* The user leaves the pager, or it could not be executed.                 *)
PagerEnds ==
  /\ pager # <<>>
  /\ pager' = <<>>
  /\ UNCHANGED <<parentVars, forkVars, file_pipe, confirm_pipe, happened>>

(* Variant with a defect: the byte is not sent.                            *)
ConfirmNothing ==
  /\ fork = "paging" /\ pager = <<>>
  /\ fork' = "size"
  /\ buffer' = <<>> /\ buffer_pointer' = 0
  /\ UNCHANGED <<parentVars, num_bytes, file_pipe, confirm_pipe, pager, happened>>

(* waitpid returns: the byte is sent, which is the end of the fork if      *)
(* nobody can read it any more, and the buffer is cleared.                 *)
Confirm ==
  /\ fork = "paging" /\ pager = <<>>
  /\ \/ /\ parent # "gone"
        /\ confirm_pipe' = confirm_pipe + 1
        /\ fork' = "size"
        /\ buffer' = <<>> /\ buffer_pointer' = 0
     \/ /\ parent = "gone"
        /\ fork' = "dead"
        /\ UNCHANGED <<confirm_pipe, buffer, buffer_pointer>>
  /\ UNCHANGED <<parentVars, num_bytes, file_pipe, pager, happened>>

(* Ctrl-C goes to the foreground process group.  The pager is no group     *)
(* leader, so tcsetpgrp fails and fiveman's own group stays in the         *)
(* foreground: fiveman handles the signal, the fork dies of it, the pager  *)
(* may or may not.                                                         *)
Interrupt ==
  /\ "ctrl_c" \in Faults /\ parent # "gone" /\ fork # "dead"
  /\ fork' = "dead" /\ happened' = happened \cup {"ctrl_c"}
  /\ pager' \in {pager, <<>>}
  /\ UNCHANGED <<parentVars, num_bytes, buffer, buffer_pointer, file_pipe,
                 confirm_pipe>>

(* fiveman has gone and nothing is being paged.  (A fork that is left      *)
(* reads nothing for ever.)                                                *)
Over ==
  /\ parent = "gone" /\ pager = <<>>
  /\ UNCHANGED vars

ParentStep == WriteName \/ WaitForConfirm
ForkStep == ReadSize \/ ReadName \/ Confirm

Next ==
  \/ \E f \in Files : PageFile(f)
  \/ ParentStep \/ Destroy \/ ParentDies
  \/ ForkStep
  \/ PagerEnds
  \/ Interrupt
  \/ Over

Spec == Init /\ [][Next]_vars

(* Both processes are scheduled and the user leaves the pager in the end.  *)
FairSpec ==
  Spec /\ WF_vars(ParentStep) /\ WF_vars(ForkStep) /\ WF_vars(PagerEnds)
-----------------------------------------------------------------------------
(* What is paged is what was asked for, byte for byte, however the name    *)
(* comes through the pipe and whatever was paged before.                   *)
PagedIsRequested == pager # <<>> => pager = Name(request)

(* fiveman draws its screen only when no pager is on the terminal, and a   *)
(* request leaves nothing behind, in the pipes or in the fork, that the    *)
(* next could take for its own.                                            *)
ScreenAlone ==
  parent = "idle" =>
    /\ pager = <<>>
    /\ file_pipe = <<>> /\ confirm_pipe = 0
    /\ fork \in {"size", "dead"}

(* The two sides never wait for each other: while fiveman waits, and       *)
(* nothing has gone wrong, its request is in exactly one place, in front   *)
(* of the fork, with the pager, or answered in the pipe back.              *)
NobodyStuck ==
  parent = "waiting" /\ happened = {} =>
    \/ fork \in {"size", "name"} /\ file_pipe # <<>> /\ confirm_pipe = 0
    \/ fork = "paging" /\ file_pipe = <<>> /\ confirm_pipe = 0
    \/ fork = "size" /\ file_pipe = <<>> /\ confirm_pipe = 1

(* README.md:5 "can be viewed interactively when you want to observe the   *)
(* log output": the user who asks to view a file gets the screen back.     *)
PagingEnds == parent \in {"writing", "waiting"} ~> parent \in {"idle", "gone"}

(* He does, as long as the pager fork is neither interrupted nor unable to *)
(* fork, whatever he paged before.                                         *)
PagingEndsUndisturbed ==
  parent \in {"writing", "waiting"} ~> (parent \in {"idle", "gone"} \/ happened # {})

(* Both sides together keep the contract Fiveman relies on.                *)
Contract == INSTANCE Pager WITH
  client <- CASE parent = "idle" -> "free"
              [] parent = "gone" -> "gone"
              [] parent = "waiting" /\ confirm_pipe > 0 -> "answered"
              [] OTHER -> "asking",
  service <- IF fork = "dead" THEN "down" ELSE "up"

KeepsContract == Contract!Spec
=============================================================================
