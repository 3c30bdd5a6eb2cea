------------------------------- MODULE Command -------------------------------
(***************************************************************************)
(* One command of the agent from spawn to result: run_inner in             *)
(* crates/mc-sandbox/src/backend.rs, what run_command in                   *)
(* crates/mc-agent/src/tools.rs makes of it, and the Cancel it waits on    *)
(* (crates/mc-core/src/cancel.rs).                                         *)
(*                                                                         *)
(* The command, the two readers of its pipes, its deadline, the thread     *)
(* that presses stop and the task that waits for all of them run at once.  *)
(* Of its processes there are the one that was spawned, what it leaves     *)
(* running in its group, and what has made a session of its own; all hold  *)
(* the write ends of both pipes.  What is printed is counted in pieces.    *)
(***************************************************************************)
EXTENDS Naturals

CONSTANTS
  MaxPrints,      \* bound: pieces printed to a pipe
  PipeSize,       \* pieces a pipe holds
  MaxStops        \* bound: presses of stop

ASSUME CommandAssumption ==
  /\ MaxPrints \in Nat
  /\ PipeSize \in Nat \ {0}
  /\ MaxStops \in Nat

Streams == {"out", "err"}

VARIABLES
  (* what was asked for; none of it changes *)
  proot,       \* it runs under proot --kill-on-exit
  limited,     \* it has a deadline
  stoppable,   \* it is run with a Cancel
  hangs,       \* left to itself it never ends

  (* the command *)
  leader,      \* the spawned process
  member,      \* what it left running in its group
  escaped,     \* what left its group
  todo,        \* what it still wants to print
  pipe,        \* what a pipe holds

  (* run_inner and run_command *)
  pc,
  verdict,     \* what the select ended with
  reader,      \* of each pipe
  read,        \* what it has read
  got,         \* what the result holds of it
  outcome,     \* the tool's answer

  (* the deadline and the Cancel *)
  passed,      \* the deadline has
  flagged,     \* Inner.flagged
  calls,       \* calls of notify_waiters
  stopper,     \* where the thread that calls cancel is
  waiter,      \* where the poll of cancelled is
  seen         \* the calls its notified was created after

asked     == <<proot, limited, stoppable, hangs>>
processes == <<leader, member, escaped>>
output    == <<todo, pipe>>
readers   == <<reader, read>>
result    == <<pc, verdict, got, outcome>>
stop      == <<flagged, calls, stopper>>
wait      == <<waiter, seen>>
vars      == <<asked, processes, output, readers, result, passed, stop, wait>>

Init ==
  /\ proot \in BOOLEAN /\ limited \in BOOLEAN /\ stoppable \in BOOLEAN /\ hangs \in BOOLEAN
  /\ leader = "none" /\ member = "none" /\ escaped = "none"
  /\ todo \in [Streams -> 0 .. MaxPrints]
  /\ pipe = [s \in Streams |-> 0]
  /\ pc = "spawn" /\ verdict = "none" /\ outcome = "none"
  /\ reader = [s \in Streams |-> "reads"]
  /\ read = [s \in Streams |-> 0] /\ got = [s \in Streams |-> 0]
  /\ passed = FALSE
  /\ flagged = FALSE /\ calls = 0 /\ stopper = "idle"
  /\ waiter = "looks" /\ seen = 0

-----------------------------------------------------------------------------
(***************************************************************************)
(* The command.                                                            *)
(***************************************************************************)
Held == "alive" \in {leader, member, escaped}

Prints(s) ==
  /\ leader = "alive"
  /\ todo[s] > 0 /\ pipe[s] < PipeSize
  /\ todo' = [todo EXCEPT ![s] = @ - 1]
  /\ pipe' = [pipe EXCEPT ![s] = @ + 1]
  /\ UNCHANGED <<asked, processes, readers, result, passed, stop, wait>>

Leaves ==
  /\ leader = "alive" /\ member = "none"
  /\ member' = "alive"
  /\ UNCHANGED <<asked, leader, escaped, output, readers, result, passed, stop,
                 wait>>

Escapes ==
  /\ "alive" \in {leader, member} /\ escaped = "none"
  /\ escaped' = "alive"
  /\ UNCHANGED <<asked, leader, member, output, readers, result, passed, stop,
                 wait>>

(* proot, on the exit of the guest's first process, takes all its guests.  *)
LeaderExits ==
  /\ leader = "alive" /\ ~hangs
  /\ \A s \in Streams : todo[s] = 0
  /\ leader' = "zombie"
  /\ IF proot THEN /\ member' = IF member = "alive" THEN "dead" ELSE member
                   /\ escaped' = IF escaped = "alive" THEN "dead" ELSE escaped
              ELSE UNCHANGED <<member, escaped>>
  /\ UNCHANGED <<asked, output, readers, result, passed, stop, wait>>

OthersExit ==
  /\ \/ member = "alive" /\ member' = "dead" /\ UNCHANGED escaped
     \/ escaped = "alive" /\ escaped' = "dead" /\ UNCHANGED member
  /\ UNCHANGED <<asked, leader, output, readers, result, passed, stop, wait>>

-----------------------------------------------------------------------------
(***************************************************************************)
(* Cancel.                                                                 *)
(***************************************************************************)
(* What is not run with a Cancel is not concerned.                         *)
Flag ==
  /\ stoppable
  /\ stopper = "idle" /\ calls < MaxStops
  /\ flagged' = TRUE
  /\ stopper' = "flagged"
  /\ UNCHANGED <<asked, processes, output, readers, result, passed, calls, wait>>

Notify ==
  /\ stopper = "flagged"
  /\ calls' = calls + 1
  /\ stopper' = "idle"
  /\ UNCHANGED <<asked, processes, output, readers, result, passed, flagged, wait>>

Waits == pc = "select" /\ stoppable

Looks ==
  /\ Waits /\ waiter = "looks"
  /\ waiter' = IF flagged THEN "sees" ELSE "registers"
  /\ UNCHANGED <<asked, processes, output, readers, result, passed, stop, seen>>

(* A Notified counts the calls made before it was created, and is ready    *)
(* once there has been another.                                            *)
Registers ==
  /\ Waits /\ waiter = "registers"
  /\ seen' = calls
  /\ waiter' = "looksAgain"
  /\ UNCHANGED <<asked, processes, output, readers, result, passed, stop>>

(* Mutant: the flag is not looked at again.                                *)
LooksOnce ==
  /\ Waits /\ waiter = "looksAgain"
  /\ waiter' = "waits"
  /\ UNCHANGED <<asked, processes, output, readers, result, passed, stop, seen>>

LooksAgain ==
  /\ Waits /\ waiter = "looksAgain"
  /\ waiter' = IF flagged THEN "sees" ELSE "waits"
  /\ UNCHANGED <<asked, processes, output, readers, result, passed, stop, seen>>

Wakes ==
  /\ Waits /\ waiter = "waits" /\ calls > seen
  /\ waiter' = "looks"
  /\ UNCHANGED <<asked, processes, output, readers, result, passed, stop, seen>>

-----------------------------------------------------------------------------
(***************************************************************************)
(* run_inner.                                                              *)
(***************************************************************************)
Spawn ==
  /\ pc = "spawn"
  /\ pc' = "select" /\ leader' = "alive"
  /\ UNCHANGED <<asked, member, escaped, output, readers, verdict, got,
                 outcome, passed,
                 stop, wait>>

SpawnFails ==
  /\ pc = "spawn"
  /\ pc' = "reported" /\ outcome' = "failed"
  /\ UNCHANGED <<asked, processes, output, readers, verdict, got, passed, stop,
                 wait>>

Reads(s) ==
  /\ leader # "none" /\ reader[s] = "reads" /\ pipe[s] > 0
  /\ pipe' = [pipe EXCEPT ![s] = @ - 1]
  /\ read' = [read EXCEPT ![s] = @ + 1]
  /\ UNCHANGED <<asked, processes, todo, reader, result, passed, stop, wait>>

ReaderEnds(s) ==
  /\ leader # "none" /\ reader[s] = "reads" /\ pipe[s] = 0
  /\ ~Held
  /\ reader' = [reader EXCEPT ![s] = "ended"]
  /\ UNCHANGED <<asked, processes, output, read, result, passed, stop, wait>>

DeadlinePasses ==
  /\ pc = "select" /\ limited /\ ~passed
  /\ passed' = TRUE
  /\ UNCHANGED <<asked, processes, output, readers, result, stop, wait>>

(* child.wait() is the first to be ready.                                  *)
Exits ==
  /\ pc = "select" /\ leader = "zombie"
  /\ pc' = "drainOut" /\ verdict' = "exited" /\ leader' = "reaped"
  /\ UNCHANGED <<asked, member, escaped, output, readers, got, outcome, passed,
                 stop, wait>>

(* Mutant: only the spawned process is killed.                             *)
KillLeader ==
  /\ leader' = IF leader = "alive" THEN "zombie" ELSE leader
  /\ UNCHANGED member

(* Of proot itself nothing but its group takes the guests down.            *)
KillGroup ==
  /\ leader' = IF leader = "alive" THEN "zombie" ELSE leader
  /\ member' = IF member = "alive" THEN "dead" ELSE member

Overstays ==
  /\ pc = "select" /\ passed
  /\ KillGroup
  /\ pc' = "reap" /\ verdict' = "timeout"
  /\ UNCHANGED <<asked, escaped, output, readers, got, outcome, passed, stop, wait>>

Stopped ==
  /\ pc = "select" /\ waiter = "sees"
  /\ KillGroup
  /\ pc' = "reap" /\ verdict' = "stopped"
  /\ UNCHANGED <<asked, escaped, output, readers, got, outcome, passed, stop, wait>>

Reaps ==
  /\ pc = "reap" /\ leader = "zombie"
  /\ pc' = "drainOut" /\ leader' = "reaped"
  /\ UNCHANGED <<asked, member, escaped, output, readers, verdict, got,
                 outcome, passed,
                 stop, wait>>

Drain(s) == IF s = "out" THEN "drainOut" ELSE "drainErr"

After(s) == IF s = "out" THEN "drainErr" ELSE "report"

(* Mutant: what has been read so far is taken.                             *)
DrainsEarly(s) ==
  /\ pc = Drain(s)
  /\ got' = [got EXCEPT ![s] = read[s]]
  /\ pc' = After(s)
  /\ UNCHANGED <<asked, processes, output, readers, verdict, outcome, passed,
                 stop, wait>>

Drains(s) ==
  /\ pc = Drain(s) /\ reader[s] = "ended"
  /\ got' = [got EXCEPT ![s] = read[s]]
  /\ pc' = After(s)
  /\ UNCHANGED <<asked, processes, output, readers, verdict, outcome, passed,
                 stop, wait>>

(* Mutant: there is no grace after an exit.                                *)
GivesUpIfKilled(s) ==
  /\ pc = Drain(s) /\ reader[s] = "reads"
  /\ Held /\ verdict # "exited"
  /\ pc' = After(s)
  /\ UNCHANGED <<asked, processes, output, readers, verdict, got, outcome,
                 passed, stop, wait>>

(* DRAIN_GRACE is over.  It is long enough for a pipe nobody holds.        *)
GivesUp(s) ==
  /\ pc = Drain(s) /\ reader[s] = "reads"
  /\ Held
  /\ pc' = After(s)
  /\ UNCHANGED <<asked, processes, output, readers, verdict, got, outcome,
                 passed, stop, wait>>

(* run_command.                                                            *)
Reports ==
  /\ pc = "report"
  /\ pc' = "reported"
  /\ outcome' = IF stoppable /\ flagged THEN "stopped"
                ELSE IF verdict = "timeout" THEN "timed out" ELSE "ended"
  /\ UNCHANGED <<asked, processes, output, readers, verdict, got, passed, stop,
                 wait>>

-----------------------------------------------------------------------------
Program == (\E s \in Streams : Prints(s)) \/ LeaderExits

Others == Leaves \/ Escapes \/ OthersExit

Poll == Looks \/ Registers \/ LooksAgain \/ Wakes

Task ==
  \/ Spawn \/ SpawnFails
  \/ Exits \/ Overstays \/ Stopped \/ Reaps
  \/ \E s \in Streams : Drains(s) \/ GivesUp(s)
  \/ Reports

Reader(s) == Reads(s) \/ ReaderEnds(s)

Next ==
  \/ Program \/ Others
  \/ Flag \/ Notify \/ Poll
  \/ DeadlinePasses
  \/ Task
  \/ \E s \in Streams : Reader(s)

Spec == Init /\ [][Next]_vars

(* The runtime polls every task that is ready, the clock runs, a thread    *)
(* that set the flag goes on to notify, and a command that does not hang   *)
(* writes what its pipes take and exits.  Nobody has to press stop.        *)
FairSpec ==
  /\ Spec
  /\ WF_vars(Program)
  /\ WF_vars(Notify)
  /\ WF_vars(Poll)
  /\ WF_vars(DeadlinePasses)
  /\ WF_vars(Task)
  /\ \A s \in Streams : WF_vars(Reader(s))

-----------------------------------------------------------------------------
(***************************************************************************)
(* Properties.                                                             *)
(***************************************************************************)
Life == {"none", "alive", "dead"}

(* Every variable has its type, and a result is given only when the        *)
(* spawned process has been waited for: none stays a zombie.               *)
TypeOK ==
  /\ {proot, limited, stoppable, hangs, passed, flagged} \subseteq BOOLEAN
  /\ leader \in {"none", "alive", "zombie", "reaped"}
  /\ {member, escaped} \subseteq Life
  /\ todo \in [Streams -> 0 .. MaxPrints]
  /\ pipe \in [Streams -> 0 .. PipeSize]
  /\ pc \in {"spawn", "select", "reap", "drainOut", "drainErr", "report", "reported"}
  /\ verdict \in {"none", "exited", "timeout", "stopped"}
  /\ reader \in [Streams -> {"reads", "ended"}]
  /\ read \in [Streams -> 0 .. MaxPrints] /\ got \in [Streams -> 0 .. MaxPrints]
  /\ outcome \in {"none", "failed", "stopped", "timed out", "ended"}
  /\ calls \in 0 .. MaxStops
  /\ stopper \in {"idle", "flagged"}
  /\ waiter \in {"looks", "registers", "looksAgain", "waits", "sees"}
  /\ seen \in 0 .. MaxStops
  /\ pc \in {"drainOut", "drainErr", "report", "reported"} => leader \in {"none", "reaped"}

(* A stop cannot be missed: whoever waits is woken, or will be, by a call  *)
(* made after the flag was set (cancel.rs:31-38, 55-56).                   *)
NoLostWakeUp ==
  waiter = "waits" /\ flagged => calls > seen \/ stopper = "flagged"

(* A command answered with a deadline or a stop has left nothing of its    *)
(* group behind, what it started included (backend.rs:436-444, 481-485);   *)
(* on the host, unless it had ended by then.                               *)
KilledIsGone ==
  outcome \in {"stopped", "timed out"} =>
    member # "alive" \/ (verdict = "exited" /\ ~proot)

(* What a command printed is in its result, up to the moment it was        *)
(* killed (tools.rs:78-83), unless something it started outlived it and    *)
(* kept the pipes.                                                         *)
Outlived == escaped # "none" \/ (member # "none" /\ verdict = "exited" /\ ~proot)

OutputIsWhole ==
  pc = "reported" /\ ~Outlived =>
    \A s \in Streams : pipe[s] = 0 /\ got[s] = read[s]

(* A command ends if it can, or if it has a deadline, or once it is        *)
(* stopped, whatever it prints and whatever keeps its pipes open           *)
(* (backend.rs:306-310, 350-352, 400-403).                                 *)
EndsAtLast ==
  [](~hangs \/ limited \/ (stoppable /\ flagged) => <>(pc = "reported"))
=============================================================================
