-------------------------------- MODULE Jobs --------------------------------
(***************************************************************************)
(* Commands that outlive the turn that started them: the process-wide      *)
(* registry of crates/mc-sandbox/src/jobs.rs and the published count of    *)
(* crates/mc-core/src/jobs.rs.                                             *)
(*                                                                         *)
(* Thread 0 is the agent's tool loop, which starts, reads and kills jobs   *)
(* one call at a time.  Thread j > 0 is the reaper task of job j.  They    *)
(* share the registry and run at once on the worker's runtime; each lock   *)
(* taken, each atomic stored and each signal sent is a step of its own.    *)
(* A scan made under the registry's lock is one step.                      *)
(*                                                                         *)
(* A job's process group is its leader, the process that was spawned and   *)
(* is waited for, and whether anything else in the group is alive.  Its    *)
(* output is counted in chunks: in the pipe, in the buffer, read.          *)
(***************************************************************************)
EXTENDS Integers, FiniteSets

CONSTANTS
  MaxJobs,        \* bound: jobs started in a behaviour
  MaxFinished,    \* finished jobs kept for their output (MAX_FINISHED)
  MaxPrints,      \* bound: chunks one job prints
  Workers,        \* the runtime's threads, on which the reapers run
  KillOnExit      \* proot: what the leader leaves behind dies with it

ASSUME JobsAssumption ==
  /\ MaxJobs \in Nat
  /\ MaxFinished \in Nat
  /\ MaxPrints \in Nat
  /\ Workers \in Nat \ {0}
  /\ KillOnExit \in BOOLEAN

Job    == 1 .. MaxJobs
Caller == 0
Thread == {Caller} \cup Job

VARIABLES
  next,         \* NEXT_ID
  registry,     \* the ids in the map
  status,       \* Job::status; "none" before the job exists
  finishedAt,   \* Job::finished as a point of the clock; 0 for None
  clock,        \* Instant::now
  leader,       \* the spawned process: "none", "alive", "zombie", "reaped"
  members,      \* whether another process of the group is alive
  pc,           \* what each thread does next
  target,       \* the job the caller's operation is about; 0 between two
  todo,         \* the jobs kill_all still has to kill
  counted,      \* what a thread's running_count() returned; 0 once stored
  published     \* mc_core::jobs::RUNNING

VARIABLES
  printed,      \* chunks each job has written
  pipe,         \* of those, still in its pipes
  unread        \* of those, in its buffer and not read

(* Observed, never read by a guard.                                        *)
VARIABLES
  answered,     \* jobs a kill(id) has returned for
  overtaking    \* threads with a count to store when the last count was taken

processes == <<leader, members>>
records   == <<registry, status, finishedAt, clock>>
output    == <<printed, pipe, unread>>
observed  == <<answered, overtaking>>
vars == <<next, records, processes, pc, target, todo, counted, published,
          output, observed>>

Places == {"unborn", "idle", "waiting", "signal", "status", "finished", "prune",
           "count", "store", "done"}

Init ==
  /\ next = 1
  /\ registry = {}
  /\ status = [j \in Job |-> "none"]
  /\ finishedAt = [j \in Job |-> 0]
  /\ clock = 0
  /\ leader = [j \in Job |-> "none"]
  /\ members = [j \in Job |-> FALSE]
  /\ pc = [t \in Thread |-> IF t = Caller THEN "idle" ELSE "unborn"]
  /\ target = 0
  /\ todo = {}
  /\ counted = [t \in Thread |-> 0]
  /\ published = 0
  /\ printed = [j \in Job |-> 0]
  /\ pipe = [j \in Job |-> 0]
  /\ unread = [j \in Job |-> 0]
  /\ answered = {}
  /\ overtaking = {}

-----------------------------------------------------------------------------
Running(j)  == status[j] = "running"
Finished(j) == status[j] \in {"exited", "killed"}

Subject(t) == IF t = Caller THEN target ELSE t
Verdict(t) == IF t = Caller THEN "killed" ELSE "exited"

Goto(t, place) == pc' = [pc EXCEPT ![t] = place]

RunningCount == Cardinality({j \in registry : Running(j)})

(* The finished jobs prune forgets: all but the latest MaxFinished.        *)
Recorded == {j \in registry : Finished(j) /\ finishedAt[j] > 0}

Surplus ==
  {j \in Recorded :
     Cardinality({k \in Recorded : finishedAt[k] > finishedAt[j]}) >= MaxFinished}

-----------------------------------------------------------------------------
(***************************************************************************)
(* start: spawn, register, publish, and only then the reaper.              *)
(***************************************************************************)
Start ==
  /\ pc[Caller] = "idle" /\ todo = {}
  /\ next \in Job
  /\ next' = next + 1
  /\ registry' = registry \cup {next}
  /\ status' = [status EXCEPT ![next] = "running"]
  /\ leader' = [leader EXCEPT ![next] = "alive"]
  /\ \E forks \in BOOLEAN : members' = [members EXCEPT ![next] = forks]
  /\ target' = next
  /\ Goto(Caller, "count")
  /\ UNCHANGED <<finishedAt, clock, todo, counted, published, output, observed>>

-----------------------------------------------------------------------------
(***************************************************************************)
(* finish, called by the reaper and by kill: four locks and an atomic.     *)
(***************************************************************************)
(* Mutant: whoever comes last decides how the job ended.                   *)
FinishStatusAlways(t) ==
  /\ pc[t] = "status"
  /\ status' = [status EXCEPT ![Subject(t)] = Verdict(t)]
  /\ Goto(t, "finished")
  /\ UNCHANGED <<next, registry, finishedAt, clock, processes, target, todo,
                 counted, published, output, observed>>

FinishStatus(t) ==
  /\ pc[t] = "status"
  /\ status' = IF Running(Subject(t))
               THEN [status EXCEPT ![Subject(t)] = Verdict(t)]
               ELSE status
  /\ Goto(t, "finished")
  /\ UNCHANGED <<next, registry, finishedAt, clock, processes, target, todo,
                 counted, published, output, observed>>

FinishAt(t) ==
  /\ pc[t] = "finished"
  /\ IF finishedAt[Subject(t)] = 0
     THEN /\ clock' = clock + 1
          /\ finishedAt' = [finishedAt EXCEPT ![Subject(t)] = clock + 1]
     ELSE UNCHANGED <<clock, finishedAt>>
  /\ Goto(t, "prune")
  /\ UNCHANGED <<next, registry, status, processes, target, todo, counted,
                 published, output, observed>>

(* Mutants: the record is pruned only when it is already over the bound;   *)
(* the running jobs are pruned with the rest; the latest go first.         *)
PruneLatest(t) ==
  /\ pc[t] = "prune"
  /\ registry' =
       registry \ {j \in Recorded :
                     Cardinality({k \in Recorded : finishedAt[k] < finishedAt[j]})
                       >= MaxFinished}
  /\ Goto(t, "count")
  /\ UNCHANGED <<next, status, finishedAt, clock, processes, target, todo,
                 counted, published, output, observed>>

PruneLate(t) ==
  /\ pc[t] = "prune"
  /\ registry' = IF Cardinality(Recorded) > MaxFinished + 1
                 THEN registry \ Surplus ELSE registry
  /\ Goto(t, "count")
  /\ UNCHANGED <<next, status, finishedAt, clock, processes, target, todo,
                 counted, published, output, observed>>

PruneAll(t) ==
  /\ pc[t] = "prune"
  /\ registry' = IF Cardinality(registry) > MaxFinished
                 THEN {j \in registry : \A k \in registry : k <= j}
                 ELSE registry
  /\ Goto(t, "count")
  /\ UNCHANGED <<next, status, finishedAt, clock, processes, target, todo,
                 counted, published, output, observed>>

Prune(t) ==
  /\ pc[t] = "prune"
  /\ registry' = registry \ Surplus
  /\ Goto(t, "count")
  /\ UNCHANGED <<next, status, finishedAt, clock, processes, target, todo,
                 counted, published, output, observed>>

(* Mutant: what is published is what was counted before the verdict.       *)
CountAsBefore(t) ==
  /\ pc[t] = "count"
  /\ counted' = [counted EXCEPT ![t] = IF t = Caller THEN RunningCount ELSE published]
  /\ overtaking' = {u \in Thread \ {t} : pc[u] = "store"}
  /\ Goto(t, "store")
  /\ UNCHANGED <<next, records, processes, target, todo, published, output,
                 answered>>

(* publish_count: the count is taken under the lock and stored after it.   *)
Count(t) ==
  /\ pc[t] = "count"
  /\ counted' = [counted EXCEPT ![t] = RunningCount]
  /\ overtaking' = {u \in Thread \ {t} : pc[u] = "store"}
  /\ Goto(t, "store")
  /\ UNCHANGED <<next, records, processes, target, todo, published, output,
                 answered>>

(* The last thing finish does, so a reaper is done, a kill is answered and *)
(* a start goes on to spawn the reaper of its job.                         *)
ReaperStores(j) ==
  /\ pc[j] = "store"
  /\ published' = counted[j]
  /\ counted' = [counted EXCEPT ![j] = 0]
  /\ Goto(j, "done")
  /\ UNCHANGED <<next, records, processes, target, todo, output, observed>>

CallerStores ==
  /\ pc[Caller] = "store"
  /\ published' = counted[Caller]
  /\ counted' = [counted EXCEPT ![Caller] = 0]
  /\ target' = 0
  /\ IF pc[target] = "unborn"
     THEN /\ pc' = [pc EXCEPT ![Caller] = "idle", ![target] = "waiting"]
          /\ UNCHANGED answered
     ELSE /\ Goto(Caller, "idle")
          /\ answered' = answered \cup {target}
  /\ UNCHANGED <<next, records, processes, todo, output, overtaking>>

(* Reapers in the middle of finish, none of which gives way before its end. *)
Busy == {j \in Job : pc[j] \in {"status", "finished", "prune", "count", "store"}}

(* Mutant: a job that ended before its reaper was there is not waited for. *)
ReaperWaitsIfKilled(j) ==
  /\ pc[j] = "waiting"
  /\ Cardinality(Busy) < Workers
  /\ leader[j] = "zombie"
  /\ status[j] = "killed"
  /\ leader' = [leader EXCEPT ![j] = "reaped"]
  /\ Goto(j, "status")
  /\ UNCHANGED <<next, records, members, target, todo, counted, published, output,
                 observed>>

(* child.wait() returns: the leader's pid is free from here on.            *)
ReaperWaits(j) ==
  /\ pc[j] = "waiting"
  /\ Cardinality(Busy) < Workers
  /\ leader[j] = "zombie"
  /\ leader' = [leader EXCEPT ![j] = "reaped"]
  /\ Goto(j, "status")
  /\ UNCHANGED <<next, records, members, target, todo, counted, published, output,
                 observed>>

-----------------------------------------------------------------------------
(***************************************************************************)
(* kill and kill_all.                                                      *)
(***************************************************************************)
KillBegins(j) ==
  /\ IF j \in registry /\ Running(j)
     THEN /\ target' = j
          /\ Goto(Caller, "signal")
          /\ UNCHANGED answered
     ELSE /\ UNCHANGED <<pc, target>>
          /\ answered' = answered \cup (registry \cap {j})
  /\ UNCHANGED <<next, records, processes, counted, published, output,
                 overtaking>>

Kill(j) ==
  /\ pc[Caller] = "idle" /\ todo = {}
  /\ j < next
  /\ KillBegins(j)
  /\ UNCHANGED todo

KillAll ==
  /\ pc[Caller] = "idle" /\ todo = {}
  /\ todo' = {j \in registry : Running(j)}
  /\ todo' # {}
  /\ UNCHANGED <<next, records, processes, pc, target, counted, published,
                 output, observed>>

(* The list kill_all took is oldest first.                                 *)
KillNext ==
  /\ pc[Caller] = "idle"
  /\ \E j \in todo :
       /\ \A k \in todo : j <= k
       /\ todo' = todo \ {j}
       /\ KillBegins(j)

(* Mutant: only the leader is signalled.                                   *)
SignalLeader ==
  /\ pc[Caller] = "signal"
  /\ leader' = [leader EXCEPT ![target] = IF @ = "alive" THEN "zombie" ELSE @]
  /\ Goto(Caller, "status")
  /\ UNCHANGED <<next, records, members, target, todo, counted, published, output,
                 observed>>

(* kill_group: everything in the group dies, the leader stays to be waited *)
(* for.                                                                    *)
Signal ==
  /\ pc[Caller] = "signal"
  /\ leader' = [leader EXCEPT ![target] = IF @ = "alive" THEN "zombie" ELSE @]
  /\ members' = [members EXCEPT ![target] = FALSE]
  /\ Goto(Caller, "status")
  /\ UNCHANGED <<next, records, target, todo, counted, published, output, observed>>

-----------------------------------------------------------------------------
(***************************************************************************)
(* read empties the buffer, and then asks where the job stands, which      *)
(* changes nothing.                                                        *)
(***************************************************************************)
Read(j) ==
  /\ pc[Caller] = "idle" /\ todo = {}
  /\ j \in registry
  /\ unread' = [unread EXCEPT ![j] = 0]
  /\ UNCHANGED <<next, records, processes, pc, target, todo, counted, published,
                 printed, pipe, observed>>

-----------------------------------------------------------------------------
(***************************************************************************)
(* The processes, and the pumps that empty their pipes.                    *)
(***************************************************************************)
LeaderExits(j) ==
  /\ leader[j] = "alive"
  /\ leader' = [leader EXCEPT ![j] = "zombie"]
  /\ members' = [members EXCEPT ![j] = @ /\ ~KillOnExit]
  /\ UNCHANGED <<next, records, pc, target, todo, counted, published,
                 output, observed>>

MembersExit(j) ==
  /\ members[j]
  /\ members' = [members EXCEPT ![j] = FALSE]
  /\ UNCHANGED <<next, records, leader, pc, target, todo, counted, published,
                 output, observed>>

Prints(j) ==
  /\ leader[j] = "alive" \/ members[j]
  /\ printed[j] < MaxPrints
  /\ printed' = [printed EXCEPT ![j] = @ + 1]
  /\ pipe' = [pipe EXCEPT ![j] = @ + 1]
  /\ UNCHANGED <<next, records, processes, pc, target, todo, counted, published,
                 unread, observed>>

Pump(j) ==
  /\ pipe[j] > 0
  /\ pipe' = [pipe EXCEPT ![j] = @ - 1]
  /\ unread' = [unread EXCEPT ![j] = @ + 1]
  /\ UNCHANGED <<next, records, processes, pc, target, todo, counted, published,
                 printed, observed>>

-----------------------------------------------------------------------------
Finish(t) == FinishStatus(t) \/ FinishAt(t) \/ Prune(t) \/ Count(t)

Reaper(j) == ReaperWaits(j) \/ Finish(j) \/ ReaperStores(j)

CallerWorks == Finish(Caller) \/ CallerStores \/ KillNext \/ Signal

CallerCalls == Start \/ KillAll \/ \E j \in Job : Kill(j) \/ Read(j)

Processes == \E j \in Job : LeaderExits(j) \/ MembersExit(j) \/ Prints(j) \/ Pump(j)

Next == CallerWorks \/ CallerCalls \/ Processes \/ \E j \in Job : Reaper(j)

Spec == Init /\ [][Next]_vars

(* Tasks that are ready are run; nothing is assumed of the commands, which *)
(* may run for ever, or of the model, which may call no tool again.        *)
FairSpec ==
  /\ Spec
  /\ WF_vars(CallerWorks)
  /\ \A j \in Job : WF_vars(Reaper(j)) /\ WF_vars(Pump(j))

-----------------------------------------------------------------------------
(***************************************************************************)
(* Properties.                                                             *)
(***************************************************************************)
(* Every variable has its type, and only ids that were handed out are in   *)
(* the registry (start, jobs.rs:210).                                      *)
TypeOK ==
  /\ next \in 1 .. MaxJobs + 1
  /\ registry \subseteq 1 .. next - 1
  /\ status \in [Job -> {"none", "running", "exited", "killed"}]
  /\ finishedAt \in [Job -> Nat]
  /\ clock \in Nat
  /\ leader \in [Job -> {"none", "alive", "zombie", "reaped"}]
  /\ members \in [Job -> BOOLEAN]
  /\ pc \in [Thread -> Places]
  /\ target \in Thread
  /\ todo \subseteq Job
  /\ counted \in [Thread -> 0 .. MaxJobs]
  /\ published \in 0 .. MaxJobs
  /\ printed \in [Job -> Nat] /\ pipe \in [Job -> Nat] /\ unread \in [Job -> Nat]
  /\ answered \subseteq Job
  /\ overtaking \subseteq Thread

(* The threads together keep what the registry promises: a job begins and  *)
(* ends once, is said to be killed only when no process of it is left, and *)
(* is forgotten only when it is over.  A job reported killed is never      *)
(* reported to have ended on its own when its reaper comes second, nor the *)
(* other way round, and none runs again (finish, jobs.rs:297-303).         *)
Gone == {j \in Job : status[j] # "none" /\ leader[j] # "alive" /\ ~members[j]}

Board == INSTANCE JobBoard WITH says <- status, listed <- registry, gone <- Gone

KeepsBoard == Board!Spec

(* A job that says "killed" has no process left, neither the one that was  *)
(* spawned nor what it started (kill, jobs.rs:321-329; the process group   *)
(* of backend.rs:433-442).                                                 *)
KilledMeansDead ==
  \A j \in Job : status[j] = "killed" => leader[j] # "alive" /\ ~members[j]

(* The registry never loses sight of a running job: whatever prune does in *)
(* between, it can be listed, read and killed (jobs.rs:54, 353-368).       *)
RunningIsListed == \A j \in Job : Running(j) => j \in registry

(* No job is in the middle of finish.                                      *)
Quiet == \A t \in Thread : pc[t] \in {"unborn", "idle", "waiting", "done"}

(* Once everybody who finishes a job is through, no more than MaxFinished  *)
(* finished jobs are kept, however their prunes overlapped                 *)
(* (jobs.rs:52-54).                                                        *)
FinishedBound ==
  Quiet => Cardinality({j \in registry : Finished(j)}) <= MaxFinished

(* What prune forgets is older than what it keeps, and no job is forgotten *)
(* before its end was noted (jobs.rs:352).                                 *)
KeepsTheLatest ==
  \A j \in 1 .. next - 1 :
    j \notin registry =>
      /\ finishedAt[j] > 0
      /\ \A k \in Recorded : finishedAt[j] < finishedAt[k]

(* A job whose process ended is seen to have ended (jobs.rs:240-253).      *)
EveryExitNoticed == \A j \in Job : (leader[j] = "zombie") ~> Finished(j)

(* What a job printed comes to be readable, also what it printed before it *)
(* was killed, reaped or pruned (pump, jobs.rs:258-295).                   *)
OutputArrives == \A j \in Job : (pipe[j] > 0) ~> (pipe[j] = 0)

(* What jobs.rs:321 says of kill: the job and everything it started are    *)
(* dead once it has answered, whether the job had already ended or not.    *)
KillReachesEverything ==
  \A j \in answered : leader[j] # "alive" /\ ~members[j]

(* The number on the screen is the number of running jobs whenever nobody  *)
(* is about to change it (agent_task.rs:41-43), unless two publications    *)
(* overlapped: the count is taken under a lock and stored after it, and an *)
(* older one may be stored last.                                           *)
CountSettles == Quiet /\ overtaking = {} => published = RunningCount
=============================================================================
