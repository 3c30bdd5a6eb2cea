# mobile-coder in TLA+

mobile-coder is a coding agent that runs on a phone: a Rust core drives Claude (or
any server with the same API), runs the commands the model asks for in an Alpine
Linux userland under proot, and shows the conversation in a Freya window. Little in
it is deep on its own; what makes it hard is that a turn can be stopped, cut off or
killed at any of its steps, that the user, the model, background processes and two
UI tasks act at once, and that everything has to come back after Android ends the
process without notice.

These modules model that: the agent's turn and the stream of events it is made of,
the conversations on disk, the screen, background jobs, foreground commands, the
installation and setup of the guest, the Git pane with its native dialogs, and what keeps the
phone awake. TLC checks each of the nine on a small instance; TLAPS proves every safety
property the passing runs check, and the two refinements, for every value of the constants.

Paths below are relative to the repository. `PROJECT.json` lists, for every
definition, the lines it models.

## 1. The system

| Component | State | Operations | Talks to |
| --- | --- | --- | --- |
| Agent turn loop: `mc-agent/src/lib.rs`, `worker.rs` | the session (transcript, summary), the round, the stop flag | take a prompt, stream a message with retries, run its calls, compact, stop | commands in from the window (queue), events out (bus), tools, the model server, the session library |
| Transcript and compaction: `mc-core/src/session.rs` | turns, summary | push, find the cut, compact | called by the turn loop |
| Conversations on disk: `mc-core/src/library.rs`, `store.rs`, `worker.rs` | one JSON file a chat, the old single-session file | save, list, latest, open, delete, adopt | worker and window both use the directory |
| Chat screen: `mc-core/src/event.rs`, `mc-core/src/chat.rs`, `mc-ui/src/chat.rs` | the bus's ring of events, the log, each receiver's position | emit, apply an event, load an opened chat, lag | worker (producer), two tasks of the window |
| Background jobs: `mc-sandbox/src/jobs.rs`, `mc-core/src/jobs.rs` | the registry, each job's process group, status and buffer, the published count | start, read, kill, kill all, reap, pump, prune, publish | tool loop, one reaper and two pumps a job, keep-alive service |
| Foreground commands: `mc-sandbox/src/backend.rs`, `mc-agent/src/tools.rs`, `mc-core/src/cancel.rs` | the process group, both pipes, the deadline, the cancel flag and its waiters | spawn, read both pipes, exit, deadline, stop, kill, drain, report | turn loop (awaits it), stop button (another thread) |
| Guest installation: `mc-sandbox/src/rootfs.rs`, `apps/android/src/bootstrap.rs` | archive, staging tree, tree, marker, `SANDBOX_PATHS` | check, download, resume, verify, unpack, swap, mark, discard, probe, configure and add git, announce | the download server, the rest of the app |
| Streamed message assembly: `mc-agent/src/wire.rs`, `lib.rs` | the blocks received so far, the attempt, the calls to run | start, delta, stop, break, retry, run a call | turn loop, chat log |
| Guest files: `mc-sandbox/src/fs.rs` | none | resolve, list, read | Files pane |
| DNS: `mc-sandbox/src/dns.rs`, `apps/android/src/network.rs` | pushed servers, `resolv.conf` | push, write | bootstrap, the shell |
| Git pane and prompts: `mc-ui/src/git.rs`, `prompt.rs`, `mc-github/src/token.rs` | the worker's queue and state, the copy the pane draws, the token, one question, one answer | sign in and out, refresh, clone, create, select, commit, pull and push, ask, take an answer | the shell's dialogs, GitHub, git in the guest |
| GitHub API and git: `mc-github` | a proxy per command | request, parse, run git | Git pane |
| Android shell: `apps/android/src`, `MainActivity.kt`, `KeepAliveService.kt`, `SettingsDialog.kt` | the busy flag, the foreground service and the shell's idea of it, the sealed token | poll, start and stop the service, hand the token over, seal and delete it | bus, job count, Git pane |
| Terminal, rendering, exec probe, vendored code | | | platform |

What is hard in each, and what makes it correct:

* **Turn.** A stop, a refusal, a broken stream or a compaction may come between a
  message and the answers to its calls, and an unanswered call ends the conversation
  for good. Correct if every request has the shape the API enforces, the question being
  answered survives compaction, nothing is forgotten, a stop is honoured wherever the
  turn waits, and the rest of the program hears of each turn's beginning and end
  exactly once.
* **Chats.** The process may be killed between any two writes, a write may fail, and
  window and worker use the same directory without a lock. Correct if no more than
  the turn in flight is lost, nothing lands in the wrong chat, and what comes back
  after a restart is what the user had open.
* **Screen.** Two tasks read a bus that forgets, at their own pace, and write the
  same log. Correct if, once everything is quiet, the screen is the worker's
  conversation, and if the user is never locked out of the input.
* **Jobs.** The tool loop, the reapers and the processes run at once, over locks and
  atomics taken one at a time. Correct if verdicts are final and true, running jobs
  are never lost sight of, finished ones do not pile up, the count is right and every
  exit and every output arrives.
* **Commands.** A command may print more than its pipes hold, hang, leave processes
  in its group and outside it, while a deadline and a stop race its exit. Correct if
  a command always comes back, with all it printed, and leaves nothing behind when it
  was killed; and if no stop falls between a check and a wait.
* **Stream.** Blocks begin and grow in any order, an attempt breaks at any event and
  is made again after part of it was shown. Correct if only whole messages of one
  attempt enter the transcript, no call runs twice or on half its input, and the chat
  one watched is the chat one reopens.
* **Git pane.** The shell's thread, the pane and the worker each hold a copy of the
  account, a command runs long after its button was pressed, and one slot serves
  every question. Correct if the copies agree once all is quiet, a commit lands in the
  project its button was drawn on, and a token never becomes a message.
* **Keep-alive.** What runs is known through a bus that forgets and a counter, looked
  at four times a second, and Stop ends the service without telling the shell. Correct
  if a Stop holds for the work it was pressed on, the service follows the work
  otherwise, and the message box is never closed for good.
* **Guest.** The installation is interrupted anywhere and resumed by a
  later launch, perhaps of a newer version of the app. Correct if what is used is
  always the pinned image, complete, if an installed one is left alone, if
  launching often enough installs it, and if what the app is given resolves names as
  the phone does and has git, although the shell pushes name servers meanwhile.

`PROJECT.json` lists each hazard at its line, with the properties that cover it or
the reason none does.

## 2. The modules

| Module | Lines of code it is about | Contents |
| --- | --- | --- |
| `Transcript` | `session.rs` | turns, `CompactionCut`, `Compact`, and the shape the API demands |
| `TurnContract` | what the window, the keep-alive service and the tests rely on | abstract: accepted, announced, concluded once, stop kept |
| `AgentTurn` | `lib.rs`, `worker.rs` | the turn, action by action; implements `TurnContract` |
| `Chats` | `worker.rs`, `library.rs`, `store.rs` | the worker's command loop over the directory, the opening window, kills |
| `Screen` | `event.rs`, both `chat.rs` | bus, log and the window's two tasks |
| `JobBoard` | what the tools and the window rely on | abstract: jobs begun, ended once, killed only when dead, forgotten only when over |
| `Jobs` | both `jobs.rs` | registry, reapers, kills, output; implements `JobBoard` |
| `Command` | `backend.rs`, `cancel.rs`, `tools.rs` | one command from spawn to result, and the wait of `Cancel` |
| `Guest` | `rootfs.rs`, `bootstrap.rs`, `network.rs`, `dns.rs`, `agent_task.rs` | installation and setup across launches, name servers |
| `Stream` | `wire.rs`, `lib.rs`, `chat.rs` of `mc-core` | one turn, event by event |
| `GitPane` | `git.rs`, `prompt.rs`, `token.rs`, `credentials.rs`, `MainActivity.kt` | account, commands and dialogs, across kills |
| `KeepAlive` | `agent_task.rs`, `MainActivity.kt`, `KeepAliveService.kt`, `SettingsDialog.kt` | what keeps the app awake |
| `AgentTurn_proofs`, `Jobs_proofs`, `Command_proofs`, `Guest_proofs`, `Chats_proofs`, `Screen_proofs`, `Stream_proofs`, `Shell_proofs` (`GitPane` and `KeepAlive`) | | theorems |

The components are composed by their promises rather than in one state space: `Chats` takes it
that every turn ends (what `AgentTurn` shows), `Screen` takes from the worker only
the order in which it saves and emits, `AgentTurn` takes a tool to be something that
ends by itself or because of a stop (what `Command` shows), and a message to be one
step (what `Stream` shows of its events); `KeepAlive` takes from `AgentTurn` that
turns end and from `Jobs` that the count is right.

Definitions named after a mutation (`PruneLate`, `LooksOnce`, ...), each marked
`Mutant`, are not part of a model: they are the plausible mistakes against which the
properties are measured, each property having one that breaks it.

### AgentTurn

`pc` is where the worker is: `idle` (waiting for a command), `setup`, `round`,
`streaming`, `backoff` (asleep before a retry), `shorten` (compaction in a turn the
server refused for length), `calls`/`spawn`/`running` (the tool loop before a check,
between check and spawn, and in a tool), `settle`/`condense` (compaction after a
turn), `returned`. `transcript` and `covered` are the session: turns kept, and the
number of dropped turns the summary stands for. `round`, `attempt` and `compacted`
are the locals that bound the loop. `flag` is `Cancel`'s; `Stop` raises it at any
moment, and the worker lowers it when it takes the next prompt.

Text, tool input and output, deltas and token counts are left out: whether the
context is full is a choice, and a message is what it calls. Each turn bears a mark the
code does not keep: a message the model declined is `excused`, and so is a prompt typed
after a turn that was stopped or failed (`answered` tells). `RequestsAreShaped` asks for
answered calls and alternating roles of every other turn. A tool is one step from check
to end: the two commands of `edit_file` (`tools.rs:419`, `445`) are one tool.

### Chats

`files` is the directory: chat to prompts, how many of them are `covered` (dropped from
the transcript, only the summary stands for them) and modification time. The worker
(`booting`, `idle`, `turn`, `switching`, `entering`) takes prompts and
switches from `queue`; `Summarize` is the compaction in a turn and after it, which the save
that follows writes; the thread that opens the window adopts the file of an older
version and restores the latest chat; the user sends, switches and deletes; `Crash`
may come anywhere. A save is one step, the rename. The clock is coarse: two files may
bear the same time, in which case the latest is either, and a tick is counted only where
it tells two files apart. The observed `pressed` numbers the presses that open a chat,
each command in the queue bears the number of the press it comes after, and `entered`
is the press whose chat the worker has. The removal of an adopted file
may fail, and then a later launch adopts it again over what was written since; the
observed `readopted` says that this has happened, and the properties stop there.

### Screen

`sent` is all that was emitted; the bus holds the last `Capacity` of it. `collected`
and `followed` are the positions of the window's two tasks, which may lag and lose
events. `log` is the list of prompts and the busy flag. The observed `lost` and
`overtaken` say that a task lost more than fragments, or loaded a chat when the other
task or the worker was elsewhere: the promises at rest are conditional on them.

### Jobs

Thread 0 is the tool loop, thread *j* the reaper of job *j*. Every lock, atomic store
and signal is a step; a scan under the registry's lock is one step. A job's group is
its `leader` (alive, zombie, reaped) and whether it has other `members`. Output is
counted in chunks printed, in the pipe and unread. `Workers` threads run the reapers.

`Board` maps this to `JobBoard`: what is said of a job is its status, the list is the
registry, and a job is gone (`Gone`) when it was started and neither its leader nor a
member is alive. A step of a thread that shows nothing of itself there is a stutter.

### Command

The command's processes (`leader`, `member` of its group, `escaped` into a session of
its own), its pipes, their two readers, the deadline, the thread that presses stop
(`Flag`, `Notify`: two steps), the waiter of `cancelled` (`Looks`, `Registers`,
`LooksAgain`, `Wakes`) and `run_inner` itself (`spawn`, `select`, `reap`, `drainOut`,
`drainErr`, `report`, `reported`). What was asked for (under proot or not, with a
deadline or not, stoppable or not, hanging or not) is chosen in `Init`. The flag is
not lowered while a command runs: the worker lowers it between turns.

### Guest

An image is the number of the version that pins it; image 0 is nobody's. The disk
(`archive`, `staging`, `dest`, `marker`) survives kills, `ready` does not. `pc`
follows `ensure` and the bootstrap; `response` is whose bytes the server sends and
how many chunks of them are left. `GivesUp` is any `?` on the way that fails. The
server may or may not honour ranges; an answer may come from something else.
An archive that should be removed may stay (`Removes`: the code ignores that failure),
which `leftover` remembers if it is complete.

After `ensure` the bootstrap tries the guest (`probe`), writes its name servers
(`names`), configures git (`config`), adds it if this launch is `fresh`, writes the
name servers again (`ready`) and sets `SANDBOX_PATHS` (`announce`). The shell pushes
servers from its own thread in two steps: `PushStores` them, and `PushApplies` if the
guest has been announced. What is in the guest is `guest`: its servers, git, git's
global setting. The observed `behind` says that the last write of `resolv.conf` failed
or that a push fell between the last write and the announcement, `skipped` that the
launch that installed the tree was cut short before it added git, had no name server
or saw apk fail.

### Stream

`blocks` is `StreamAccumulator.blocks`, its holes included; `spoken` is what the server
has sent in this attempt. A block is a kind, the request and index it was sent
under, and numbered parts of which the last is marked, so that a call's input parses
exactly if its last part came. Part 0 of a text or a thinking is what its block came
with (`Openings`): it is kept and never shown. `Request`, `BlockStart`, `BlockDelta`, `MessageStop`,
`Breaks` (asked again up to `MaxStreamRetries`), `Gives` (errors that are not
retried), `AnswerCall`, `CallsAnswered`, `Stopped` and `Runaway` are the ways through
a turn; `log` follows the events as `ChatLog::apply` does, `Reopened` is what
`from_session` makes of the transcript afterwards. `WatchedIsKept` speaks of messages
that come block after block with calls last (`~mixed`): the log cannot tell blocks
apart, and joins the text of two that alternate.

### GitPane

The worker is `off`, `idle`, or awaiting an account for `using`; every other command is
one step, since nobody changes what it uses between its start and its end. `pane` is
the worker's state, published at rest, and `seen` the copy the pane last took (`Look`).
`asking`, `pending`, `dialog` and `answer` are the one question and the one answer of
`prompt.rs` on their way to the shell and back. `sealed` is the stored token, `forget`
the flag that has the shell's poll delete it. `handover` is the launch: the shell sets
the token from its own thread, before or after the window starts the worker. `Kill`
leaves `sealed` and the repositories. The observed `check`, `raced`, `aim` and
`commit` say which token was asked about last, that a typed token was overtaken, and
where a commit was meant to go.

### KeepAlive

`backlog` is what the mirror has not taken of the bus, which keeps `Capacity` events.
`busy`, and the count of jobs, make up `Summary`; `SyncKeepAlive` is `syncKeepAlive`,
`Sync` is `KeepAlive.sync` with its three fields, `StopDelivered` is `onStartCommand`
with the stop action, which changes the preference, the flag and the service but not
`KeepAlive`. The observed `unwanted` follows a Stop: `working` as long as the work it was
pressed on goes on, `idle` once that has ended and `seen` once a poll saw it so; work that
begins then is wanted (`no`), work that began before that poll is `late`; `asked` is a
switch turned on before a poll saw rest. `SaveSwitch` writes the switch as the dialog has
it, which may be as it was when the dialog was opened. What every module calls `Init`,
`Next` and `Spec` is `KeeperInit`, `KeeperNext` and `KeeperSpec` here, so that one module
of proofs can extend this one and `GitPane`.

## 3. What is checked

| Run | Shows |
| --- | --- |
| `turn` | Every request has the API's shape but for a declined message's calls and a prompt after an unanswered turn; the question is kept; at most one tool starts after a stop; the turn keeps its contract; a stop is heard even if the streamed message never ends; with a server that answers, every prompt concludes. |
| `stream` | Only whole messages enter the transcript; calls run once and on all their input; what was watched is what is reopened, but for text a block came with and turns that were stopped or failed. |
| `jobs` | The threads keep `JobBoard`: verdicts final and true, only finished jobs forgotten; killed jobs dead; running jobs listed; finished ones bounded, the latest kept; count settles; every exit noticed. |
| `chats` | A kill costs the turn in flight at most; a prompt is answered in the chat of the last press before it and in no other; the right chat reopens; nothing but a deletion loses a chat or takes out of it what no summary stands for; only the open chat can come back after a deletion. |
| `screen` | At rest the screen agrees with the worker, holds nothing of another chat; the input is never frozen. |
| `command` | No lost wake-up; killed commands leave nothing in their group; output whole unless something outlived the command; every command comes back. |
| `guest` | What is trusted is installed; an announced guest has the phone's name servers and git; a relaunch is free; the guest is installed at last. |
| `git` | At rest the account shown, the token held and the token stored agree; commits go where they were aimed; secrets and messages stay apart. |
| `keep_alive` | A Stop is obeyed; the service follows the work, a Stop kept for later work only if no poll saw rest in between; the message box opens again. |

Three runs show where the code does otherwise than it says:

* `screen_race` - loading an opened chat replaces the log, with what the other task
  had already applied of later events.
* `guest_leftover` - a launch killed between the last chunk and the removal of the
  archive leaves a complete file, and every later launch asks for the bytes after its
  end, is refused, and gives up.
* `guest_git` - the launch that installs git tries to configure it before there is a
  git to run, so until the next launch whatever the agent or the Terminal commits
  without the app's own `-c` goes the way the setting is there to prevent.

Twelve more departures are known and built into what the passing runs promise:

* A declined message is pushed before its reason is looked at (`lib.rs:262-277`). If it
  already holds calls, nothing answers them, against `session.rs:115-117`.
* After a turn that was stopped or failed, a prompt follows a prompt or results, where
  `session.rs:115-117` and `docs/ARCHITECTURE.md:863` say that roles alternate.
  `RequestsAreShaped` excepts these two and nothing else.
* Text or thinking that comes with the start of a block enters the transcript
  (`wire.rs:112-126`), but nothing is emitted for it (`wire.rs:150-151`): it was never on
  the screen and is there when the chat is opened again. `WatchedIsKept` excepts it
  (`Heard`).
* A compaction makes the file shorter (`session.rs:197-202`, saved at `worker.rs:141`).
  `NothingIsForgotten` counts what the summary stands for as kept.
* A Stop outlives its work if other work begins before a poll saw rest: the flag is
  cleared by a poll only, and the service stays off for work the Stop was not about,
  against `KeepAliveService.kt:112` ("until work stops and starts again") and `:147`.
  `Agrees` names it, `late`. Likewise a switch turned on during stopped work waits for
  the end of that work: `asked`.
* A 200 that something else than the server gives to a ranged request is taken for a server
  that knows no ranges, and the chunks there were are thrown away (`rootfs.rs:206-209`),
  although the server honours ranges: an exception of `DownloadIsKept`.
* A turn that shortens its transcript waits for a request that neither a stop nor a
  timeout ends (`lib.rs:248`). `StopIsHeard` takes those requests as answered, so that no
  property catches a server that is silent there.
* Deleting the open chat removes its file, and the worker's next save writes it again:
  `DeletedIsGone` is false, `OnlyTheOpenChatComesBack` is what holds.
* Without proot a job whose first process has ended is "exited", and killing it does
  not reach what it left running: `KillReachesEverything` is false with
  `KillOnExit = FALSE`. Under proot it is proved, and the leader is dead either way.
* A token that GitHub refuses while the next one, typed meanwhile, waits for its turn has
  the shell delete the stored copy of the next one (`git.rs:298`,
  `MainActivity.kt:170`): signed in, and not after a restart. `SealedAgrees` is silent
  once a typed token was `raced`.
* Name servers pushed between the two statements of `mark_ready` (`agent_task.rs:67-68`)
  are stored, find no guest, and reach it with the next push only: `behind`.
* A launch killed after it marked the tree and before it added git leaves a guest no
  later launch adds git to (`bootstrap.rs:124`): `skipped`.

Besides `DeletedIsGone`, the modules state other properties no run checks: the
`TypeOK`s, `NothingForgotten`, `DownloadIsKept` and `KillReachesEverything`, proved where
section 4 lists them, and the liveness properties `OutputArrives`, `EveryCommandServed`
and `EveryPromptShows`, which held on the bounds of their module's run but say little
that the properties beside them do not.

### Bounds

All bounds are named `Max...` and stand in guards of what users, commands and
accidents do, never of what the code does in reply.

* `turn`: 3 prompts, 2 calls a message, 2 rounds, 1 retry, 1 turn kept. Two calls are
  what a stop between calls needs; three prompts are what it takes to compact after a
  compaction, with a question after the second.
* `jobs`: 2 jobs, 1 finished job kept, 1 chunk each, 2 runtime threads. Two reapers
  and the tool loop already overlap in every operation, and the second finish prunes.
  That there are fewer threads than jobs is left to `ExitsAreInHand`; with `Workers = 1`
  every property of the run held as well.
* `stream`: 2 rounds, 1 retry, 2 blocks a message of 2 parts each, 1 stop, all four
  kinds of blocks. Two blocks may interleave and arrive in either order; a break in the
  second round follows calls of the first; the second retry is refused.
* `chats`: 2 prompts, 2 switches, 1 deletion, 1 kill, 0 or 1 old file. Away and back
  again, with a prompt on either side, and a restart after it; a compaction needs a
  second prompt in a chat, and how many come is bounded by the prompts there are.
* `screen`: 2 prompts, 1 opened chat, 1 fragment an answer, a bus of 3 (the code has
  1024: what matters is that a turn's events overflow it).
* `command`: 2 pieces a pipe that holds 1 (printing blocks until somebody reads), one
  press of stop, one process in the group and one outside.
* `guest`: 3 versions (so that a tree and an archive of different earlier versions meet), 3
  chunks, 4 troubles (kills, broken connections, refused writes, foreign answers), 2
  pushes of name servers: one network replaces another at any step of the bootstrap,
  and again after the announcement. `guest_git` needs no trouble at all.
* `git`: 2 tokens, 2 projects, 3 presses, 1 kill. One token replaces another while a
  request is under way, or is typed, refused and typed again; a select overtakes a
  commit.
* `keep_alive`: 3 turns, 2 jobs, 3 events inside a turn and 2 after it, 4 presses of Stop
  or saves of the switch, a bus of 3. A start, an end or both may be lost, and a turn may fill
  the bus by itself; `MaxAside < Capacity` says that not so much follows a turn's end,
  without another turn, that the end itself is lost: the code's bus keeps 1024 events,
  and after a turn come a summary and the opening of a chat.

`CHECK_DEADLOCK FALSE` stands where a behaviour ends: nobody has to send, press or
launch again once the bounds are used up, and a command has ended.

### Fairness

* Worker, reapers, pumps, pipe readers and the window's tasks: weak fairness. They
  are tasks on runtimes that poll what is ready, and none is parked by another.
* `KeepAlive`: the mirror's thread takes what the bus has, the Activity's poll comes
  round, a Stop is delivered, and turns end. A job need not.
* The clock: a deadline passes and a grace ends.
* A thread that has raised the flag goes on to notify; nobody has to press stop.
* A tool ends (`AgentTurn`): that is what `EndsAtLast` of `Command` says, since every
  foreground `bash` has a deadline; the commands of the file tools that have none
  read or write one file and do not hang.
* The model server, only where a property says so: `ServerAnswers` in
  `EveryTurnConcludes` only. `StopIsHeard` does without it but for the summary requests,
  which are taken to be answered.
* Commands: a foreground command that does not hang goes on printing and exits;
  nothing is assumed of background jobs.
* `Guest`: the app is opened again whenever it is closed or its installation failed.
  Without that nothing would ever be installed.

## 4. What is proved

All theorems are of the form `Spec => []P` (or `[][A]_vars`, or a refinement), for every
value of the constants allowed by each module's named assumption: naturals, with a
capacity or a size that is not zero, and in `KeepAlive` a bus that keeps more than
follows a turn's end. One has a hypothesis of its own, named below, `Capacity > 1`; half
of two more is stated under a condition on a constant (`KillOnExit`, `MaxInside <
Capacity`). In each proof module `IInv`, or in the smaller ones a few named parts, is
the inductive invariant; a lemma each shows that a part holds again after a step, action
by action.

* **`AgentTurn_proofs`**: `TypeCorrect`, `RequestsAlwaysShaped`,
  `QuestionAlwaysKept`, `NothingEverForgotten`, `NeverTwoLateTools`, `ContractKept`
  (every step of the turn is a step of `TurnContract` or a stutter), `TurnsRunOut`,
  `CompactionsFindACut`, `StopsAreHeard`. That a request
  has the shape is not inductive: the transcript is out of it while tools run, and
  only the gathered results (`ResultsInv`) and the position of the last prompt
  (`QuestionInv`) say that it will be in shape again; roles alternate because after an
  answered turn a message comes last, wherever a compaction cut (`ShapeInv`). The lemmas on
  pushing, answering and cutting a transcript come first. `TurnsRunOut` is the safety
  half of `EveryTurnConcludes`: a number, `StepsLeft`, is set to `MaxToolRounds` round
  trips and five as a prompt is taken, falls with every step of the worker, is left alone
  by a stop, and is 0 exactly when the worker is idle; what fairness adds is that steps
  are taken. A round trip is long enough for every retry, call and compaction of a round
  (`RoundTrip`, `Later`), and the count rests on nothing but `Counts`.
  `CompactionsFindACut` says that the request a compaction waits for can be answered:
  among the places to cut there is a latest (`LatestCut`). `StopsAreHeard` is the safety
  half of `StopIsHeard`: from the moment the flag is up in an open turn another number,
  `AfterStop`, falls with every step until the turn is concluded, the flag staying up.
  It is no more than the calls the message at hand has left and four, however many
  rounds and retries there would have been, and at each of these places the worker has
  something to do that waits for no message of the server (`WorkerOpen`).
* **`Jobs_proofs`**: `TypeCorrect`, `KilledJobsAreDead`, `RunningJobsAreListed`,
  `TheLatestAreKept`, `BoardIsKept`, `FinishedJobsAreFew`, `TheCountSettles`,
  `KillsReachEverything`, `ExitsAreInHand`, for
  any number of jobs and reapers. The parts that make it inductive: ids not handed out
  have nothing (`Unborn`), a kill writes its verdict only when the group is dead
  (`KillOrder`), the end is noted after the verdict (`VerdictFirst`), ends are ordered
  (`Times`). `BoardIsKept` is the refinement: each of the threads' steps is a step of
  `JobBoard` or a stutter (`StepOfTheBoard`), a death because what is alive only
  becomes less (`DeathIsADeath`), a verdict because a kill gives it over the dead
  (`VerdictIsAnEnd`), a prune because it takes only jobs that are over (`PruneForgets`).
  `FinishedJobsAreFew` and `TheCountSettles` speak of a registry nobody is at work on; what
  they add (`Settling`) says what is still due: no two ends are the same (`EndsDiffer`), a
  verdict without an end has somebody about to note it (`EndIsNoted`), and as long as
  too many finished jobs are listed somebody is about to prune (`PruneIsDue`), as somebody
  is about to publish while the count is not the published one (`CountIsDue`).
  The last two theorems follow a reaper (`Reaping`): it is past its wait exactly when the
  leader is reaped, has or finds a verdict then, and until it is spawned the start of its
  job is at work. So once a kill is answered (`Answering`) the leader is dead, and under
  proot, where nothing outlives it, everything else is, which is `KillReachesEverything`.
  `ExitsAreInHand` is the safety half of `EveryExitNoticed`: whoever exited has a verdict
  or a reaper on its way (`InHand`), whose steps (`Left`) nobody takes back.
* **`Command_proofs`**: `TypeCorrect`, `NoWakeUpIsLost`, `KilledCommandsAreGone`,
  `OutputsAreWhole`, `RunsAreFinite`, for any amount of output, any pipe and any number of
  stops. A whole output rests on what an ended reader implies (`Ended`: an empty pipe, and
  nobody alive who held it), on what a kill or an exit under proot leaves (`Killed`),
  and on the drains having run in order (`Drained`). `RunsAreFinite` is the safety half of
  `EndsAtLast`, and all of it but `ENABLED`: every step uses up some of a number, `Left`
  (pieces to print and to read, processes, the stage, the deadline, presses of stop and
  the waiter's way around after each), so a run is finite; and before the command is
  reported the guard of one of the fair actions holds (`NeverStuck`), so that is where it
  ends. The reader of a full pipe is still there because the command is (`Ended`), and a
  waiter that is not woken was not flagged (`NoLostWakeUp`).
* **`Guest_proofs`**: `TypeCorrect`, `TrustedTreesAreInstalled`, `TheGuestIsSetUp`,
  `RelaunchesAreFree`, `DownloadsAreKept`, for any number of versions, chunks, failures,
  networks and pushes. The argument: what is unpacked was verified (`Checked`), what is
  swapped in was unpacked to the end (`Staged`, `Swapped`), and wherever the tree is
  touched its marker is another image's (`Marked`); a response never carries more than
  is missing (`Completes`). On top of that, a marked tree has git, is owed it by the
  launch under way, or will never have it (`GitIsDue`, which needs `Installing`: who
  touches the tree is fresh, and `Named`: apk finds its mirror), and from the last
  write before the announcement on the guest's servers are the phone's or a push is
  still to be applied (`Current`).
  Two more theorems are the safety half of `InstalledAtLast`. `LaunchesRunOut`: the
  bootstrap has at most `Size + 17` steps to take, and every one of them uses one up.
  `FailuresRunOut`: what a launch that is killed or gives up has used up is a trouble,
  an update or what one of these left behind (`Burden`), two launches each at most,
  except for the leftover that a server which honours ranges refuses to complete; and
  a launch that ends otherwise has announced the guest or found it with holes.
* **`Chats_proofs`**: `TypeCorrect`, `PromptsLandInTheirChat`,
  `OnlyTheTurnInFlightIsLost`, `DeletedChatsStayAway`, `ShownIsResumed`,
  `TheLastIsReopened`, `NothingIsEverForgotten`: every property of the run, for any
  number of prompts, switches, deletions, compactions and kills. What waits in the queue
  bears the presses in the order they were made, the first the worker's own (`Line`), so a
  prompt finds the chat it was aimed at open. Prompts are numbered as they were
  sent, and what waits is newer than what any chat holds (`Waiting`, `Held`), so a
  prompt can enter one chat only (`Separate`). The session is never behind its file
  (`Ahead`) and, but for the turn in flight, is what the file says, summary included
  (`Written`); the file of the chat last opened is the newest (`Latest`), and until
  the user does something there is nothing but the old file (`Early`), which is why the
  adoption may come late.
* **`Screen_proofs`**: `TypeCorrect`, `TheScreenAgrees`, `NothingOfAnotherChatShows`,
  `NobodyIsLockedOut`, for any number of prompts, chats and fragments, and a bus of any size. A state on the
  way to rest owes what is still to be read: with both tasks past the last chat opened
  (`Past`), the log and the prompts announced after `collected` are the conversation,
  in order (`Shown`). The task that loads a chat makes this true because the file and
  what was announced since are the conversation too (`Current`), what was announced is
  not in the file before it ended (`Unsaved`), and nobody is past an opened chat before
  the screen was emptied for it (`InStep`); `Clean` is what remains without
  `overtaken`. The input is free at rest because the end of a turn that was seen to
  begin is still to be read (`Ended`, `Freed`). `NobodyIsLockedOut` is the safety half of
  `NeverFrozen`, and says nothing of rest or of what was lost: a busy screen has its
  release before it, since between turns one of the last two events is an end or an
  opening (`LetsGo`) and a task that lags goes on with the last `Capacity`. It needs
  `Capacity > 1`: a bus of one event loses the end of a turn to the announcement of its
  summary (TLC finds it; the code's keeps 1024, `event.rs:101`).
* **`Stream_proofs`**: `TypeCorrect`, `CallsNeverRunTwice`, `OnlyWholeMessagesEnter`,
  `TheWatchedIsReopened`: every property of the run, for any number of rounds, retries,
  blocks and parts. The accumulator has what was sent in this attempt, at its index
  (`Mirror`), so its content is the message whatever holes were in it (`ContentIsSaid`).
  What is asked for and what was run bear the number of their request, and a new one is
  greater than all (`Numbered`); the calls of the last message are answered from the
  first on (`Pending`, `CallsRunOnce`). On the screen, what a retry would leave is the
  chat so far, and what follows is the message coming in or the one being answered
  (`Watched`, with `Orderly` for a server that does not mix, and `OkIsEnd`: an answered
  turn is over). Messages, calls and chats are all sequences joined by `FlattenSeq`, so the
  first part of the module says what that returns, appends and picks. `FlattenSeq` is a
  recursion over data; the induction goes through the least element of a set of naturals
  (`LeastOfNaturals`), and a lemma that would have an operator for a parameter has the
  set of the numbers it holds for instead (`InductionOnNaturals`,
  `InductionOnSequences`).
* **`Shell_proofs`** has the theorems of two modules, and extends both.
  Of `GitPane`: `TypeCorrect`, `SecretsNeverMix`, `CommitsGoWhereAimed`,
  `AccountsAgree`, `SealedAgreesAlways`, for any tokens, projects, presses and kills. The
  last four speak of
  rest or of one command, so the invariant says what every state in between still owes:
  an account that somebody has yet to ask for (`Account`, with `Owed`), the token typed
  last that waits as an answer or in the queue (`Sealing`, with `Newest`), a project
  that stays selected as long as nothing that selects waits (`Aimed`).
  Of `KeepAlive`: `KeeperTypeCorrect` and `StopsAreObeyed`. Once Stop was delivered,
  either its work goes on and the flag is up, or nothing runs and the switch is off
  (`StopHolds`): no poll in between starts the service. `TheMirrorFollows` and
  `OnePollSettles` are the safety half of `ServiceFollowsWork`, and the first also that
  of `BoxOpensAgain`, whatever the bus loses: the last event on the bus that tells
  whether a turn runs tells it rightly, and an end is too near to be lost (`Follows`);
  what the Activity believes of its service is wrong after a Stop only (`Told`), so that
  one poll after the mirror caught up leaves the service as the work, the switch and the
  Stop want it, `StopHolds` having said of each value of `unwanted` whether a Stop is
  still kept. The start of a turn that goes on for longer than the bus keeps may be
  missed; then `busy` stays down until that turn ends, which both theorems except.

Only model-checked: the eight liveness properties (`StopIsHeard`, `EveryTurnConcludes`,
`EveryExitNoticed`, `NeverFrozen`, `InstalledAtLast`, `EndsAtLast`, `ServiceFollowsWork`,
`BoxOpensAgain`), since fairness and `ENABLED` are beyond the prover. The safety half of
each is proved, as said above: the counts that fall (`TurnsRunOut`, `StopsAreHeard`,
`ExitsAreInHand`, `RunsAreFinite`), the release that is still to be read, the launches
that run out, the mirror that follows and the poll that settles.

## 5. What the models leave out

* A crash ends the process only. What a power loss does to unflushed data is not
  modelled (`store.rs:49` renames without flushing).
* `AtMostTheTurnInFlight` counts a turn as in flight until it is saved. The code
  announces the end of a turn before it summarizes and saves, so a kill in that
  window loses an answer the user has seen finished.
* `CountSettles` does not promise anything once two publications of the job count
  have overlapped, so it does not catch the older count stored last (a listed hazard), and
  `KeepAlive` takes the count as right; `AtMostTheTurnInFlight` and `ReopensTheLast` are
  silent once a write has failed; and `ResumesWhatIsShown` nothing if two chats tie for the latest
  or the worker looked before the adoption; both are what the code does.
* `OutputIsWhole` is silent when something outlived the command. Then all of what
  that stream carried is dropped, not only the last bytes as the comment at
  `backend.rs:403` says.
* `TrustedIsInstalled` allows holes: entries that cannot be written are skipped, for
  whatever reason, and the tree is marked.
* Guest: all versions' archives have the same number of chunks; a failure to remove
  an old staging tree is left out; an archive larger than the image, which a
  server with ranges would refuse on every launch, does not occur. A write of
  `resolv.conf` is one step, a push comes after the one before it is through, and git is
  not removed by hand.
* Jobs: process groups are not renumbered, so the window between a reaper's wait and
  its finish, in which a signal might reach another group, is not explored. A scan for
  `prune` or a list is one step, though the code looks at one job after the other. The text
  buffer's trimming and decoding are left out.
* Command: how the command line for proot is built is left out; the grace is long
  enough to read what a pipe nobody holds still contains.
* Stream: the bus neither loses nor delays what it shows (`Screen` has that), the
  server's blocks begin before they grow and grow with parts of their own kind, and
  a message ends after its blocks, but for the last one when the length limit cut it.
* Git pane: messages, statuses and what git does are left out; a repository and the
  project it is cloned into are one number; a second intent, which hands the token over
  again, is not modelled, nor is the slot of `credentials.rs:155`, which keeps a refused token
  and which nothing reads. `SealedAgrees` is silent once a typed token was overtaken
  (`raced`), and `CommitsWhereAimed` when something that selects a project was under way
  as the button was pressed or a listing failed since: the code does commit elsewhere
  then. A sign-out is undone by a kill before the shell's next poll, and a stale answer
  is taken by the next question of the same kind.
* Keep-alive: a service that was asked for is up before the next poll, and a Stop is
  past a poll before the switch is saved. The dialog saves the switch with everything else,
  as it was read when the dialog was opened (`SettingsDialog.kt:108`, `147`): this may turn it
  on again after a Stop, which the model takes for the user asking. Without the second, `KeepAlive.running`
  stays set while the service is gone, and the service does not come back for work that
  goes on.
* Not modelled at all, and why: the file tools and search build a shell command each
  and keep no state (`edit_file`'s read and write are a listed hazard); guest files and the exec strategy are pure
  functions of the host's file system; a job's text buffer is characters, which `Jobs`
  counts by the chunk (a listed hazard); the terminal is a queue in front of an
  emulator; rendering, layout and platform calls have no state of their own; the exec
  probe is a separate diagnostic app.
* The patches of `rio-vt` and `teletypewriter` under `patches/` are vendored terminal
  libraries. They are about 41,000 of the repository's 53,600 lines of Rust, so the
  share of the whole that these modules map stays small, whatever is modelled of
  the program's own 12,600, tests and rendering included.

## 6. Plan

What could come next, in this order:

1. `JobBuffer`: trimming, cursor and decoding of a job's output (`jobs.rs:258-318`),
   against the text printed; what a stray byte throws away.
2. `GuestPath`: resolution of a guest path against the host file system (links,
   cycles, dots), as a recursive function against a reference definition.
