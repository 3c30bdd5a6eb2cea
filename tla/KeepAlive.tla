----------------------------- MODULE KeepAlive -----------------------------
(***************************************************************************)
(* What keeps the app out of Android's freezer while it works: the busy    *)
(* flag a thread derives from the event bus and the summary of what runs   *)
(* (apps/android/src/agent_task.rs), the Activity's poll                   *)
(* (MainActivity.kt) and the foreground service with its Stop button       *)
(* (KeepAliveService.kt).                                                  *)
(*                                                                         *)
(* A turn is its first and last event and what comes between and after;    *)
(* Jobs has how background jobs are counted.  A service that was asked for *)
(* is taken to be up before the next poll.                                 *)
(***************************************************************************)
EXTENDS Integers, Sequences, SequencesExt

CONSTANTS
  MaxTurns,    \* bound: turns
  MaxJobs,     \* bound: background jobs ever started
  MaxInside,   \* bound: events inside a turn
  MaxAside,    \* events after a turn, before the next
  MaxChoices,  \* bound: times the user saves the switch or presses Stop
  Capacity     \* events the bus keeps

ASSUME KeepAliveAssumption ==
  /\ {MaxTurns, MaxJobs, MaxInside, MaxAside, MaxChoices} \subseteq Nat
  /\ Capacity \in Nat
  /\ MaxAside < Capacity

VARIABLES
  turn,         \* the worker runs a turn
  jobs,         \* background jobs running
  backlog,      \* events the mirror has not taken, the oldest perhaps lost
  busy,         \* BUSY
  service,      \* what the notification says, or Off
  running,      \* KeepAlive.running
  lastSummary,  \* KeepAlive.lastSummary
  userStopped,  \* KeepAlive.userStopped
  pinned,       \* PREF_KEEP_AWAKE
  pressed,      \* a Stop was pressed and not yet delivered
  turns, started, aside, choices

(* Observed, never read by a guard.                                        *)
VARIABLE
  unwanted      \* what has become of the last Stop

work   == <<turn, jobs, turns, started, aside>>
keeper == <<service, running, lastSummary>>

keeperVars ==
  <<work, backlog, busy, keeper, userStopped, pinned, pressed, choices, unwanted>>

Nothing == <<>>
Off     == Nothing
Awake   == <<FALSE, 0>>

(* work_summary: the two things it names.                                  *)
Summary == IF busy \/ jobs > 0 THEN <<busy, jobs>> ELSE Nothing

KeeperInit ==
  /\ turn = FALSE /\ jobs = 0
  /\ backlog = <<>> /\ busy = FALSE
  /\ service = Off /\ running = FALSE /\ lastSummary = Nothing
  /\ userStopped = FALSE
  /\ pinned \in BOOLEAN
  /\ pressed = FALSE
  /\ turns = 0 /\ started = 0 /\ aside = 0 /\ choices = 0
  /\ unwanted = "no"

(* A Stop is about what runs when it is delivered ("working"), or about    *)
(* nothing once that has ended ("idle"; "seen" if a poll saw it so).  Work *)
(* that begins after that is wanted ("no"), unless it came before the poll *)
(* ("late").  "asked" is a Stop the user took back before a poll saw rest. *)
Watch ==
  LET rests == Summary' = Nothing IN
  unwanted' = CASE unwanted \in {"working", "late"} /\ rests -> "idle"
                [] unwanted = "idle" /\ ~rests -> "late"
                [] unwanted = "seen" /\ ~rests -> "no"
                [] OTHER -> unwanted

Looks ==
  LET rests == Summary = Nothing IN
  unwanted' = CASE unwanted = "idle" /\ rests -> "seen"
                [] unwanted = "asked" /\ rests -> "no"
                [] OTHER -> unwanted

-----------------------------------------------------------------------------
(***************************************************************************)
(* The work.  The bus keeps the last Capacity events for each receiver.    *)
(***************************************************************************)
Emit(event) ==
  LET all == Append(backlog, event) IN
    backlog' = IF Len(all) > Capacity THEN Tail(all) ELSE all

TurnStarts ==
  /\ ~turn /\ turns < MaxTurns
  /\ turn' = TRUE /\ turns' = turns + 1 /\ aside' = 0
  /\ Emit("started")
  /\ UNCHANGED <<jobs, started, busy, keeper, userStopped, pinned, pressed, choices>>
  /\ Watch

(* A fragment or a tool call; after the turn, a summary or an opened chat. *)
Asides == IF turn THEN MaxInside ELSE MaxAside

Aside ==
  /\ turns > 0 /\ aside < Asides
  /\ aside' = aside + 1
  /\ Emit("other")
  /\ UNCHANGED <<turn, jobs, turns, started, busy, keeper, userStopped, pinned, pressed,
                 choices>>
  /\ Watch

TurnEnds ==
  /\ turn
  /\ turn' = FALSE /\ aside' = 0
  /\ \E how \in {"ended", "failed"} : Emit(how)
  /\ UNCHANGED <<jobs, turns, started, busy, keeper, userStopped, pinned, pressed, choices>>
  /\ Watch

JobStarts ==
  /\ turn /\ started < MaxJobs
  /\ jobs' = jobs + 1 /\ started' = started + 1
  /\ UNCHANGED <<turn, turns, aside, backlog, busy, keeper, userStopped, pinned, pressed,
                 choices>>
  /\ Watch

JobEnds ==
  /\ jobs > 0
  /\ jobs' = jobs - 1
  /\ UNCHANGED <<turn, turns, started, aside, backlog, busy, keeper, userStopped, pinned,
                 pressed, choices>>
  /\ Watch

(* Mutant: a turn that failed is thought to go on.                         *)
MirrorsEndsOnly ==
  /\ backlog # <<>>
  /\ backlog' = Tail(backlog)
  /\ busy' = CASE Head(backlog) = "started" -> TRUE
               [] Head(backlog) = "ended" -> FALSE
               [] OTHER -> busy
  /\ UNCHANGED <<work, keeper, userStopped, pinned, pressed, choices>>
  /\ Watch

(* mirror_to_logcat, which goes on with the oldest event there is.         *)
Mirrors ==
  /\ backlog # <<>>
  /\ backlog' = Tail(backlog)
  /\ busy' = CASE Head(backlog) = "started" -> TRUE
               [] Head(backlog) \in {"ended", "failed"} -> FALSE
               [] OTHER -> busy
  /\ UNCHANGED <<work, keeper, userStopped, pinned, pressed, choices>>
  /\ Watch

-----------------------------------------------------------------------------
(***************************************************************************)
(* The Activity's thread: the poll, and what the user does.                *)
(***************************************************************************)
TurnsOff == service' = Off /\ running' = FALSE /\ lastSummary' = Nothing

(* Mutant: a service that runs is left as it is.                           *)
SyncOnce(wanted, summary) ==
  IF ~wanted THEN IF running THEN TurnsOff ELSE UNCHANGED keeper
  ELSE IF running THEN UNCHANGED keeper
  ELSE service' = summary /\ running' = TRUE /\ lastSummary' = summary

(* KeepAlive.sync.                                                         *)
Sync(wanted, summary) ==
  IF ~wanted THEN IF running THEN TurnsOff ELSE UNCHANGED keeper
  ELSE IF running /\ summary = lastSummary THEN UNCHANGED keeper
  ELSE service' = summary /\ running' = TRUE /\ lastSummary' = summary

(* syncKeepAlive.  With nothing running, an earlier Stop is over, and the  *)
(* notification speaks of the sandbox that is kept awake.                  *)
SyncKeepAlive ==
  /\ userStopped' = (userStopped /\ Summary # Nothing)
  /\ Sync((Summary # Nothing \/ pinned) /\ ~userStopped',
          IF Summary = Nothing THEN Awake ELSE Summary)
  /\ UNCHANGED <<work, backlog, busy, pinned, pressed, choices>>
  /\ Looks

(* Mutant: Stop leaves the switch on.                                      *)
StopDeliveredPinned ==
  /\ pressed
  /\ pressed' = FALSE
  /\ userStopped' = TRUE
  /\ service' = Off
  /\ unwanted' = IF Summary = Nothing THEN "idle" ELSE "working"
  /\ UNCHANGED <<work, backlog, busy, running, lastSummary, pinned, choices>>

(* onStartCommand(ACTION_STOP).  KeepAlive is not told.                    *)
StopDelivered ==
  /\ pressed
  /\ pressed' = FALSE
  /\ pinned' = FALSE
  /\ userStopped' = TRUE
  /\ service' = Off
  /\ unwanted' = IF Summary = Nothing THEN "idle" ELSE "working"
  /\ UNCHANGED <<work, backlog, busy, running, lastSummary, choices>>

(* The button is in the notification.                                      *)
PressStop ==
  /\ service # Off /\ ~pressed /\ choices < MaxChoices
  /\ pressed' = TRUE
  /\ choices' = choices + 1
  /\ UNCHANGED <<work, backlog, busy, keeper, userStopped, pinned>>
  /\ Watch

(* Save writes the switch as it was when the dialog was opened, or as the  *)
(* user left it; a Stop is past a poll before that.                        *)
SaveSwitch ==
  /\ running = (service # Off)
  /\ choices < MaxChoices
  /\ choices' = choices + 1
  /\ pinned' \in BOOLEAN
  /\ unwanted' = IF ~pinned' THEN unwanted
                 ELSE IF unwanted \in {"no", "seen"} THEN "no" ELSE "asked"
  /\ UNCHANGED <<work, backlog, busy, keeper, userStopped, pressed>>

KeeperNext ==
  \/ TurnStarts \/ Aside \/ TurnEnds \/ JobStarts \/ JobEnds \/ Mirrors
  \/ SyncKeepAlive \/ StopDelivered \/ PressStop \/ SaveSwitch

KeeperSpec == KeeperInit /\ [][KeeperNext]_keeperVars

(* The mirror's thread and the Activity's run what is ready, and the poll  *)
(* comes round; a turn ends (AgentTurn has why); a job may run for ever.   *)
KeeperFairSpec ==
  /\ KeeperSpec
  /\ WF_keeperVars(Mirrors) /\ WF_keeperVars(SyncKeepAlive)
  /\ WF_keeperVars(StopDelivered) /\ WF_keeperVars(TurnEnds)

-----------------------------------------------------------------------------
(***************************************************************************)
(* Properties.                                                             *)
(***************************************************************************)
(* What every variable may hold: the bus keeps no more than it can, the    *)
(* count of jobs does not exceed the jobs started, and the notification    *)
(* says nothing but a flag and a count of jobs.                            *)
KeeperTypeOK ==
  LET says == (BOOLEAN \X (0 .. MaxJobs)) \cup {Nothing} IN
  /\ turn \in BOOLEAN /\ busy \in BOOLEAN
  /\ jobs \in 0 .. started /\ started \in 0 .. MaxJobs
  /\ turns \in 0 .. MaxTurns /\ aside \in 0 .. Asides /\ choices \in 0 .. MaxChoices
  /\ backlog \in Seq({"started", "ended", "failed", "other"})
  /\ Len(backlog) <= Capacity
  /\ service \in says /\ lastSummary \in says
  /\ running \in BOOLEAN /\ userStopped \in BOOLEAN
  /\ pinned \in BOOLEAN /\ pressed \in BOOLEAN
  /\ unwanted \in {"no", "working", "idle", "seen", "late", "asked"}

(* After a Stop the service stays off, however often the poll comes by and *)
(* whatever goes on working, until that work has ended and other work has  *)
(* begun, or the user asks for it again (KeepAliveService.kt:36-49).       *)
StopIsObeyed == unwanted \in {"working", "idle", "seen"} => service = Off

(* In the end the service is there exactly while there is work or the user *)
(* wants it, and says what runs (agent_task.rs:36-63).  A Stop that is     *)
(* kept is about the work that goes on; work that began after a poll saw   *)
(* rest is kept awake again (KeepAliveService.kt:147).  "late" is what     *)
(* neither that line nor :112 say: the poll missed the rest, and the Stop  *)
(* is kept for work it was not about.  "asked" is a switch turned on       *)
(* during the work, which waits for its end.  However far the mirror falls *)
(* behind.                                                                 *)
Agrees ==
  LET working == turn \/ jobs > 0 IN
    /\ ~working /\ ~pinned => service = Off
    /\ (working \/ pinned) /\ ~userStopped => service # Off
    /\ userStopped => working /\ unwanted \in {"working", "late", "asked"}
    /\ service # Off => service = IF working THEN <<turn, jobs>> ELSE Awake

ServiceFollowsWork == <>[]Agrees

(* The message box, which is closed while BUSY is set, opens again         *)
(* (agent_task.rs:28-34), even if the mirror lost the end of a turn among  *)
(* what it had no time for.                                                *)
BoxOpensAgain == busy ~> ~busy
=============================================================================
