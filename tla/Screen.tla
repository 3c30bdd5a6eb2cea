------------------------------- MODULE Screen -------------------------------
(***************************************************************************)
(* What the user sees of the agent: the event bus                          *)
(* (crates/mc-core/src/event.rs), the chat log that is rebuilt from it     *)
(* (crates/mc-core/src/chat.rs), and the two tasks of the window that both *)
(* write the log, one applying events and one loading the chats the worker *)
(* opens (crates/mc-ui/src/chat.rs).                                       *)
(*                                                                         *)
(* The worker of crates/mc-agent/src/worker.rs is here only what it emits  *)
(* and saves.  A transcript, and the log of it, is its prompts; an answer  *)
(* is a number of fragments.  Writes succeed: Chats has those that do not. *)
(***************************************************************************)
EXTENDS Integers, Sequences, SequencesExt

CONSTANTS
  Chat,           \* session ids, as many as a behaviour opens
  MaxPrompts,     \* bound: prompts sent
  MaxSwitches,    \* bound: presses of New and of a chat in the picker
  MaxFragments,   \* bound: fragments of one answer
  Capacity,       \* events the bus keeps (EventBus::default)
  CollectFirst    \* the window always runs collect_events before the other

ASSUME ScreenAssumption ==
  /\ {MaxPrompts, MaxSwitches, MaxFragments} \subseteq Nat
  /\ Capacity \in Nat \ {0}
  /\ CollectFirst \in BOOLEAN

VARIABLES
  files,      \* the library: chat -> its saved prompts
  session,    \* the worker's session
  pc,         \* what the worker does: "idle", "turn", "settling"
  fragments,  \* fragments of the answer emitted so far
  queue,      \* commands not yet received
  sent,       \* every event emitted; the bus keeps the last Capacity of them
  collected,  \* events collect_events has taken or lost
  followed,   \* events follow_open_chats has taken or lost
  log,        \* the ChatLog on screen
  asked,      \* prompts sent; a prompt is its number
  switches

(* Observed, never read by a guard.                                        *)
VARIABLES
  refused,    \* prompts whose setup failed
  lost,       \* a task of the window lost more than fragments
  overtaken   \* a chat was loaded too early or too late

seen == <<lost, overtaken>>
vars == <<files, session, pc, fragments, queue, sent, collected, followed, log,
          asked, switches, refused, seen>>

Opened == DOMAIN files

(* ChatLog::default and ChatLog::from_session: neither is busy.            *)
Restored(turns) == [items |-> turns, busy |-> FALSE]
EmptyLog        == Restored(<<>>)

Kinds    == {"TurnStarted", "TextDelta", "TurnEnded", "Failed", "Compacted",
             "SessionOpened"}
Events   == [kind : Kinds, what : Nat \cup Chat]
Commands == [kind : {"prompt", "open"}, what : Nat \cup Chat]

Event(kind, what) == [kind |-> kind, what |-> what]

(* The app has opened a chat, and the screen shows what was restored.      *)
Init ==
  /\ \E c \in Chat :
       /\ session = [id |-> c, turns |-> <<>>]
       /\ files = [d \in {c} |-> <<>>]
  /\ pc = "idle"
  /\ fragments = 0
  /\ queue = <<>>
  /\ sent = <<>>
  /\ collected = 0 /\ followed = 0
  /\ log = EmptyLog
  /\ asked = 0 /\ switches = 0
  /\ refused = {} /\ lost = FALSE /\ overtaken = FALSE

-----------------------------------------------------------------------------
(***************************************************************************)
(* The worker.                                                             *)
(***************************************************************************)
Emit(events) == sent' = sent \o events

Receives(kind) == pc = "idle" /\ queue # <<>> /\ Head(queue).kind = kind

SetupFails ==
  /\ Receives("prompt")
  /\ queue' = Tail(queue)
  /\ Emit(<<Event("TurnStarted", Head(queue).what), Event("Failed", 0)>>)
  /\ refused' = refused \cup {Head(queue).what}
  /\ UNCHANGED <<files, session, pc, fragments, collected, followed, log, asked,
                 switches, seen>>

TurnStarts ==
  /\ Receives("prompt")
  /\ queue' = Tail(queue)
  /\ session' = [session EXCEPT !.turns = Append(@, Head(queue).what)]
  /\ Emit(<<Event("TurnStarted", Head(queue).what)>>)
  /\ pc' = "turn"
  /\ fragments' = 0
  /\ UNCHANGED <<files, collected, followed, log, asked, switches, refused, seen>>

Streams ==
  /\ pc = "turn" /\ fragments < MaxFragments
  /\ fragments' = fragments + 1
  /\ Emit(<<Event("TextDelta", 0)>>)
  /\ UNCHANGED <<files, session, pc, queue, collected, followed, log, asked,
                 switches, refused, seen>>

(* TurnEnded when run_turn emits it, Failed when it returned an error: the *)
(* log treats its busy flag alike.                                         *)
TurnEnds ==
  /\ pc = "turn"
  /\ \E kind \in {"TurnEnded", "Failed"} : Emit(<<Event(kind, 0)>>)
  /\ pc' = "settling"
  /\ UNCHANGED <<files, session, fragments, queue, collected, followed, log, asked,
                 switches, refused, seen>>

(* A summary made on the way is announced.                                 *)
TurnSaved ==
  /\ pc = "settling"
  /\ Emit(<<>>) \/ Emit(<<Event("Compacted", 0)>>)
  /\ files' = [files EXCEPT ![session.id] = session.turns]
  /\ pc' = "idle"
  /\ UNCHANGED <<session, fragments, queue, collected, followed, log, asked, switches,
                 refused, seen>>

(* Open and NewChat.  At rest the file is what is in memory, so the save   *)
(* on the way out changes nothing.                                         *)
Switch ==
  /\ Receives("open")
  /\ queue' = Tail(queue)
  /\ LET c == Head(queue).what IN
       /\ session' = [id |-> c, turns |-> IF c \in Opened THEN files[c] ELSE <<>>]
       /\ files' = [d \in Opened \cup {c} |-> IF d \in Opened THEN files[d] ELSE <<>>]
       /\ Emit(<<Event("SessionOpened", c)>>)
  /\ UNCHANGED <<pc, fragments, collected, followed, log, asked, switches, refused, seen>>

Worker ==
  SetupFails \/ TurnStarts \/ Streams \/ TurnEnds \/ TurnSaved \/ Switch

-----------------------------------------------------------------------------
(***************************************************************************)
(* The window's tasks.  A receiver that fell behind by more than Capacity  *)
(* is told so, and goes on with the oldest event there is.                 *)
(***************************************************************************)
Lagging(at)  == at + Capacity < Len(sent)
Oldest       == Len(sent) - Capacity

(* Whether more than fragments is lost by going on with the oldest.        *)
LosesMore(at) == \E i \in at + 1 .. Oldest : sent[i].kind # "TextDelta"

(* Mutant: the log leaves it to the other task to empty the screen.        *)
ApplyKeepsOpened(event) ==
  CASE event.kind = "TurnStarted" ->
         [items |-> Append(log.items, event.what), busy |-> TRUE]
    [] event.kind \in {"TurnEnded", "Failed"} -> [log EXCEPT !.busy = FALSE]
    [] OTHER -> log

(* ChatLog::apply.                                                         *)
Apply(event) ==
  CASE event.kind = "TurnStarted" ->
         [items |-> Append(log.items, event.what), busy |-> TRUE]
    [] event.kind \in {"TurnEnded", "Failed"} -> [log EXCEPT !.busy = FALSE]
    [] event.kind = "SessionOpened" -> EmptyLog
    [] OTHER -> log

(* Mutant: only a turn that ended well lets go of the input.               *)
CollectUnlessFailed ==
  /\ collected < Len(sent) /\ ~Lagging(collected)
  /\ collected' = collected + 1
  /\ log' = IF sent[collected'].kind = "Failed" THEN log ELSE Apply(sent[collected'])
  /\ UNCHANGED <<files, session, pc, fragments, queue, sent, followed, asked,
                 switches, refused, seen>>

Collect ==
  /\ collected < Len(sent) /\ ~Lagging(collected)
  /\ collected' = collected + 1
  /\ log' = Apply(sent[collected'])
  /\ UNCHANGED <<files, session, pc, fragments, queue, sent, followed, asked,
                 switches, refused, seen>>

(* Mutant: after a lag the task subscribes anew.                           *)
CollectResubscribes ==
  /\ Lagging(collected)
  /\ collected' = Len(sent)
  /\ UNCHANGED <<files, session, pc, fragments, queue, sent, followed, log, asked,
                 switches, refused, seen>>

CollectLags ==
  /\ Lagging(collected)
  /\ collected' = Oldest
  /\ lost' = (lost \/ LosesMore(collected))
  /\ UNCHANGED <<files, session, pc, fragments, queue, sent, followed, log, asked,
                 switches, refused, overtaken>>

(* A SessionOpened is followed out of step when collect_events has not yet *)
(* emptied the screen for it or is past it, or when a later turn has ended *)
(* and is in the file that will be loaded.                                 *)
OutOfStep(at) ==
  \/ at # collected
  \/ \E i \in at + 1 .. Len(sent) : sent[i].kind \in {"TurnEnded", "Failed"}

FollowMay == CollectFirst => collected = Len(sent)

Follow ==
  /\ FollowMay
  /\ followed < Len(sent) /\ ~Lagging(followed)
  /\ followed' = followed + 1
  /\ log' = IF sent[followed'].kind = "SessionOpened"
            THEN Restored(files[sent[followed'].what])
            ELSE log
  /\ overtaken' = (\/ overtaken
                   \/ sent[followed'].kind = "SessionOpened" /\ OutOfStep(followed'))
  /\ UNCHANGED <<files, session, pc, fragments, queue, sent, collected, asked,
                 switches, refused, lost>>

FollowLags ==
  /\ FollowMay
  /\ Lagging(followed)
  /\ followed' = Oldest
  /\ lost' = (lost \/ LosesMore(followed))
  /\ UNCHANGED <<files, session, pc, fragments, queue, sent, collected, log, asked,
                 switches, refused, overtaken>>

-----------------------------------------------------------------------------
(***************************************************************************)
(* The user: everything is refused while the screen says it is busy.       *)
(***************************************************************************)
Send ==
  /\ ~log.busy /\ asked < MaxPrompts
  /\ asked' = asked + 1
  /\ queue' = Append(queue, [kind |-> "prompt", what |-> asked + 1])
  /\ UNCHANGED <<files, session, pc, fragments, sent, collected, followed, log,
                 switches, refused, seen>>

PressSwitch(c) ==
  /\ ~log.busy /\ switches < MaxSwitches
  /\ switches' = switches + 1
  /\ queue' = Append(queue, [kind |-> "open", what |-> c])
  /\ UNCHANGED <<files, session, pc, fragments, sent, collected, followed, log,
                 asked, refused, seen>>

User == Send \/ \E c \in Chat : PressSwitch(c)

Next ==
  \/ Worker \/ User
  \/ Collect \/ CollectLags \/ Follow \/ FollowLags

Spec == Init /\ [][Next]_vars

(* The worker's thread and the window's executor run what is ready; nobody *)
(* has to press anything.                                                  *)
FairSpec ==
  /\ Spec
  /\ WF_vars(Worker)
  /\ WF_vars(Collect \/ CollectLags)
  /\ WF_vars(Follow \/ FollowLags)

-----------------------------------------------------------------------------
(***************************************************************************)
(* Properties.                                                             *)
(***************************************************************************)
(* Everything sent has been served, and everything emitted has been seen.  *)
AtRest ==
  /\ pc = "idle" /\ queue = <<>>
  /\ collected = Len(sent) /\ followed = Len(sent)

InOrder(turns) == \A i, k \in DOMAIN turns : i < k => turns[i] < turns[k]

(* The log is these turns, each once and in order, among prompts whose     *)
(* setup failed.  Prompts are numbered as they were sent, so that being in *)
(* order and having the same members is being the same.                    *)
Shows(turns) ==
  /\ InOrder(log.items) /\ InOrder(turns)
  /\ Range(log.items) \ refused = Range(turns)

(* Every variable has its type and nobody has taken what was not emitted   *)
(* (event.rs:69-97).                                                       *)
TypeOK ==
  /\ session \in [id : Opened, turns : Seq(1 .. asked)]
  /\ Opened \subseteq Chat /\ files \in [Opened -> Seq(1 .. asked)]
  /\ pc \in {"idle", "turn", "settling"}
  /\ fragments \in 0 .. MaxFragments
  /\ queue \in Seq(Commands) /\ sent \in Seq(Events)
  /\ collected \in 0 .. Len(sent) /\ followed \in 0 .. Len(sent)
  /\ log \in [items : Seq(1 .. asked), busy : BOOLEAN]
  /\ asked \in 0 .. MaxPrompts /\ switches \in 0 .. MaxSwitches
  /\ refused \subseteq 1 .. asked /\ lost \in BOOLEAN /\ overtaken \in BOOLEAN

(* At rest the screen shows the worker's conversation, each prompt once    *)
(* and in order, and takes the next one (chat.rs:139-249 of mc-core): if   *)
(* nothing but fragments was lost, and the two tasks that write the screen *)
(* kept in step with each other and with the worker.                       *)
ScreenAgrees ==
  AtRest /\ ~lost /\ ~overtaken => Shows(session.turns) /\ ~log.busy

(* At rest nothing of another chat is on the screen, in whatever order the *)
(* two tasks of the window came to what was opened and answered meanwhile, *)
(* and even if fragments were lost (chat.rs:117-146 of mc-ui).             *)
NothingOfAnotherChat ==
  AtRest /\ ~lost => Range(log.items) \ refused \subseteq Range(session.turns)

(* However far the window fell behind, it lets the user write again: the   *)
(* end of the last turn is never among the events that were lost           *)
(* (chat.rs:159-162 of mc-ui).                                             *)
NeverFrozen == log.busy ~> ~log.busy

(* A message that was sent is shown, even if it cannot be run              *)
(* (worker.rs:120-125), unless its event was lost.                         *)
EveryPromptShows ==
  \A p \in 1 .. MaxPrompts :
    (\E i \in DOMAIN queue : queue[i] = [kind |-> "prompt", what |-> p])
      ~> (p \in Range(log.items) \/ lost)

(* What mc-ui's chat.rs:119-122 says of a chat opened in the background:   *)
(* it is there when the user comes back.                                   *)
WhatWasOpenedIsThere ==
  AtRest /\ ~lost => Shows(session.turns) /\ ~log.busy
=============================================================================
