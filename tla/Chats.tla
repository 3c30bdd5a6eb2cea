------------------------------- MODULE Chats --------------------------------
(***************************************************************************)
(* Many conversations, one directory: the worker's command loop            *)
(* (crates/mc-agent/src/worker.rs) over the session library                *)
(* (crates/mc-core/src/library.rs and store.rs), with the user deleting    *)
(* chats behind its back and the app being killed at any point.            *)
(*                                                                         *)
(* A chat's transcript is the sequence of the prompts it was given; what a *)
(* prompt is answered with is AgentTurn's affair.  The first of them may   *)
(* have been summarized: they are no longer in the transcript, and the     *)
(* summary stands for them.  A file is replaced in one step, by the rename *)
(* that ends SessionStore::save.                                           *)
(***************************************************************************)
EXTENDS Integers, Sequences, SequencesExt

CONSTANTS
  MaxPrompts,      \* bound: prompts sent
  MaxSwitches,     \* bound: presses of New and of a chat in the picker
  MaxDeletes,      \* bound: presses of Delete
  MaxCrashes       \* bound: times the app is killed

ASSUME ChatsAssumption == {MaxPrompts, MaxSwitches, MaxDeletes, MaxCrashes} \subseteq Nat

(* Session ids are never given out twice: the number of ids given out so   *)
(* far stands for the next one.                                            *)
NoChat == 0
Chat   == Nat \ {NoChat}

VARIABLES
  files,       \* <dir>/<id>.json: chat -> its turns, how many of them only its
               \* summary stands for, and its modification time
  legacy,      \* the chat of the single-session file of older versions, or NoChat
  clock,       \* the file system's clock
  session,     \* the session in the worker's memory
  pc,          \* what the worker does next
  window,      \* how far the thread that opens the window has come
  queue,       \* commands sent; one that switches chats stays until it is done
  used         \* how many ids were given to a session so far

VARIABLES
  asked,       \* prompts sent so far; a prompt is its number
  switches, deletes,
  crashes

(* Observed, never read by a guard.                                        *)
VARIABLES
  failed,      \* a write failed
  readopted,   \* the old file was adopted again after the user had gone on
  unclear,     \* at this start two chats could be taken for the latest
  deleted,     \* chats the user deleted
  deletedOpen, \* those that the worker had open
  lastOpen,    \* the chat last opened for the user, or NoChat
  restored,    \* the chat the window was opened with, until another is opened
  pressed,     \* presses that open a chat since the app was launched
  entered      \* those of them whose chat the worker has

bounds   == <<asked, switches, deletes, crashes>>
order    == <<pressed, entered>>
unsaved  == <<readopted, unclear, deleted, deletedOpen, lastOpen, restored, order>>
observed == <<failed, unsaved>>
vars == <<files, legacy, clock, session, pc, window, queue, used, bounds, observed>>

LegacyPrompt == 0

Stored == DOMAIN files

TurnsOf(c) == files[c].turns

Nobody == [id |-> NoChat, turns |-> <<>>, covered |-> 0]

(* A command is also marked with the press that opens, or opened last, the *)
(* chat it is about (observed).                                            *)
Prompt(p) == [kind |-> "prompt", what |-> p, press |-> pressed]
Open(c)   == [kind |-> "open", what |-> c, press |-> pressed + 1]
NewChat   == [kind |-> "new", what |-> NoChat, press |-> pressed + 1]

(* Session::new: an id nothing else bears.                                 *)
NewSession ==
  /\ used' = used + 1
  /\ session' = [id |-> used + 1, turns |-> <<>>, covered |-> 0]

(* SessionStore::load.                                                     *)
Loaded(c) == [id |-> c, turns |-> TurnsOf(c), covered |-> files[c].covered]

Init ==
  /\ files = [c \in {} |-> 0]
  /\ used \in 0 .. 1
  /\ legacy = used          \* chat 1 is an older version's, or there is none
  /\ clock = 0
  /\ session = Nobody
  /\ pc = "off" /\ window = "off"
  /\ queue = <<>>
  /\ asked = 0 /\ switches = 0 /\ deletes = 0 /\ crashes = 0
  /\ failed = FALSE /\ readopted = FALSE /\ unclear = FALSE
  /\ deleted = {} /\ deletedOpen = {}
  /\ lastOpen = NoChat /\ restored = NoChat
  /\ pressed = 0 /\ entered = 0

-----------------------------------------------------------------------------
(* SessionStore::save: the file is complete and new, or, when a write      *)
(* failed, still the old one.  The clock that stamps it ticks every few    *)
(* milliseconds, so two writes in a row may bear the same time; a tick is  *)
(* counted where it tells two files apart.                                 *)
Saved(s) ==
  /\ \/ clock' = clock
     \/ clock' = clock + 1 /\ \E c \in Stored \ {s.id} : files[c].at = clock
  /\ files' = [c \in Stored \cup {s.id} |->
                 IF c = s.id THEN [turns |-> s.turns, covered |-> s.covered, at |-> clock']
                 ELSE files[c]]
  /\ UNCHANGED failed

SaveFails == failed' = TRUE /\ UNCHANGED <<files, clock>>

(* worker.rs: a failure to save is logged and swallowed.                   *)
Save(s) == Saved(s) \/ SaveFails

(* SessionLibrary::list sorts by modification time; equal times keep the   *)
(* directory's order, which is any.                                        *)
IsSingleton(S) == \E x \in S : S = {x}

MostRecent == {c \in Stored : \A d \in Stored : files[d].at <= files[c].at}

-----------------------------------------------------------------------------
(***************************************************************************)
(* Starting.  The worker's thread opens the latest chat; meanwhile the     *)
(* thread that opens the window adopts the old single file, and restores   *)
(* the latest chat on the screen.                                          *)
(***************************************************************************)
Launch ==
  /\ pc = "off"
  /\ pc' = "booting" /\ window' = "adopting"
  /\ UNCHANGED <<files, legacy, clock, session, queue, used, bounds, observed>>

(* Mutant: the worker starts with a chat of its own every time.            *)
BootFresh ==
  /\ pc = "booting"
  /\ NewSession
  /\ lastOpen' = session'.id
  /\ unclear' = (legacy \notin Stored \cup {NoChat} \/ ~IsSingleton(MostRecent))
  /\ pc' = "idle"
  /\ UNCHANGED <<files, legacy, clock, window, queue, bounds, failed, readopted,
                 deleted, deletedOpen, restored, order>>

Boot ==
  /\ pc = "booting"
  /\ IF MostRecent # {}
     THEN /\ \E c \in MostRecent : session' = Loaded(c)
          /\ UNCHANGED used
     ELSE NewSession
  /\ lastOpen' = session'.id
  /\ unclear' = (legacy \notin Stored \cup {NoChat} \/ ~IsSingleton(MostRecent))
  /\ pc' = "idle"
  /\ UNCHANGED <<files, legacy, clock, window, queue, bounds, failed, readopted,
                 deleted, deletedOpen, restored, order>>

(* Mutant: the old file is moved away first and written where it belongs   *)
(* next.                                                                   *)
AdoptMoves ==
  /\ window = "adopting"
  /\ legacy' = NoChat
  /\ window' = "restoring"
  /\ UNCHANGED <<files, clock, session, pc, queue, used, bounds, observed>>

(* The chat of the old file.                                               *)
Older == [id |-> legacy, turns |-> <<LegacyPrompt>>, covered |-> 0]

Adopt ==
  /\ window = "adopting"
  /\ \/ /\ legacy = NoChat
        /\ window' = "restoring"
        /\ UNCHANGED <<files, clock, failed>>
     \/ /\ legacy # NoChat
        /\ \/ Saved(Older) /\ window' = "adopted"
           \/ SaveFails /\ window' = "restoring"
  /\ readopted' = (readopted \/ (window' = "adopted" /\ asked + switches + deletes > 0))
  /\ UNCHANGED <<legacy, session, pc, queue, used, bounds, unclear, deleted, deletedOpen,
                 lastOpen, restored, order>>

(* Nobody looks whether the old file is gone.                              *)
AdoptRemoves ==
  /\ window = "adopted"
  /\ legacy' \in {NoChat, legacy}
  /\ window' = "restoring"
  /\ UNCHANGED <<files, clock, session, pc, queue, used, bounds, observed>>

Restore ==
  /\ window = "restoring"
  /\ restored' \in IF MostRecent = {} THEN {NoChat} ELSE MostRecent
  /\ window' = "open"
  /\ UNCHANGED <<files, legacy, clock, session, pc, queue, used, bounds, failed, readopted,
                 unclear, deleted, deletedOpen, lastOpen, order>>

-----------------------------------------------------------------------------
(***************************************************************************)
(* A prompt: reset, setup, the turn, and the save after it.                *)
(***************************************************************************)
Receives(kind) == pc = "idle" /\ queue # <<>> /\ Head(queue).kind = kind

SetupFails ==
  /\ Receives("prompt")
  /\ queue' = Tail(queue)
  /\ UNCHANGED <<files, legacy, clock, session, pc, window, used, bounds,
                 observed>>

(* Mutant: a prompt that waits is taken before a switch that waits.        *)
PromptsFirst ==
  /\ pc = "idle"
  /\ \E i \in DOMAIN queue :
       /\ queue[i].kind = "prompt"
       /\ \A j \in 1 .. i - 1 : queue[j].kind # "prompt"
       /\ queue' = RemoveAt(queue, i)
       /\ session' = [session EXCEPT !.turns = Append(@, queue[i].what)]
  /\ pc' = "turn"
  /\ UNCHANGED <<window, files, legacy, clock, used, bounds, observed>>

TurnStarts ==
  /\ Receives("prompt")
  /\ queue' = Tail(queue)
  /\ session' = [session EXCEPT !.turns = Append(@, Head(queue).what)]
  /\ pc' = "turn"
  /\ UNCHANGED <<window, files, legacy, clock, used, bounds, observed>>

(* Session::compact, when the server rejects a request that is too long    *)
(* and after a turn that ended: some prompts go, never the last.           *)
Summarize ==
  /\ pc = "turn"
  /\ \E n \in session.covered + 1 .. Len(session.turns) - 1 :
       session' = [session EXCEPT !.covered = n]
  /\ UNCHANGED <<files, legacy, clock, pc, window, queue, used, bounds, observed>>

(* Mutant: the worker returns to its queue without saving.                 *)
TurnUnsaved ==
  /\ pc = "turn"
  /\ pc' = "idle"
  /\ UNCHANGED <<files, legacy, clock, session, window, queue, used, bounds,
                 observed>>

(* The events that end the turn on the screen come before a summary that   *)
(* may follow it, and the summary before the save.                         *)
TurnSaved ==
  /\ pc = "turn"
  /\ Save(session)
  /\ pc' = "idle"
  /\ UNCHANGED <<legacy, session, window, queue, used, bounds, unsaved>>

-----------------------------------------------------------------------------
(***************************************************************************)
(* Open and NewChat: save what is left, load or make what is entered, save *)
(* that too, and tell the screen.                                          *)
(***************************************************************************)
Leave ==
  /\ Receives("open") \/ Receives("new")
  /\ Save(session)
  /\ pc' = "switching"
  /\ UNCHANGED <<legacy, session, window, queue, used, bounds, unsaved>>

(* Mutant: a chat that cannot be loaded is entered under its old id.       *)
SwitchKeepsId ==
  /\ pc = "switching"
  /\ \/ /\ Head(queue).what \in Stored
        /\ session' = Loaded(Head(queue).what)
        /\ UNCHANGED used
     \/ /\ Head(queue).what \notin Stored \cup {NoChat}
        /\ session' = [Nobody EXCEPT !.id = Head(queue).what]
        /\ UNCHANGED used
     \/ /\ Head(queue).what = NoChat
        /\ NewSession
  /\ entered' = entered + 1
  /\ pc' = "entering"
  /\ UNCHANGED <<window, files, legacy, clock, queue, bounds, failed, readopted, unclear,
                 deleted, deletedOpen, lastOpen, restored, pressed>>

Switch ==
  /\ pc = "switching"
  /\ IF Head(queue).what \in Stored
     THEN session' = Loaded(Head(queue).what) /\ UNCHANGED used
     ELSE NewSession
  /\ entered' = entered + 1
  /\ pc' = "entering"
  /\ UNCHANGED <<window, files, legacy, clock, queue, bounds, failed, readopted, unclear,
                 deleted, deletedOpen, lastOpen, restored, pressed>>

(* Mutant: a chat is written only when it is left.                         *)
EnterUnsaved ==
  /\ pc = "entering"
  /\ queue' = Tail(queue)
  /\ lastOpen' = session.id /\ restored' = NoChat
  /\ pc' = "idle"
  /\ UNCHANGED <<files, legacy, clock, session, window, used, bounds, failed,
                 readopted, unclear, deleted, deletedOpen, order>>

Enter ==
  /\ pc = "entering"
  /\ Save(session)
  /\ queue' = Tail(queue)
  /\ lastOpen' = session.id /\ restored' = NoChat
  /\ pc' = "idle"
  /\ UNCHANGED <<legacy, session, window, used, bounds, readopted, unclear, deleted,
                 deletedOpen, order>>

-----------------------------------------------------------------------------
(***************************************************************************)
(* The user, and the system that kills the app.  The screen's busy flag    *)
(* trails the worker, so a press may find the worker in any state.         *)
(***************************************************************************)
Alive == pc \notin {"off", "booting"}

Send ==
  /\ window = "open" /\ asked < MaxPrompts
  /\ asked' = asked + 1
  /\ queue' = Append(queue, Prompt(asked + 1))
  /\ UNCHANGED <<files, legacy, clock, session, pc, window, used, switches,
                 deletes, crashes, observed>>

PressSwitch ==
  /\ window = "open" /\ switches < MaxSwitches
  /\ switches' = switches + 1 /\ pressed' = pressed + 1
  /\ \E command \in {NewChat} \cup {Open(c) : c \in Stored} :
       queue' = Append(queue, command)
  /\ UNCHANGED <<files, legacy, clock, session, pc, window, used, asked,
                 deletes, crashes, failed, readopted, unclear, deleted, deletedOpen,
                 lastOpen, restored, entered>>

Delete(c) ==
  /\ window = "open" /\ c \in Stored
  /\ deletes < MaxDeletes
  /\ deletes' = deletes + 1
  /\ files' = Restrict(files, Stored \ {c})
  /\ deleted' = deleted \cup {c}
  /\ deletedOpen' = deletedOpen \cup ({c} \cap {session.id})
  /\ UNCHANGED <<legacy, clock, session, pc, window, queue, used, asked,
                 switches, crashes, failed, readopted, unclear, lastOpen, restored,
                 order>>

Crash ==
  /\ pc # "off" /\ crashes < MaxCrashes
  /\ crashes' = crashes + 1
  /\ pc' = "off" /\ window' = "off"
  /\ session' = Nobody
  /\ queue' = <<>>
  /\ restored' = NoChat /\ unclear' = FALSE
  /\ pressed' = 0 /\ entered' = 0
  /\ UNCHANGED <<files, legacy, clock, used, asked, switches, deletes, failed,
                 readopted, deleted, deletedOpen, lastOpen>>

-----------------------------------------------------------------------------
Worker ==
  \/ Boot
  \/ SetupFails \/ TurnStarts \/ Summarize \/ TurnSaved
  \/ Leave \/ Switch \/ Enter

Window == Adopt \/ AdoptRemoves \/ Restore

User == Send \/ PressSwitch \/ \E c \in Stored : Delete(c)

Next == Launch \/ Worker \/ Window \/ User \/ Crash

Spec == Init /\ [][Next]_vars

(* The worker's thread runs; every turn ends, which AgentTurn shows.       *)
FairSpec == Spec /\ WF_vars(Worker)

-----------------------------------------------------------------------------
(***************************************************************************)
(* Properties.                                                             *)
(***************************************************************************)
Places == {"off", "booting", "idle", "turn", "switching", "entering"}

Prompts == LegacyPrompt .. MaxPrompts

Given == 1 .. used

(* Every variable has its type, no file bears an id that was never given   *)
(* out, and the worker has a session whenever it may need one              *)
(* (worker.rs:68-74).                                                      *)
TypeOK ==
  /\ used \in Nat
  /\ Stored \subseteq Given
  /\ \A c \in Stored :
       /\ TurnsOf(c) \in Seq(Prompts) /\ files[c].covered \in Nat
       /\ files[c].at \in 0 .. clock
  /\ legacy \in Given \cup {NoChat}
  /\ clock \in Nat
  /\ session.turns \in Seq(Prompts) /\ session.covered \in Nat
  /\ Alive => session.id \in Given
  /\ pc \in Places
  /\ window \in {"off", "adopting", "adopted", "restoring", "open"}
  /\ pc = "off" <=> window = "off"
  /\ \A i \in DOMAIN queue : queue[i].kind \in {"prompt", "open", "new"}
  /\ pc \in {"switching", "entering"} => queue # <<>>
  /\ deletedOpen \subseteq deleted /\ deleted \subseteq Given
  /\ {lastOpen, restored} \subseteq Given \cup {NoChat}

(* Being killed costs at most the turn in flight: what the worker has in   *)
(* memory is on the disk, but for the turn that is running or was not      *)
(* saved yet (worker.rs:25-27, 144-146), as long as the disk takes what is *)
(* written.  "In flight" lasts until a summary that may follow the turn's  *)
(* end is made: its end is on the screen before it is safe.                *)
AtMostTheTurnInFlight ==
  Alive /\ ~failed /\ ~readopted /\ session.turns # <<>> /\ session.id \notin deleted =>
    \/ session.id \in Stored /\ Loaded(session.id) = session
    \/ /\ pc = "turn"
       /\ LET before == SubSeq(session.turns, 1, Len(session.turns) - 1) IN
            IF session.id \in Stored THEN TurnsOf(session.id) = before
                                     ELSE before = <<>>

OneChatPerPrompt ==
  /\ \A c \in Stored : IsInjective(TurnsOf(c))
  /\ \A c, d \in Stored :
       c # d => Range(TurnsOf(c)) \cap Range(TurnsOf(d)) = {}

(* "A prompt sent just before switching chats must not arrive after the    *)
(* switch and land in the wrong transcript" (chat.rs:267-270 of mc-core):  *)
(* a prompt is answered in the chat of the last press before it, or in the *)
(* one the app was launched with, however many switches and prompts wait;  *)
(* and none is in two chats or twice in one, whatever is saved, deleted or *)
(* lost after that.                                                        *)
PromptsLandWhereAimed ==
  /\ []OneChatPerPrompt
  /\ [][ pc = "idle" /\ pc' = "turn" =>
           \E i \in DOMAIN queue :
             /\ queue[i].kind = "prompt" /\ queue[i].press = entered
             /\ session' = [session EXCEPT !.turns = Append(@, queue[i].what)] ]_vars

(* After a restart the chat that was last opened is the one on screen, not *)
(* the one that was last left (worker.rs:92-97): no file is newer than its *)
(* own, and only one written within the same tick of the clock is as new.  *)
ReopensTheLast ==
  [][ pc = "booting" /\ pc' = "idle" /\ lastOpen \in Stored /\ ~failed /\ ~readopted =>
        files[session'.id].at = files[lastOpen].at ]_vars

(* A deleted chat is gone for good, unless it was the one the worker had   *)
(* open: nothing the worker does afterwards brings it back                 *)
(* (library.rs:112-118).                                                   *)
OnlyTheOpenChatComesBack == ~readopted => deleted \cap Stored \subseteq deletedOpen

(* No step but a press of Delete loses a chat, and no write takes a prompt *)
(* out of one but for those its summary stands for: not the adoption of an *)
(* older version's file, wherever the app is killed in it, nor a switch, a *)
(* compaction, a failed write or a restart (library.rs:57-72, store.rs,    *)
(* session.rs:197-202).                                                    *)
Kept(c) == c \in Stored \/ c = legacy \/ c \in deleted

NothingIsForgotten ==
  [][ /\ \A c \in 1 .. used : Kept(c) => Kept(c)'
      /\ ~readopted' => \A c \in Stored \ deleted' :
           /\ IsPrefix(TurnsOf(c), TurnsOf(c)')
           /\ files[c].covered <= files'[c].covered ]_vars

(* Until another chat is opened, what the window restored on the screen is *)
(* the conversation the worker resumed, so that the next prompt goes where *)
(* it seems to (desktop's main.rs:50-51, android's lib.rs:58).  Not so if  *)
(* two chats tie for the latest, or if the worker, whose thread is started *)
(* first, looked before the chat of an older version was adopted.          *)
ResumesWhatIsShown ==
  Alive /\ ~unclear /\ ~readopted /\ restored \notin deleted \cup {NoChat} =>
    session.id = restored \/ pc = "entering"

(* What a user sends to an app that keeps running is served.               *)
EveryCommandServed == (queue # <<>>) ~> (queue = <<>> \/ pc = "off")

(* library.rs:12: one that was deleted never is listed.                    *)
DeletedIsGone == deleted \cap Stored = {}

=============================================================================
