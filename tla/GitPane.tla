------------------------------- MODULE GitPane -------------------------------
(***************************************************************************)
(* The Git pane: its worker thread, what it draws and asks                 *)
(* (crates/mc-ui/src/git.rs), the slots through which native dialogs       *)
(* answer (crates/mc-ui/src/prompt.rs), the token in memory                *)
(* (crates/mc-github/src/token.rs) and its sealed copy, which the Android  *)
(* shell writes, hands over at launch and deletes (MainActivity.kt).       *)
(*                                                                         *)
(* An account is known by its token.  A repository and the project it is   *)
(* cloned into are one number, in the order of the listing.  Only the      *)
(* requests about the account are awaited: between the start and the end   *)
(* of any other command nobody changes what it uses, so it is one step.    *)
(* Messages, the repository list and git itself are left out, and so is a  *)
(* second intent, which hands the token over again.                        *)
(***************************************************************************)
EXTENDS Integers, Sequences, FiniteSetsExt

CONSTANTS
  Token,         \* what GitHub may know
  None,          \* no token, no project
  MaxProjects,   \* bound: projects on the device
  MaxPresses,    \* bound: presses of a button of the pane
  MaxKills       \* bound: kills of the app

Project == 1 .. MaxProjects
Asked   == {"token", "repository", "message"}
Typed   == Token \cup {"word"}

ASSUME GitPaneAssumption ==
  /\ None \notin Token
  /\ None \notin [kind : Asked, what : Typed]
  /\ {MaxProjects, MaxPresses, MaxKills} \subseteq Nat

VARIABLES
  sealed,    \* the token on the disk, which only the shell writes
  handover,  \* applyIntent: "loading", "sending", "done"
  token,     \* mc_github::token
  forget,    \* FORGET
  queue,     \* commands sent and not yet received
  worker,    \* "off", "idle", or the command whose account is being asked for
  using,     \* the token of that request
  pane,      \* the worker's GitState, published when it is idle
  seen,      \* the copy the pane draws
  asking,    \* what the pane waits for
  pending,   \* PENDING
  dialog,    \* the native dialog that is open
  answer,    \* ANSWER
  dirs,      \* the repositories on the device
  presses, kills

(* Observed, never read by a guard.                                        *)
VARIABLES
  check,     \* the last token an account was asked for with, and if answered
  raced,     \* a sealed token was overtaken, see Drop and Confirm
  aim,       \* the project Commit was pressed on, until something selects
  commit     \* the last commit: where it was aimed at and where it went

launch == <<sealed, handover>>
dialogs == <<asking, pending, dialog, answer>>
bounds == <<presses, kills>>
vars   == <<launch, token, forget, queue, worker, using, pane, seen, dialogs, dirs,
            bounds, check, raced, aim, commit>>

Ask(kind, what) == [kind |-> kind, what |-> what]
Default == [login |-> None, selected |-> None, listed |-> {}]
Command(op, arg) == [op |-> op, arg |-> arg]
Selects == {"Select", "Clone", "Create"}

States == [login : Token \cup {None}, selected : Project \cup {None}, listed : SUBSET Project]
Commands ==
  [op : {"SignIn", "Create", "Commit"}, arg : Typed]
    \cup [op : {"Clone", "Select"}, arg : Project]
    \cup [op : {"Refresh", "SignOut", "Transfer"}, arg : {None}]

(* The memory of a process that has just begun.                            *)
Fresh ==
  /\ handover' = "loading"
  /\ token' = None /\ forget' = FALSE
  /\ queue' = <<>> /\ worker' = "off" /\ using' = None
  /\ pane' = Default /\ seen' = Default
  /\ asking' = None /\ pending' = None /\ dialog' = None
  /\ answer' = None
  /\ check' = [of |-> None, answered |-> TRUE]
  /\ raced' = FALSE /\ aim' = None

Init ==
  /\ sealed \in Token \cup {None}
  /\ handover = "loading"
  /\ token = None /\ forget = FALSE
  /\ queue = <<>> /\ worker = "off" /\ using = None
  /\ pane = Default /\ seen = Default
  /\ asking = None /\ pending = None /\ dialog = None
  /\ answer = None
  /\ dirs \in SUBSET Project
  /\ presses = 0 /\ kills = 0
  /\ check = [of |-> None, answered |-> TRUE]
  /\ raced = FALSE /\ aim = None
  /\ commit = [aim |-> None, dir |-> None]

Kill ==
  /\ kills < MaxKills
  /\ kills' = kills + 1
  /\ Fresh
  /\ UNCHANGED <<sealed, dirs, presses, commit>>

-----------------------------------------------------------------------------
(***************************************************************************)
(* The launch: the shell hands the token over, the window starts the       *)
(* worker, in any order.                                                   *)
(***************************************************************************)
TokenHandedOver ==
  /\ handover = "loading"
  /\ IF sealed = None
     THEN handover' = "done" /\ UNCHANGED token
     ELSE handover' = "sending" /\ token' = sealed
  /\ UNCHANGED <<sealed, forget, queue, worker, using, pane, seen, dialogs, dirs, bounds,
                 check, raced, aim, commit>>

(* Mutant: the worker is left to find the token by itself.                 *)
RefreshNotSent ==
  /\ handover = "sending"
  /\ handover' = "done"
  /\ UNCHANGED <<sealed, token, forget, queue, worker, using, pane, seen, dialogs, dirs,
                 bounds, check, raced, aim, commit>>

(* What is sent to a worker that is not there yet is lost.                 *)
RefreshSent ==
  /\ handover = "sending"
  /\ handover' = "done"
  /\ queue' = IF worker = "off" THEN queue ELSE Append(queue, Command("Refresh", None))
  /\ UNCHANGED <<sealed, token, forget, worker, using, pane, seen, dialogs, dirs, bounds,
                 check, raced, aim, commit>>

(* The first command is a refresh.                                         *)
Start ==
  /\ worker = "off"
  /\ worker' = "idle"
  /\ queue' = <<Command("Refresh", None)>>
  /\ UNCHANGED <<launch, token, forget, using, pane, seen, dialogs, dirs, bounds, check,
                 raced, aim, commit>>

-----------------------------------------------------------------------------
(***************************************************************************)
(* The worker.                                                             *)
(***************************************************************************)
(* Mutant: every listing goes back to the first project.                   *)
ReadProjectsAnew(state, there) ==
  \/ pane' = [state EXCEPT !.listed = {}] /\ UNCHANGED aim
  \/ pane' = [state EXCEPT !.listed = {}, !.selected = None] /\ aim' = None
  \/ /\ pane' = [state EXCEPT !.listed = there,
                              !.selected = IF there = {} THEN None ELSE Min(there)]
     /\ UNCHANGED aim

(* load_projects: there is no sandbox, the listing fails, or it is read.   *)
ReadProjects(state, there) ==
  \/ pane' = [state EXCEPT !.listed = {}] /\ UNCHANGED aim
  \/ pane' = [state EXCEPT !.listed = {}, !.selected = None] /\ aim' = None
  \/ /\ pane' = [state EXCEPT !.listed = there,
                              !.selected = IF @ \in there THEN @
                                           ELSE IF there = {} THEN None ELSE Min(there)]
     /\ UNCHANGED aim

Serves(op) ==
  /\ worker = "idle" /\ queue # <<>> /\ Head(queue).op = op
  /\ queue' = Tail(queue)

AsksAccount(op, key) ==
  /\ worker' = op
  /\ using' = key

SignIn ==
  /\ Serves("SignIn")
  /\ token' = Head(queue).arg
  /\ AsksAccount("SignIn", token')
  /\ UNCHANGED <<launch, forget, pane, seen, dialogs, dirs, bounds, check, raced, aim,
                 commit>>

(* A token that was typed, and sealed, has not come to its turn yet.       *)
TypedWaits ==
  \/ answer # None /\ answer.kind = "token"
  \/ \E i \in DOMAIN queue : queue[i].op = "SignIn"

(* token::clear, and the shell is asked to delete its copy.                *)
Drop ==
  /\ token' = None
  /\ forget' = TRUE
  /\ raced' = (raced \/ TypedWaits)

SignOut ==
  /\ Serves("SignOut")
  /\ Drop
  /\ pane' = [pane EXCEPT !.login = None]
  /\ UNCHANGED <<launch, worker, using, seen, dialogs, dirs, bounds, check, aim, commit>>

Refresh ==
  /\ Serves("Refresh")
  /\ IF token = None
     THEN ReadProjects(pane, dirs) /\ UNCHANGED <<worker, using>>
     ELSE AsksAccount("Refresh", token) /\ UNCHANGED <<pane, aim>>
  /\ UNCHANGED <<launch, token, forget, seen, dialogs, dirs, bounds, check, raced, commit>>

(* Clone fails, or the clone is selected.                                  *)
Clone ==
  /\ Serves("Clone")
  /\ LET dir == Head(queue).arg IN
       \/ /\ dir \notin dirs
          /\ dirs' = dirs \cup {dir}
          /\ ReadProjects([pane EXCEPT !.selected = dir], dirs')
       \/ UNCHANGED <<pane, dirs, aim>>
  /\ UNCHANGED <<launch, token, forget, worker, using, seen, dialogs, bounds, check, raced,
                 commit>>

(* A repository is made and cloned, and the account read again.            *)
Create ==
  /\ Serves("Create")
  /\ \/ /\ token # None
        /\ \E dir \in Project \ dirs :
             /\ dirs' = dirs \cup {dir}
             /\ pane' = [pane EXCEPT !.selected = dir]
        /\ AsksAccount("Create", token)
     \/ UNCHANGED <<dirs, pane, worker, using>>
  /\ UNCHANGED <<launch, token, forget, seen, dialogs, bounds, check, raced, aim, commit>>

Select ==
  /\ Serves("Select")
  /\ ReadProjects([pane EXCEPT !.selected = Head(queue).arg], dirs)
  /\ UNCHANGED <<launch, token, forget, worker, using, seen, dialogs, dirs, bounds, check,
                 raced, commit>>

(* In the project selected by then, if there is one and git has nothing    *)
(* against it.                                                             *)
Commit ==
  /\ Serves("Commit")
  /\ \/ /\ pane.selected \in dirs
        /\ commit' = [aim |-> aim, dir |-> pane.selected]
        /\ ReadProjects(pane, dirs)
     \/ UNCHANGED <<pane, aim, commit>>
  /\ UNCHANGED <<launch, token, forget, worker, using, seen, dialogs, dirs, bounds, check,
                 raced>>

(* Push and Pull.                                                          *)
Transfer ==
  /\ Serves("Transfer")
  /\ \/ pane.selected \in dirs /\ ReadProjects(pane, dirs)
     \/ UNCHANGED <<pane, aim>>
  /\ UNCHANGED <<launch, token, forget, worker, using, seen, dialogs, dirs, bounds, check,
                 raced, commit>>

AskingAccount == worker \notin {"off", "idle"}

(* load_account.                                                           *)
Accepted ==
  /\ AskingAccount
  /\ ReadProjects([pane EXCEPT !.login = using], dirs)
  /\ check' = [of |-> using, answered |-> TRUE]
  /\ worker' = "idle"
  /\ UNCHANGED <<launch, token, forget, queue, using, seen, dialogs, dirs, bounds, raced,
                 commit>>

(* Mutant: the shell is not told that the token is no good.                *)
RefusedUntold ==
  /\ AskingAccount
  /\ token' = None
  /\ pane' = [pane EXCEPT !.login = None]
  /\ check' = [of |-> using, answered |-> TRUE]
  /\ worker' = "idle"
  /\ UNCHANGED <<launch, forget, queue, using, seen, dialogs, dirs, bounds, raced, aim,
                 commit>>

(* 401 or 403.  The projects are not read.                                 *)
Refused ==
  /\ AskingAccount
  /\ Drop
  /\ pane' = [pane EXCEPT !.login = None]
  /\ check' = [of |-> using, answered |-> TRUE]
  /\ worker' = "idle"
  /\ UNCHANGED <<launch, queue, using, seen, dialogs, dirs, bounds, aim, commit>>

Unanswered ==
  /\ AskingAccount
  /\ check' = [of |-> using, answered |-> FALSE]
  /\ worker' = "idle"
  /\ UNCHANGED <<launch, token, forget, queue, using, pane, seen, dialogs, dirs, bounds,
                 raced, aim, commit>>

Worker ==
  \/ SignIn \/ SignOut \/ Refresh \/ Clone \/ Create \/ Select \/ Commit \/ Transfer
  \/ Accepted \/ Refused \/ Unanswered

-----------------------------------------------------------------------------
(***************************************************************************)
(* The pane and its user, who presses what is drawn and not under a dialog.*)
(***************************************************************************)
(* The worker publishes before and after a command, so what is published   *)
(* while it works is what was published before.                            *)
Look ==
  /\ worker = "idle" /\ seen # pane
  /\ seen' = pane
  /\ UNCHANGED <<launch, token, forget, queue, worker, using, pane, dialogs, dirs, bounds,
                 check, raced, aim, commit>>

Press ==
  /\ worker # "off" /\ dialog = None /\ presses < MaxPresses
  /\ presses' = presses + 1
  /\ UNCHANGED <<launch, token, forget, worker, using, pane, seen, dialog, answer, dirs,
                 kills, check, raced, commit>>

(* Nothing is on its way that selects another project than the one drawn.  *)
Steady ==
  /\ seen.selected = pane.selected
  /\ \A i \in DOMAIN queue : queue[i].op \notin Selects

PressQuestion(kind) ==
  /\ Press
  /\ CASE kind = "token"      -> seen.login = None
       [] kind = "repository" -> seen.login # None
       [] kind = "message"    -> seen.selected \in seen.listed
  /\ asking' = kind
  /\ pending' = kind
  /\ aim' = IF kind # "message" THEN aim
            ELSE IF Steady THEN seen.selected ELSE None
  /\ UNCHANGED queue

Sends(op, arg) ==
  /\ queue' = Append(queue, Command(op, arg))
  /\ aim' = IF op \in Selects THEN None ELSE aim

PressCommand ==
  /\ Press
  /\ \/ seen.login # None /\ \E op \in {"Refresh", "SignOut"} : Sends(op, None)
     \/ seen.login # None /\ \E dir \in Project \ seen.listed : Sends("Clone", dir)
     \/ \E dir \in seen.listed : Sends("Select", dir)
     \/ seen.selected \in seen.listed /\ Sends("Transfer", None)
  /\ UNCHANGED <<asking, pending>>

(* submit, after take_answer.                                              *)
CommandOf(kind, what) ==
  CASE kind = "token"      -> Command("SignIn", what)
    [] kind = "repository" -> Command("Create", what)
    [] kind = "message"    -> Command("Commit", what)

(* Mutant: whoever waits takes whatever was typed.                         *)
TakeAnyAnswer ==
  /\ asking # None /\ answer # None
  /\ LET c == CommandOf(asking, answer.what) IN Sends(c.op, c.arg)
  /\ asking' = None /\ answer' = None
  /\ UNCHANGED <<launch, token, forget, worker, using, pane, seen, pending, dialog, dirs,
                 bounds, check, raced, commit>>

TakeAnswer ==
  /\ asking # None /\ answer # None /\ answer.kind = asking
  /\ LET c == CommandOf(asking, answer.what) IN Sends(c.op, c.arg)
  /\ asking' = None /\ answer' = None
  /\ UNCHANGED <<launch, token, forget, worker, using, pane, seen, pending, dialog, dirs,
                 bounds, check, raced, commit>>

-----------------------------------------------------------------------------
(***************************************************************************)
(* The shell, on the Activity's thread.                                    *)
(***************************************************************************)
(* watchNativeRequests: first the dialog, then the token to be deleted.    *)
Poll ==
  /\ handover = "done"
  /\ pending # None \/ forget
  /\ dialog' = IF pending = None THEN dialog ELSE pending
  /\ pending' = None
  /\ sealed' = IF forget THEN None ELSE sealed
  /\ forget' = FALSE
  /\ UNCHANGED <<handover, token, queue, worker, using, pane, seen, asking, answer, dirs,
                 bounds, check, raced, aim, commit>>

(* openPrompt's OK and Cancel.                                             *)
Confirm ==
  /\ dialog # None
  /\ \E what \in Typed :
       /\ (dialog = "token") = (what \in Token)
       /\ answer' = Ask(dialog, what)
       /\ sealed' = IF dialog = "token" THEN what ELSE sealed
  /\ raced' = (\/ raced
               \/ dialog = "token" /\ forget
               \/ answer # None /\ answer.kind = "token")
  /\ dialog' = None
  /\ UNCHANGED <<handover, token, forget, queue, worker, using, pane, seen, asking, pending,
                 dirs, bounds, check, aim, commit>>

Cancel ==
  /\ dialog # None
  /\ dialog' = None
  /\ UNCHANGED <<launch, token, forget, queue, worker, using, pane, seen, asking, pending,
                 answer, dirs, bounds, check, raced, aim, commit>>

Next ==
  \/ TokenHandedOver \/ RefreshSent \/ Start \/ Kill
  \/ Worker
  \/ Look \/ PressCommand \/ (\E kind \in Asked : PressQuestion(kind)) \/ TakeAnswer
  \/ Poll \/ Confirm \/ Cancel

Spec == Init /\ [][Next]_vars

-----------------------------------------------------------------------------
(***************************************************************************)
(* Properties.                                                             *)
(***************************************************************************)
(* What every variable may hold: a token, a project or none of either, and *)
(* a command carries what its button or its dialog gave it.                *)
TypeOK ==
  /\ handover \in {"loading", "sending", "done"}
  /\ {sealed, token, using} \subseteq Token \cup {None}
  /\ worker \in {"off", "idle", "SignIn", "Refresh", "Create"}
  /\ queue \in Seq(Commands)
  /\ {pane, seen} \subseteq States
  /\ {asking, pending, dialog} \subseteq Asked \cup {None}
  /\ answer \in [kind : Asked, what : Typed] \cup {None}
  /\ dirs \subseteq Project
  /\ check \in [of : Token \cup {None}, answered : BOOLEAN]
  /\ commit \in [aim : Project \cup {None}, dir : Project \cup {None}]
  /\ aim \in Project \cup {None}
  /\ forget \in BOOLEAN /\ raced \in BOOLEAN
  /\ presses \in 0 .. MaxPresses /\ kills \in 0 .. MaxKills

AtRest ==
  /\ handover = "done" /\ worker = "idle" /\ queue = <<>> /\ ~forget
  /\ answer = None

(* Whichever of the shell and the worker is second tells the other         *)
(* (git.rs:117-123), and no rejected or replaced token lives on: at rest   *)
(* the token that is held was tried, and if GitHub answered, the account   *)
(* on screen is its own.                                                   *)
AccountAgrees ==
  AtRest =>
    /\ token # None => check.of = token
    /\ token = None => pane.login = None
    /\ check.answered => pane.login = token

(* At rest the token on the disk is the one in memory (git.rs:184-190,     *)
(* 293-300): what was typed survives, what was refused or signed out of    *)
(* does not.  Unless it was overtaken: the token before it was dropped when*)
(* it was on the disk and had not come to its turn, or the next answer     *)
(* took its place.                                                         *)
SealedAgrees == AtRest /\ ~raced => sealed = token

(* A commit goes to the project its button was drawn on, whatever was      *)
(* queued, refused or listed before it (git.rs:241-249): if nothing that   *)
(* selects a project was under way, and the listing was not lost.          *)
CommitsWhereAimed == commit.aim # None => commit.dir = commit.aim

(* A token is never taken for a message or a name, nor the other way round,*)
(* however answers cross questions (prompt.rs:85-95): git's history and    *)
(* GitHub's repositories are no place for a secret.                        *)
SecretsStayApart ==
  \A i \in DOMAIN queue :
    queue[i].op \in {"SignIn", "Create", "Commit"} =>
      (queue[i].op = "SignIn") = (queue[i].arg \in Token)
=============================================================================
