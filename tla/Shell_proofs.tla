----------------------------- MODULE Shell_proofs -----------------------------
(***************************************************************************)
(* What the two components of the Android shell's Activity guarantee:      *)
(* GitPane for any tokens and projects, however often something is pressed *)
(* and the app is killed, and KeepAlive, the second part, for any number   *)
(* of turns, jobs and choices.                                             *)
(*                                                                         *)
(* The properties of GitPane speak of the pane at rest, or of one command. *)
(* Between two rests commands wait in the queue, a request is under way    *)
(* and a typed token is on the disk before it is in memory; the invariant  *)
(* says what each of those still owes.                                     *)
(***************************************************************************)
EXTENDS GitPane, KeepAlive, SequenceTheorems, WellFoundedInduction, TLAPS

Op == {"Refresh", "SignIn", "SignOut", "Clone", "Create", "Select", "Commit", "Transfer"}

(* The commands there can be: a sign-in has a token and what was typed for *)
(* something else is none.                                                 *)
Order ==
  {c \in [op : Op, arg : Project \cup Typed \cup {None}] :
     /\ c.op = "SignIn" => c.arg \in Token
     /\ c.op \in {"Clone", "Select"} => c.arg \in Project
     /\ c.op \in {"Create", "Commit"} => c.arg \notin Token}

Answer ==
  {a \in [kind : Asked, what : Typed] : a.kind = "token" <=> a.what \in Token}

(* A state of the pane lists repositories that are there.                  *)
Shows(state) ==
  /\ state = [login |-> state.login, selected |-> state.selected, listed |-> state.listed]
  /\ state.listed \subseteq dirs

Shapes ==
  /\ dirs \subseteq Project
  /\ Shows(pane) /\ Shows(seen)
  /\ queue \in Seq(Order)
  /\ sealed \in Token \cup {None} /\ token \in Token \cup {None}
  /\ {asking, pending, dialog} \subseteq Asked \cup {None}
  /\ answer # None => answer \in Answer

Waits(op) == \E i \in DOMAIN queue : queue[i].op = op

(* A project is aimed at as long as it is the one selected and no command  *)
(* waits that selects another.                                             *)
Aimed ==
  aim # None =>
    /\ aim \in dirs
    /\ pane.selected = aim
    /\ ~Waits("Select") /\ ~Waits("Clone") /\ ~Waits("Create")

(* Somebody still has to ask for the account.                              *)
Owed == handover = "sending" \/ worker = "off" \/ Waits("Refresh") \/ Waits("SignIn")

Account ==
  /\ AskingAccount => token # None /\ (using = token \/ Owed)
  /\ token = None => pane.login = None
  /\ ~Owed /\ ~AskingAccount =>
       /\ token # None => check.of = token
       /\ check.answered => pane.login = token

(* Until the token was handed over no other one has been typed.            *)
Launching ==
  handover # "done" => dialog = None /\ answer = None /\ ~Waits("SignIn")

(* Nothing is sent or asked before the window starts the worker.           *)
Asleep == worker = "off" => queue = <<>> /\ asking = None

(* Nobody has been signed in before it was looked for.                     *)
Loading ==
  handover = "loading" =>
    /\ token = None /\ ~forget /\ ~AskingAccount
    /\ seen.login = None /\ ~Waits("SignOut")

TypedToken == answer # None /\ answer.kind = "token"

(* The last sign-in that waits, if any does, is one with this token.       *)
Newest(key) ==
  \A i \in DOMAIN queue :
    /\ queue[i].op = "SignIn"
    /\ \A j \in DOMAIN queue : j > i => queue[j].op # "SignIn"
    => queue[i].arg = key

(* What is on the disk is what was typed last, or else what is held, or    *)
(* else about to be deleted.                                               *)
Sealing ==
  handover # "loading" /\ ~raced =>
    /\ TypedToken => sealed = answer.what
    /\ ~TypedToken => Newest(sealed)
    /\ ~TypedToken /\ ~Waits("SignIn") /\ ~forget => sealed = token
    /\ forget => token = None /\ ~TypedToken /\ ~Waits("SignIn")

IInv ==
  /\ Shapes /\ Aimed /\ CommitsWhereAimed
  /\ Account /\ Asleep /\ Launching /\ Loading /\ Sealing

-----------------------------------------------------------------------------
(***************************************************************************)
(* What serving a command and sending one do to the queue.                 *)
(***************************************************************************)
LEMMA Served ==
  ASSUME queue \in Seq(Order), NEW op, Serves(op)
  PROVE  /\ Head(queue) \in Order /\ Head(queue).op = op
         /\ queue' \in Seq(Order)
         /\ \A o : Waits(o) <=> o = op \/ Waits(o)'
         /\ \A key : Newest(key) => Newest(key)'
         /\ \A key : op = "SignIn" /\ ~Waits("SignIn")' /\ Newest(key) => key = Head(queue).arg
<1>1. queue # <<>> /\ queue' = Tail(queue) /\ Head(queue).op = op
  BY DEF Serves
<1>2. Len(queue) \in Nat /\ Len(queue) >= 1 /\ DOMAIN queue = 1 .. Len(queue)
  BY <1>1
<1>3. DOMAIN queue' = 1 .. Len(queue) - 1 /\ \A i \in DOMAIN queue' : queue'[i] = queue[i + 1]
  BY <1>1, <1>2
<1>4. Head(queue) = queue[1] /\ Head(queue) \in Order
  BY <1>1, <1>2
<1>5. queue' \in Seq(Order)
  BY <1>1
<1>6. ASSUME NEW o PROVE Waits(o) <=> o = op \/ Waits(o)'
  <2>1. ASSUME Waits(o), o # op PROVE Waits(o)'
    <3>1. PICK i \in DOMAIN queue : queue[i].op = o
      BY <2>1 DEF Waits
    <3>2. i # 1
      BY <1>1, <1>4, <2>1, <3>1
    <3>3. i - 1 \in DOMAIN queue' /\ queue'[i - 1] = queue[i]
      BY <1>2, <1>3, <3>1, <3>2
    <3>4. QED
      BY <3>1, <3>3 DEF Waits
  <2>2. ASSUME Waits(o)' PROVE Waits(o)
    <3>1. PICK i \in DOMAIN queue' : queue'[i].op = o
      BY <2>2 DEF Waits
    <3>2. i + 1 \in DOMAIN queue /\ queue[i + 1].op = o
      BY <1>2, <1>3, <3>1
    <3>3. QED
      BY <3>2 DEF Waits
  <2>3. Waits(op)
    BY <1>1, <1>2, <1>4 DEF Waits
  <2>4. QED
    BY <2>1, <2>2, <2>3
<1>7. ASSUME NEW key, Newest(key) PROVE Newest(key)'
  <2>. SUFFICES ASSUME NEW i \in DOMAIN queue', queue'[i].op = "SignIn",
                       \A j \in DOMAIN queue' : j > i => queue'[j].op # "SignIn"
                PROVE  queue'[i].arg = key
    BY DEF Newest
  <2>1. i + 1 \in DOMAIN queue /\ queue'[i] = queue[i + 1]
    BY <1>2, <1>3
  <2>2. ASSUME NEW j \in DOMAIN queue, j > i + 1 PROVE queue[j].op # "SignIn"
    <3>1. j - 1 \in DOMAIN queue' /\ queue'[j - 1] = queue[j] /\ j - 1 > i
      BY <1>2, <1>3, <2>2
    <3>2. QED
      BY <3>1
  <2>3. QED
    BY <1>7, <2>1, <2>2 DEF Newest
<1>8. ASSUME NEW key, op = "SignIn", ~Waits("SignIn")', Newest(key)
      PROVE  key = Head(queue).arg
  <2>1. ASSUME NEW j \in DOMAIN queue, j > 1 PROVE queue[j].op # "SignIn"
    <3>1. j - 1 \in DOMAIN queue' /\ queue'[j - 1] = queue[j]
      BY <1>2, <1>3, <2>1
    <3>2. QED
      BY <1>8, <3>1 DEF Waits
  <2>2. QED
    BY <1>1, <1>2, <1>4, <1>8, <2>1 DEF Newest
<1>9. QED
  BY <1>1, <1>4, <1>5, <1>6, <1>7, <1>8

LEMMA Sent ==
  ASSUME queue \in Seq(Order), NEW c \in Order, queue' = Append(queue, c)
  PROVE  /\ queue' \in Seq(Order)
         /\ \A o : Waits(o)' <=> o = c.op \/ Waits(o)
         /\ \A key : c.op # "SignIn" /\ Newest(key) => Newest(key)'
         /\ c.op = "SignIn" => Newest(c.arg)'
<1>1. Len(queue) \in Nat /\ DOMAIN queue = 1 .. Len(queue)
  OBVIOUS
<1>2. /\ DOMAIN queue' = 1 .. Len(queue) + 1
      /\ queue'[Len(queue) + 1] = c
      /\ \A i \in DOMAIN queue : queue'[i] = queue[i]
  OBVIOUS
<1>3. ASSUME NEW o PROVE Waits(o)' <=> o = c.op \/ Waits(o)
  BY <1>1, <1>2 DEF Waits
<1>4. ASSUME NEW key, c.op # "SignIn", Newest(key) PROVE Newest(key)'
  BY <1>1, <1>2, <1>4 DEF Newest
<1>5. ASSUME c.op = "SignIn" PROVE Newest(c.arg)'
  BY <1>1, <1>2, <1>5 DEF Newest
<1>6. QED
  BY <1>3, <1>4, <1>5

(* Reading the projects keeps the account, and the selection while there   *)
(* is an aim and the project is there.                                     *)
LEMMA Read ==
  ASSUME NEW state, NEW there, ReadProjects(state, there), there \subseteq dirs',
         state = [login |-> state.login, selected |-> state.selected, listed |-> state.listed]
  PROVE  /\ Shows(pane)'
         /\ pane'.login = state.login
         /\ aim' = aim \/ aim' = None
         /\ aim' # None /\ state.selected \in there => pane'.selected = state.selected
<1>1. CASE pane' = [state EXCEPT !.listed = {}] /\ UNCHANGED aim
  BY <1>1 DEF Shows
<1>2. CASE pane' = [state EXCEPT !.listed = {}, !.selected = None] /\ aim' = None
  BY <1>2 DEF Shows
<1>3. CASE /\ pane' = [state EXCEPT !.listed = there,
                              !.selected = IF @ \in there THEN @
                                           ELSE IF there = {} THEN None ELSE Min(there)]
           /\ UNCHANGED aim
  BY <1>3 DEF Shows
<1>4. QED
  BY <1>1, <1>2, <1>3 DEF ReadProjects

(* A press that sends sends one command, and never a token.                *)
LEMMA PressSent ==
  ASSUME Shapes, PressCommand
  PROVE  \E c \in Order :
           /\ queue' = Append(queue, c)
           /\ aim' = IF c.op \in Selects THEN None ELSE aim
           /\ c.op # "SignIn"
           /\ c.op = "SignOut" => seen.login # None
<1>1. ASSUME NEW op \in Op \ {"SignIn"}, NEW arg, Sends(op, arg), Command(op, arg) \in Order,
             op = "SignOut" => seen.login # None
      PROVE  \E c \in Order :
               /\ queue' = Append(queue, c)
               /\ aim' = IF c.op \in Selects THEN None ELSE aim
               /\ c.op # "SignIn"
               /\ c.op = "SignOut" => seen.login # None
  <2>1. Command(op, arg).op = op
    BY DEF Command
  <2>2. WITNESS Command(op, arg) \in Order
  <2>3. QED
    BY <1>1, <2>1 DEF Sends
<1>2. ASSUME NEW op \in {"Refresh", "SignOut"}, Sends(op, None) PROVE Command(op, None) \in Order
  BY <1>2 DEF Command, Order, Op
<1>3. ASSUME NEW dir \in Project, NEW op \in {"Clone", "Select"} PROVE Command(op, dir) \in Order
  BY DEF Command, Order, Op
<1>4. Command("Transfer", None) \in Order
  BY DEF Command, Order, Op
<1>5. seen.listed \subseteq Project
  BY DEF Shapes, Shows
<1>6. \/ seen.login # None /\ \E op \in {"Refresh", "SignOut"} : Sends(op, None)
      \/ \E dir \in Project : Sends("Clone", dir)
      \/ \E dir \in seen.listed : Sends("Select", dir)
      \/ Sends("Transfer", None)
  BY DEF PressCommand
<1>7. CASE seen.login # None /\ \E op \in {"Refresh", "SignOut"} : Sends(op, None)
  BY <1>1, <1>2, <1>7 DEF Op
<1>8. CASE \E dir \in Project : Sends("Clone", dir)
  BY <1>1, <1>3, <1>8 DEF Op
<1>9. CASE \E dir \in seen.listed : Sends("Select", dir)
  BY <1>1, <1>3, <1>5, <1>9 DEF Op
<1>10. CASE Sends("Transfer", None)
  BY <1>1, <1>4, <1>10 DEF Op
<1>11. QED
  BY <1>6, <1>7, <1>8, <1>9, <1>10

(* An answer becomes the command it was asked for.                         *)
LEMMA AnswerSent ==
  ASSUME Shapes, TakeAnswer
  PROVE  \E c \in Order :
           /\ queue' = Append(queue, c)
           /\ aim' = IF c.op \in Selects THEN None ELSE aim
           /\ c.op = "SignIn" <=> TypedToken
           /\ c.op = "SignIn" => c.arg = answer.what
           /\ c.op \notin {"Refresh", "SignOut"}
<1>. DEFINE c == CommandOf(asking, answer.what)
<1>1. answer \in Answer /\ answer.kind = asking
  BY DEF TakeAnswer, Shapes
<1>2. c \in Order
  BY <1>1 DEF CommandOf, Command, Order, Op, Answer, Asked, Typed
<1>3. /\ c.op = "SignIn" <=> answer.kind = "token"
      /\ c.op = "SignIn" => c.arg = answer.what
      /\ c.op \notin {"Refresh", "SignOut"}
  BY <1>1 DEF CommandOf, Command, Answer, Asked
<1>4. c = Command(c.op, c.arg)
  BY <1>1 DEF CommandOf, Command, Answer, Asked
<1>5. queue' = Append(queue, c) /\ aim' = IF c.op \in Selects THEN None ELSE aim
  BY <1>4 DEF TakeAnswer, Sends
<1>6. QED
  BY <1>2, <1>3, <1>5 DEF TypedToken, TakeAnswer

-----------------------------------------------------------------------------
(***************************************************************************)
(* The types, and with them that secrets stay apart.                       *)
(***************************************************************************)
LEMMA ShapesOn == IInv /\ [Next]_vars => Shapes'
<1>. SUFFICES ASSUME IInv, [Next]_vars PROVE Shapes'
  OBVIOUS
<1>. USE GitPaneAssumption DEF IInv, Shapes, launch, dialogs, bounds
<1>1. CASE TokenHandedOver
  BY <1>1 DEF TokenHandedOver, Shows
<1>2. CASE RefreshSent
  <2>1. Command("Refresh", None) \in Order
    BY DEF Command, Order, Op
  <2>2. queue' \in Seq(Order)
    BY <1>2, <2>1 DEF RefreshSent
  <2>3. QED
    BY <1>2, <2>2 DEF RefreshSent, Shows
<1>3. CASE Start
  <2>1. Command("Refresh", None) \in Order
    BY DEF Command, Order, Op
  <2>2. queue' \in Seq(Order)
    BY <1>3, <2>1 DEF Start
  <2>3. QED
    BY <1>3, <2>2 DEF Start, Shows
<1>4. CASE Kill
  BY <1>4 DEF Kill, Fresh, Default, Shows
<1>5. CASE SignIn
  <2>1. queue' \in Seq(Order) /\ Head(queue) \in Order /\ Head(queue).op = "SignIn"
    BY <1>5, Served DEF SignIn
  <2>2. token' \in Token
    BY <1>5, <2>1 DEF SignIn, Order
  <2>3. QED
    BY <1>5, <2>1, <2>2 DEF SignIn, Shows
<1>6. CASE SignOut
  <2>1. queue' \in Seq(Order)
    BY <1>6, Served DEF SignOut
  <2>2. Shows(pane)'
    BY <1>6 DEF SignOut, Shows
  <2>3. QED
    BY <1>6, <2>1, <2>2 DEF SignOut, Drop, Shows
<1>7. CASE Refresh
  <2>1. queue' \in Seq(Order)
    BY <1>7, Served DEF Refresh
  <2>2. Shows(pane)'
    <3>1. CASE token = None
      BY <1>7, <3>1, Read DEF Refresh, Shows
    <3>2. CASE token # None
      BY <1>7, <3>2 DEF Refresh, Shows
    <3>3. QED
      BY <3>1, <3>2
  <2>3. QED
    BY <1>7, <2>1, <2>2 DEF Refresh, Shows
<1>8. CASE Clone
  <2>1. queue' \in Seq(Order)
    BY <1>8, Served DEF Clone
  <2>2. CASE /\ Head(queue).arg \notin dirs
             /\ dirs' = dirs \cup {Head(queue).arg}
             /\ ReadProjects([pane EXCEPT !.selected = Head(queue).arg], dirs')
    <3>1. Shows(pane)'
      BY <2>2, Read DEF Shows
    <3>2. dirs' \subseteq Project
      BY <1>8, <2>2, Served DEF Clone, Order
    <3>3. QED
      BY <1>8, <2>1, <2>2, <3>1, <3>2 DEF Clone, Shows
  <2>3. CASE UNCHANGED <<pane, dirs, aim>>
    BY <1>8, <2>1, <2>3 DEF Clone, Shows
  <2>4. QED
    BY <1>8, <2>2, <2>3 DEF Clone
<1>9. CASE Create
  <2>1. queue' \in Seq(Order)
    BY <1>9, Served DEF Create
  <2>2. dirs \subseteq dirs' /\ dirs' \subseteq Project /\ Shows(pane)'
    BY <1>9 DEF Create, Shows
  <2>3. QED
    BY <1>9, <2>1, <2>2 DEF Create, Shows
<1>10. CASE Select
  <2>1. queue' \in Seq(Order)
    BY <1>10, Served DEF Select
  <2>2. Shows(pane)'
    BY <1>10, Read DEF Select, Shows
  <2>3. QED
    BY <1>10, <2>1, <2>2 DEF Select, Shows
<1>11. CASE Commit
  <2>1. queue' \in Seq(Order)
    BY <1>11, Served DEF Commit
  <2>2. Shows(pane)'
    BY <1>11, Read DEF Commit, Shows
  <2>3. QED
    BY <1>11, <2>1, <2>2 DEF Commit, Shows
<1>12. CASE Transfer
  <2>1. queue' \in Seq(Order)
    BY <1>12, Served DEF Transfer
  <2>2. Shows(pane)'
    BY <1>12, Read DEF Transfer, Shows
  <2>3. QED
    BY <1>12, <2>1, <2>2 DEF Transfer, Shows
<1>13. CASE Accepted
  <2>1. Shows(pane)'
    BY <1>13, Read DEF Accepted, Shows
  <2>2. QED
    BY <1>13, <2>1 DEF Accepted, Shows
<1>14. CASE Refused
  BY <1>14 DEF Refused, Drop, Shows
<1>15. CASE Unanswered
  BY <1>15 DEF Unanswered, Shows
<1>16. CASE Look
  BY <1>16 DEF Look, Shows
<1>17. CASE PressCommand
  <2>1. PICK c \in Order : queue' = Append(queue, c)
    BY <1>17, PressSent
  <2>2. queue' \in Seq(Order)
    BY <2>1
  <2>3. QED
    BY <1>17, <2>2 DEF PressCommand, Press, Shows
<1>18. ASSUME NEW kind \in Asked, PressQuestion(kind) PROVE Shapes'
  BY <1>18 DEF PressQuestion, Press, Shows
<1>19. CASE TakeAnswer
  <2>1. queue' \in Seq(Order)
    BY <1>19, AnswerSent
  <2>2. QED
    BY <1>19, <2>1 DEF TakeAnswer, Shows
<1>20. CASE Poll
  BY <1>20 DEF Poll, Shows
<1>21. CASE Confirm
  <2>1. answer' \in Answer /\ sealed' \in Token \cup {None}
    BY <1>21 DEF Confirm, Ask, Answer, Asked, Typed
  <2>2. QED
    BY <1>21, <2>1 DEF Confirm, Shows
<1>22. CASE Cancel
  BY <1>22 DEF Cancel, Shows
<1>23. CASE UNCHANGED vars
  BY <1>23 DEF vars, Shows
<1>24. QED
  BY <1>1, <1>2, <1>3, <1>4, <1>5, <1>6, <1>7, <1>8, <1>9, <1>10, <1>11, <1>12,
     <1>13, <1>14, <1>15, <1>16, <1>17, <1>18, <1>19, <1>20, <1>21, <1>22, <1>23
  DEF Next, Worker

-----------------------------------------------------------------------------
(***************************************************************************)
(* A commit goes where it was aimed.                                       *)
(***************************************************************************)
LEMMA AimedOn == IInv /\ [Next]_vars => Aimed' /\ CommitsWhereAimed'
<1>. SUFFICES ASSUME IInv, [Next]_vars PROVE Aimed' /\ CommitsWhereAimed'
  OBVIOUS
<1>. USE DEF IInv, Shapes, Aimed, CommitsWhereAimed, launch, dialogs, bounds
<1>1. CASE TokenHandedOver
  BY <1>1 DEF TokenHandedOver, Waits
<1>2. CASE RefreshSent
  <2>1. CASE worker = "off"
    BY <1>2, <2>1 DEF RefreshSent, Waits
  <2>2. CASE worker # "off"
    <3>1. Command("Refresh", None) \in Order /\ Command("Refresh", None).op = "Refresh"
      BY DEF Command, Order, Op
    <3>2. queue' = Append(queue, Command("Refresh", None))
      BY <1>2, <2>2 DEF RefreshSent
    <3>3. \A o : Waits(o)' <=> o = "Refresh" \/ Waits(o)
      BY <3>1, <3>2, Sent
    <3>4. QED
      BY <1>2, <3>3 DEF RefreshSent
  <2>3. QED
    BY <2>1, <2>2
<1>3. CASE Start
  BY <1>3 DEF Start, Waits, Command
<1>4. CASE Kill
  BY <1>4 DEF Kill, Fresh, Waits
<1>5. CASE SignIn
  <2>1. /\ ~Waits("Select") => ~Waits("Select")'
        /\ ~Waits("Clone") => ~Waits("Clone")'
        /\ ~Waits("Create") => ~Waits("Create")'
    BY <1>5, Served DEF SignIn
  <2>2. QED
    BY <1>5, <2>1 DEF SignIn
<1>6. CASE SignOut
  <2>1. /\ ~Waits("Select") => ~Waits("Select")'
        /\ ~Waits("Clone") => ~Waits("Clone")'
        /\ ~Waits("Create") => ~Waits("Create")'
    BY <1>6, Served DEF SignOut, Drop
  <2>2. pane'.selected = pane.selected
    BY <1>6 DEF SignOut, Drop, Shows
  <2>3. QED
    BY <1>6, <2>1, <2>2 DEF SignOut, Drop
<1>7. CASE Refresh
  <2>1. /\ ~Waits("Select") => ~Waits("Select")'
        /\ ~Waits("Clone") => ~Waits("Clone")'
        /\ ~Waits("Create") => ~Waits("Create")'
    BY <1>7, Served DEF Refresh
  <2>2. aim' # None => aim' = aim /\ pane'.selected = pane.selected
    BY <1>7, Read DEF Refresh, Shows
  <2>3. QED
    BY <1>7, <2>1, <2>2 DEF Refresh
<1>8. CASE Clone
  <2>1. Waits("Clone")
    BY <1>8, Served DEF Clone
  <2>2. aim' = None
    BY <1>8, <2>1 DEF Clone, ReadProjects
  <2>3. QED
    BY <1>8, <2>2 DEF Clone
<1>9. CASE Create
  <2>1. Waits("Create")
    BY <1>9, Served DEF Create
  <2>2. aim' = None
    BY <1>9, <2>1 DEF Create, ReadProjects
  <2>3. QED
    BY <1>9, <2>2 DEF Create
<1>10. CASE Select
  <2>1. Waits("Select")
    BY <1>10, Served DEF Select
  <2>2. aim' = None
    BY <1>10, <2>1 DEF Select, ReadProjects
  <2>3. QED
    BY <1>10, <2>2 DEF Select
<1>11. CASE Commit
  <2>1. /\ ~Waits("Select") => ~Waits("Select")'
        /\ ~Waits("Clone") => ~Waits("Clone")'
        /\ ~Waits("Create") => ~Waits("Create")'
    BY <1>11, Served DEF Commit
  <2>2. aim' # None => aim' = aim /\ pane'.selected = pane.selected
    BY <1>11, Read DEF Commit, Shows
  <2>3. QED
    BY <1>11, <2>1, <2>2 DEF Commit
<1>12. CASE Transfer
  <2>1. /\ ~Waits("Select") => ~Waits("Select")'
        /\ ~Waits("Clone") => ~Waits("Clone")'
        /\ ~Waits("Create") => ~Waits("Create")'
    BY <1>12, Served DEF Transfer
  <2>2. aim' # None => aim' = aim /\ pane'.selected = pane.selected
    BY <1>12, Read DEF Transfer, Shows
  <2>3. QED
    BY <1>12, <2>1, <2>2 DEF Transfer
<1>13. CASE Accepted
  <2>1. aim' # None => aim' = aim /\ pane'.selected = pane.selected
    BY <1>13, Read DEF Accepted, Shows
  <2>2. QED
    BY <1>13, <2>1 DEF Accepted, Waits
<1>14. CASE Refused
  BY <1>14 DEF Refused, Drop, Waits, Shows
<1>15. CASE Unanswered
  BY <1>15 DEF Unanswered, Waits
<1>16. CASE Look
  BY <1>16 DEF Look, Waits
<1>17. CASE PressCommand
  <2>1. PICK c \in Order : /\ queue' = Append(queue, c)
                           /\ aim' = IF c.op \in Selects THEN None ELSE aim
    BY <1>17, PressSent
  <2>2. \A o : Waits(o)' <=> o = c.op \/ Waits(o)
    BY <2>1, Sent
  <2>3. QED
    BY <1>17, <2>1, <2>2 DEF PressCommand, Press, Selects
<1>18. ASSUME NEW kind \in Asked, PressQuestion(kind) PROVE Aimed' /\ CommitsWhereAimed'
  <2>1. (Waits("Select")' <=> Waits("Select")) /\ (Waits("Clone")' <=> Waits("Clone"))
        /\ (Waits("Create")' <=> Waits("Create"))
    BY <1>18 DEF PressQuestion, Press, Waits
  <2>2. CASE aim' = aim
    BY <1>18, <2>1, <2>2 DEF PressQuestion, Press
  <2>3. CASE aim' = None
    BY <1>18, <2>1, <2>3 DEF PressQuestion, Press
  <2>4. CASE kind = "message" /\ Steady /\ aim' = seen.selected
    <3>1. seen.selected \in dirs /\ seen.selected = pane.selected
      BY <1>18, <2>4 DEF PressQuestion, Press, Steady, Shows
    <3>2. ~Waits("Select") /\ ~Waits("Clone") /\ ~Waits("Create")
      BY <2>4 DEF Steady, Waits, Selects
    <3>3. QED
      BY <1>18, <2>1, <2>4, <3>1, <3>2 DEF PressQuestion, Press
  <2>5. QED
    BY <1>18, <2>2, <2>3, <2>4 DEF PressQuestion, Press
<1>19. CASE TakeAnswer
  <2>1. PICK c \in Order : /\ queue' = Append(queue, c)
                           /\ aim' = IF c.op \in Selects THEN None ELSE aim
    BY <1>19, AnswerSent
  <2>2. \A o : Waits(o)' <=> o = c.op \/ Waits(o)
    BY <2>1, Sent
  <2>3. QED
    BY <1>19, <2>1, <2>2 DEF TakeAnswer, Selects
<1>20. CASE Poll
  BY <1>20 DEF Poll, Waits
<1>21. CASE Confirm
  BY <1>21 DEF Confirm, Waits
<1>22. CASE Cancel
  BY <1>22 DEF Cancel, Waits
<1>23. CASE UNCHANGED vars
  BY <1>23 DEF vars, Waits
<1>24. QED
  BY <1>1, <1>2, <1>3, <1>4, <1>5, <1>6, <1>7, <1>8, <1>9, <1>10, <1>11, <1>12,
     <1>13, <1>14, <1>15, <1>16, <1>17, <1>18, <1>19, <1>20, <1>21, <1>22, <1>23
  DEF Next, Worker

-----------------------------------------------------------------------------
(***************************************************************************)
(* The account on screen is that of the token that is held.                *)
(***************************************************************************)
LEMMA AccountOn == IInv /\ [Next]_vars => Account'
<1>. SUFFICES ASSUME IInv, [Next]_vars PROVE Account'
  OBVIOUS
<1>. USE GitPaneAssumption DEF IInv, Shapes, Account, Owed, AskingAccount, launch, dialogs, bounds
<1>1. CASE TokenHandedOver
  BY <1>1 DEF TokenHandedOver, Waits
<1>2. CASE RefreshSent
  <2>1. CASE worker = "off"
    BY <1>2, <2>1 DEF RefreshSent, Waits
  <2>2. CASE worker # "off"
    <3>1. Command("Refresh", None) \in Order /\ Command("Refresh", None).op = "Refresh"
      BY DEF Command, Order, Op
    <3>2. queue' = Append(queue, Command("Refresh", None))
      BY <1>2, <2>2 DEF RefreshSent
    <3>3. \A o : Waits(o)' <=> o = "Refresh" \/ Waits(o)
      BY <3>1, <3>2, Sent
    <3>9. QED
      BY <1>2, <2>2, <3>3 DEF RefreshSent
  <2>3. QED
    BY <2>1, <2>2
<1>3. CASE Start
  <2>1. Waits("Refresh")'
    BY <1>3 DEF Start, Waits, Command
  <2>2. QED
    BY <1>3, <2>1 DEF Start
<1>4. CASE Kill
  BY <1>4 DEF Kill, Fresh, Default
<1>5. CASE SignIn
  <2>1. token' \in Token /\ using' = token' /\ worker' = "SignIn"
    BY <1>5, Served DEF SignIn, Order, AsksAccount
  <2>2. QED
    BY <1>5, <2>1 DEF SignIn
<1>6. CASE SignOut
  <2>1. pane'.login = None /\ token' = None
    BY <1>6 DEF SignOut, Drop, Shows
  <2>2. worker' = "idle"
    BY <1>6 DEF SignOut, Drop, Serves
  <2>3. QED
    BY <2>1, <2>2
<1>7. CASE Refresh
  <2>1. CASE token = None
    <3>1. pane'.login = None /\ token' = None /\ worker' = "idle"
      BY <1>7, <2>1, Read DEF Refresh, Serves, Shows
    <3>2. QED
      BY <3>1
  <2>2. CASE token # None
    BY <1>7, <2>2 DEF Refresh, AsksAccount
  <2>3. QED
    BY <2>1, <2>2
<1>8. CASE Clone
  <2>1. (Waits("Refresh")' <=> Waits("Refresh")) /\ (Waits("SignIn")' <=> Waits("SignIn"))
    BY <1>8, Served DEF Clone
  <2>2. pane'.login = pane.login
    BY <1>8, Read DEF Clone, Shows
  <2>3. QED
    BY <1>8, <2>1, <2>2 DEF Clone, Serves
<1>9. CASE Create
  <2>1. (Waits("Refresh")' <=> Waits("Refresh")) /\ (Waits("SignIn")' <=> Waits("SignIn"))
    BY <1>9, Served DEF Create
  <2>2. pane'.login = pane.login
    BY <1>9 DEF Create, Shows
  <2>3. CASE token # None /\ AsksAccount("Create", token)
    BY <1>9, <2>2, <2>3 DEF Create, AsksAccount
  <2>4. CASE UNCHANGED <<worker, using>>
    BY <1>9, <2>1, <2>2, <2>4 DEF Create, Serves
  <2>5. QED
    BY <1>9, <2>3, <2>4 DEF Create
<1>10. CASE Select
  <2>1. (Waits("Refresh")' <=> Waits("Refresh")) /\ (Waits("SignIn")' <=> Waits("SignIn"))
    BY <1>10, Served DEF Select
  <2>2. pane'.login = pane.login
    BY <1>10, Read DEF Select, Shows
  <2>3. QED
    BY <1>10, <2>1, <2>2 DEF Select, Serves
<1>11. CASE Commit
  <2>1. (Waits("Refresh")' <=> Waits("Refresh")) /\ (Waits("SignIn")' <=> Waits("SignIn"))
    BY <1>11, Served DEF Commit
  <2>2. pane'.login = pane.login
    BY <1>11, Read DEF Commit, Shows
  <2>3. QED
    BY <1>11, <2>1, <2>2 DEF Commit, Serves
<1>12. CASE Transfer
  <2>1. (Waits("Refresh")' <=> Waits("Refresh")) /\ (Waits("SignIn")' <=> Waits("SignIn"))
    BY <1>12, Served DEF Transfer
  <2>2. pane'.login = pane.login
    BY <1>12, Read DEF Transfer, Shows
  <2>3. QED
    BY <1>12, <2>1, <2>2 DEF Transfer, Serves
<1>13. CASE Accepted
  <2>1. pane'.login = using /\ check' = [of |-> using, answered |-> TRUE] /\ worker' = "idle"
    BY <1>13, Read DEF Accepted, Shows
  <2>2. (Waits("Refresh")' <=> Waits("Refresh")) /\ (Waits("SignIn")' <=> Waits("SignIn"))
    BY <1>13 DEF Accepted, Waits
  <2>3. token' = token /\ token # None /\ handover' = handover
    BY <1>13 DEF Accepted
  <2>4. using = token \/ Owed'
    BY <1>13, <2>2 DEF Accepted
  <2>5. QED
    BY <2>1, <2>3, <2>4
<1>14. CASE Refused
  <2>1. pane'.login = None /\ token' = None /\ worker' = "idle"
    BY <1>14 DEF Refused, Drop, Shows
  <2>2. QED
    BY <2>1
<1>15. CASE Unanswered
  <2>1. (Waits("Refresh")' <=> Waits("Refresh")) /\ (Waits("SignIn")' <=> Waits("SignIn"))
    BY <1>15 DEF Unanswered, Waits
  <2>2. QED
    BY <1>15, <2>1 DEF Unanswered
<1>16. CASE Look
  BY <1>16 DEF Look, Waits
<1>17. CASE PressCommand
  <2>1. PICK c \in Order : queue' = Append(queue, c)
    BY <1>17, PressSent
  <2>2. \A o : Waits(o) => Waits(o)'
    BY <2>1, Sent
  <2>3. QED
    BY <1>17, <2>2 DEF PressCommand, Press
<1>18. ASSUME NEW kind \in Asked, PressQuestion(kind) PROVE Account'
  BY <1>18 DEF PressQuestion, Press, Waits
<1>19. CASE TakeAnswer
  <2>1. PICK c \in Order : queue' = Append(queue, c)
    BY <1>19, AnswerSent
  <2>2. \A o : Waits(o) => Waits(o)'
    BY <2>1, Sent
  <2>3. QED
    BY <1>19, <2>2 DEF TakeAnswer
<1>20. CASE Poll
  BY <1>20 DEF Poll, Waits
<1>21. CASE Confirm
  BY <1>21 DEF Confirm, Waits
<1>22. CASE Cancel
  BY <1>22 DEF Cancel, Waits
<1>23. CASE UNCHANGED vars
  BY <1>23 DEF vars, Waits
<1>24. QED
  BY <1>1, <1>2, <1>3, <1>4, <1>5, <1>6, <1>7, <1>8, <1>9, <1>10, <1>11, <1>12,
     <1>13, <1>14, <1>15, <1>16, <1>17, <1>18, <1>19, <1>20, <1>21, <1>22, <1>23
  DEF Next, Worker

-----------------------------------------------------------------------------
(***************************************************************************)
(* What is on the disk is what is held, or owed.                           *)
(***************************************************************************)
LEMMA AsleepOn == IInv /\ [Next]_vars => Asleep'
<1>. SUFFICES ASSUME IInv, [Next]_vars PROVE Asleep'
  OBVIOUS
<1>. USE DEF IInv, Asleep, launch, dialogs, bounds
<1>1. CASE TokenHandedOver
  BY <1>1 DEF TokenHandedOver
<1>2. CASE RefreshSent
  BY <1>2 DEF RefreshSent
<1>3. CASE Start
  BY <1>3 DEF Start
<1>4. CASE Kill
  BY <1>4 DEF Kill, Fresh
<1>5. CASE SignIn
  BY <1>5 DEF SignIn, AsksAccount
<1>6. CASE SignOut
  BY <1>6 DEF SignOut, Serves
<1>7. CASE Refresh
  BY <1>7 DEF Refresh, Serves, AsksAccount
<1>8. CASE Clone
  BY <1>8 DEF Clone, Serves
<1>9. CASE Create
  BY <1>9 DEF Create, Serves, AsksAccount
<1>10. CASE Select
  BY <1>10 DEF Select, Serves
<1>11. CASE Commit
  BY <1>11 DEF Commit, Serves
<1>12. CASE Transfer
  BY <1>12 DEF Transfer, Serves
<1>13. CASE Accepted
  BY <1>13 DEF Accepted
<1>14. CASE Refused
  BY <1>14 DEF Refused
<1>15. CASE Unanswered
  BY <1>15 DEF Unanswered
<1>16. CASE Look
  BY <1>16 DEF Look
<1>17. CASE PressCommand
  BY <1>17 DEF PressCommand, Press
<1>18. ASSUME NEW kind \in Asked, PressQuestion(kind) PROVE Asleep'
  BY <1>18 DEF PressQuestion, Press
<1>19. CASE TakeAnswer
  BY <1>19 DEF TakeAnswer
<1>20. CASE Poll
  BY <1>20 DEF Poll
<1>21. CASE Confirm
  BY <1>21 DEF Confirm
<1>22. CASE Cancel
  BY <1>22 DEF Cancel
<1>23. CASE UNCHANGED vars
  BY <1>23 DEF vars
<1>24. QED
  BY <1>1, <1>2, <1>3, <1>4, <1>5, <1>6, <1>7, <1>8, <1>9, <1>10, <1>11, <1>12,
     <1>13, <1>14, <1>15, <1>16, <1>17, <1>18, <1>19, <1>20, <1>21, <1>22, <1>23
  DEF Next, Worker

LEMMA LaunchOn == IInv /\ [Next]_vars => Launching' /\ Loading'
<1>. SUFFICES ASSUME IInv, [Next]_vars PROVE Launching' /\ Loading'
  OBVIOUS
<1>. USE GitPaneAssumption DEF IInv, Shapes, Launching, Loading, AskingAccount, launch, dialogs,
         bounds
<1>1. CASE TokenHandedOver
  BY <1>1 DEF TokenHandedOver, Waits
<1>2. CASE RefreshSent
  <2>1. CASE worker = "off"
    BY <1>2, <2>1 DEF RefreshSent, Waits
  <2>2. CASE worker # "off"
    <3>1. Command("Refresh", None) \in Order /\ Command("Refresh", None).op = "Refresh"
      BY DEF Command, Order, Op
    <3>2. queue' = Append(queue, Command("Refresh", None))
      BY <1>2, <2>2 DEF RefreshSent
    <3>3. \A o : Waits(o)' <=> o = "Refresh" \/ Waits(o)
      BY <3>1, <3>2, Sent
    <3>9. QED
      BY <1>2, <2>2, <3>3 DEF RefreshSent
  <2>3. QED
    BY <2>1, <2>2
<1>3. CASE Start
  <2>1. ~Waits("SignIn")' /\ ~Waits("SignOut")'
    BY <1>3 DEF Start, Waits, Command
  <2>2. QED
    BY <1>3, <2>1 DEF Start
<1>4. CASE Kill
  BY <1>4 DEF Kill, Fresh, Default, Waits
<1>5. CASE SignIn
  <2>1. Waits("SignIn")
    BY <1>5, Served DEF SignIn
  <2>2. QED
    BY <1>5, <2>1 DEF SignIn
<1>6. CASE SignOut
  <2>1. Waits("SignOut") /\ (Waits("SignIn")' => Waits("SignIn"))
    BY <1>6, Served DEF SignOut, Drop
  <2>2. QED
    BY <1>6, <2>1 DEF SignOut, Drop
<1>7. CASE Refresh
  <2>1. (Waits("SignIn")' => Waits("SignIn")) /\ (Waits("SignOut")' => Waits("SignOut"))
    BY <1>7, Served DEF Refresh
  <2>2. QED
    BY <1>7, <2>1 DEF Refresh, AsksAccount, Serves
<1>8. CASE Clone
  <2>1. (Waits("SignIn")' => Waits("SignIn")) /\ (Waits("SignOut")' => Waits("SignOut"))
    BY <1>8, Served DEF Clone
  <2>2. QED
    BY <1>8, <2>1 DEF Clone, AsksAccount, Serves
<1>9. CASE Create
  <2>1. (Waits("SignIn")' => Waits("SignIn")) /\ (Waits("SignOut")' => Waits("SignOut"))
    BY <1>9, Served DEF Create
  <2>2. QED
    BY <1>9, <2>1 DEF Create, AsksAccount, Serves
<1>10. CASE Select
  <2>1. (Waits("SignIn")' => Waits("SignIn")) /\ (Waits("SignOut")' => Waits("SignOut"))
    BY <1>10, Served DEF Select
  <2>2. QED
    BY <1>10, <2>1 DEF Select, AsksAccount, Serves
<1>11. CASE Commit
  <2>1. (Waits("SignIn")' => Waits("SignIn")) /\ (Waits("SignOut")' => Waits("SignOut"))
    BY <1>11, Served DEF Commit
  <2>2. QED
    BY <1>11, <2>1 DEF Commit, AsksAccount, Serves
<1>12. CASE Transfer
  <2>1. (Waits("SignIn")' => Waits("SignIn")) /\ (Waits("SignOut")' => Waits("SignOut"))
    BY <1>12, Served DEF Transfer
  <2>2. QED
    BY <1>12, <2>1 DEF Transfer, AsksAccount, Serves
<1>13. CASE Accepted
  BY <1>13 DEF Accepted, Waits
<1>14. CASE Refused
  BY <1>14 DEF Refused, Drop, Waits
<1>15. CASE Unanswered
  BY <1>15 DEF Unanswered, Waits
<1>16. CASE Look
  <2>1. token = None => pane.login = None
    BY DEF Account
  <2>2. QED
    BY <1>16, <2>1 DEF Look, Waits
<1>17. CASE PressCommand
  <2>1. PICK c \in Order : /\ queue' = Append(queue, c) /\ c.op # "SignIn"
                           /\ c.op = "SignOut" => seen.login # None
    BY <1>17, PressSent
  <2>2. \A o : Waits(o)' <=> o = c.op \/ Waits(o)
    BY <2>1, Sent
  <2>3. Waits("SignIn")' => Waits("SignIn")
    BY <2>1, <2>2
  <2>4. Waits("SignOut")' => Waits("SignOut") \/ seen.login # None
    BY <2>1, <2>2
  <2>5. QED
    BY <1>17, <2>3, <2>4 DEF PressCommand, Press
<1>18. ASSUME NEW kind \in Asked, PressQuestion(kind) PROVE Launching' /\ Loading'
  BY <1>18 DEF PressQuestion, Press, Waits
<1>19. CASE TakeAnswer
  BY <1>19 DEF TakeAnswer
<1>20. CASE Poll
  BY <1>20 DEF Poll
<1>21. CASE Confirm
  BY <1>21 DEF Confirm
<1>22. CASE Cancel
  BY <1>22 DEF Cancel, Waits
<1>23. CASE UNCHANGED vars
  BY <1>23 DEF vars, Waits
<1>24. QED
  BY <1>1, <1>2, <1>3, <1>4, <1>5, <1>6, <1>7, <1>8, <1>9, <1>10, <1>11, <1>12,
     <1>13, <1>14, <1>15, <1>16, <1>17, <1>18, <1>19, <1>20, <1>21, <1>22, <1>23
  DEF Next, Worker

LEMMA SealingOn == IInv /\ [Next]_vars => Sealing'
<1>. SUFFICES ASSUME IInv, [Next]_vars PROVE Sealing'
  OBVIOUS
<1>. USE GitPaneAssumption DEF IInv, Shapes, Sealing, TypedToken, launch, dialogs, bounds
<1>1. CASE TokenHandedOver
  <2>1. ~forget /\ ~TypedToken /\ ~Waits("SignIn") /\ token = None
    BY <1>1 DEF TokenHandedOver, Loading, Launching
  <2>2. ~forget' /\ ~TypedToken' /\ ~Waits("SignIn")'
    BY <1>1, <2>1 DEF TokenHandedOver, Waits
  <2>3. sealed' = token'
    BY <1>1, <2>1 DEF TokenHandedOver
  <2>4. Newest(sealed)'
    BY <2>2 DEF Waits, Newest
  <2>5. QED
    BY <2>2, <2>3, <2>4
<1>2. CASE RefreshSent
  <2>1. CASE worker = "off"
    BY <1>2, <2>1 DEF RefreshSent, Waits, Newest
  <2>2. CASE worker # "off"
    <3>1. Command("Refresh", None) \in Order /\ Command("Refresh", None).op = "Refresh"
      BY DEF Command, Order, Op
    <3>2. queue' = Append(queue, Command("Refresh", None))
      BY <1>2, <2>2 DEF RefreshSent
    <3>3. \A o : Waits(o)' <=> o = "Refresh" \/ Waits(o)
      BY <3>1, <3>2, Sent
    <3>4. sealed' = sealed
      BY <1>2 DEF RefreshSent
    <3>5. Newest(sealed) => Newest(sealed)'
      <4>1. \A key : Newest(key) => Newest(key)'
        BY <3>1, <3>2, Sent
      <4>2. QED
        BY <3>4, <4>1 DEF Newest
    <3>6. QED
      BY <1>2, <3>3, <3>5 DEF RefreshSent
  <2>3. QED
    BY <2>1, <2>2
<1>3. CASE Start
  <2>1. DOMAIN queue' = {1} /\ queue'[1].op = "Refresh"
    BY <1>3 DEF Start, Command
  <2>2. ~Waits("SignIn")' /\ Newest(sealed)'
    BY <2>1 DEF Waits, Newest
  <2>3. ~Waits("SignIn")
    BY <1>3 DEF Start, Asleep, Waits
  <2>4. QED
    BY <1>3, <2>2, <2>3 DEF Start
<1>4. CASE Kill
  BY <1>4 DEF Kill, Fresh
<1>5. CASE SignIn
  <2>1. Waits("SignIn") /\ token' = Head(queue).arg
    BY <1>5, Served DEF SignIn
  <2>2. Newest(sealed) => Newest(sealed)'
    <3>1. sealed' = sealed
      BY <1>5 DEF SignIn
    <3>2. \A key : Newest(key) => Newest(key)'
      BY <1>5, Served DEF SignIn
    <3>3. QED
      BY <3>1, <3>2 DEF Newest
  <2>3. Newest(sealed) /\ ~Waits("SignIn")' => sealed = token'
    BY <1>5, <2>1, Served DEF SignIn
  <2>4. QED
    BY <1>5, <2>1, <2>2, <2>3 DEF SignIn
<1>6. CASE SignOut
  <2>1. Waits("SignIn")' <=> Waits("SignIn")
    BY <1>6, Served DEF SignOut, Drop
  <2>2. ~raced' => ~raced /\ ~TypedToken /\ ~Waits("SignIn")
    BY <1>6 DEF SignOut, Drop, TypedWaits, Waits
  <2>3. ~Waits("SignIn")' => Newest(sealed)'
    BY DEF Waits, Newest
  <2>4. QED
    BY <1>6, <2>1, <2>2, <2>3 DEF SignOut, Drop
<1>7. CASE Refresh
  <2>1. Waits("SignIn")' <=> Waits("SignIn")
    BY <1>7, Served DEF Refresh
  <2>2. Newest(sealed) => Newest(sealed)'
    <3>1. sealed' = sealed
      BY <1>7 DEF Refresh
    <3>2. \A key : Newest(key) => Newest(key)'
      BY <1>7, Served DEF Refresh
    <3>3. QED
      BY <3>1, <3>2 DEF Newest
  <2>3. QED
    BY <1>7, <2>1, <2>2 DEF Refresh
<1>8. CASE Clone
  <2>1. Waits("SignIn")' <=> Waits("SignIn")
    BY <1>8, Served DEF Clone
  <2>2. Newest(sealed) => Newest(sealed)'
    <3>1. sealed' = sealed
      BY <1>8 DEF Clone
    <3>2. \A key : Newest(key) => Newest(key)'
      BY <1>8, Served DEF Clone
    <3>3. QED
      BY <3>1, <3>2 DEF Newest
  <2>3. QED
    BY <1>8, <2>1, <2>2 DEF Clone
<1>9. CASE Create
  <2>1. Waits("SignIn")' <=> Waits("SignIn")
    BY <1>9, Served DEF Create
  <2>2. Newest(sealed) => Newest(sealed)'
    <3>1. sealed' = sealed
      BY <1>9 DEF Create
    <3>2. \A key : Newest(key) => Newest(key)'
      BY <1>9, Served DEF Create
    <3>3. QED
      BY <3>1, <3>2 DEF Newest
  <2>3. QED
    BY <1>9, <2>1, <2>2 DEF Create
<1>10. CASE Select
  <2>1. Waits("SignIn")' <=> Waits("SignIn")
    BY <1>10, Served DEF Select
  <2>2. Newest(sealed) => Newest(sealed)'
    <3>1. sealed' = sealed
      BY <1>10 DEF Select
    <3>2. \A key : Newest(key) => Newest(key)'
      BY <1>10, Served DEF Select
    <3>3. QED
      BY <3>1, <3>2 DEF Newest
  <2>3. QED
    BY <1>10, <2>1, <2>2 DEF Select
<1>11. CASE Commit
  <2>1. Waits("SignIn")' <=> Waits("SignIn")
    BY <1>11, Served DEF Commit
  <2>2. Newest(sealed) => Newest(sealed)'
    <3>1. sealed' = sealed
      BY <1>11 DEF Commit
    <3>2. \A key : Newest(key) => Newest(key)'
      BY <1>11, Served DEF Commit
    <3>3. QED
      BY <3>1, <3>2 DEF Newest
  <2>3. QED
    BY <1>11, <2>1, <2>2 DEF Commit
<1>12. CASE Transfer
  <2>1. Waits("SignIn")' <=> Waits("SignIn")
    BY <1>12, Served DEF Transfer
  <2>2. Newest(sealed) => Newest(sealed)'
    <3>1. sealed' = sealed
      BY <1>12 DEF Transfer
    <3>2. \A key : Newest(key) => Newest(key)'
      BY <1>12, Served DEF Transfer
    <3>3. QED
      BY <3>1, <3>2 DEF Newest
  <2>3. QED
    BY <1>12, <2>1, <2>2 DEF Transfer
<1>13. CASE Accepted
  BY <1>13 DEF Accepted, Waits, Newest
<1>14. CASE Refused
  <2>1. Waits("SignIn")' <=> Waits("SignIn")
    BY <1>14 DEF Refused, Drop, Waits
  <2>2. ~raced' => ~raced /\ ~TypedToken /\ ~Waits("SignIn")
    BY <1>14 DEF Refused, Drop, TypedWaits, Waits
  <2>3. ~Waits("SignIn")' => Newest(sealed)'
    BY DEF Waits, Newest
  <2>4. QED
    BY <1>14, <2>1, <2>2, <2>3 DEF Refused, Drop
<1>15. CASE Unanswered
  BY <1>15 DEF Unanswered, Waits, Newest
<1>16. CASE Look
  BY <1>16 DEF Look, Waits, Newest
<1>17. CASE PressCommand
  <2>1. PICK c \in Order : queue' = Append(queue, c) /\ c.op # "SignIn"
    BY <1>17, PressSent
  <2>2. \A o : Waits(o)' <=> o = c.op \/ Waits(o)
    BY <2>1, Sent
  <2>3. Newest(sealed) => Newest(sealed)'
    <3>1. sealed' = sealed
      BY <1>17 DEF PressCommand, Press
    <3>2. \A key : Newest(key) => Newest(key)'
      BY <2>1, Sent
    <3>3. QED
      BY <3>1, <3>2 DEF Newest
  <2>4. QED
    BY <1>17, <2>1, <2>2, <2>3 DEF PressCommand, Press
<1>18. ASSUME NEW kind \in Asked, PressQuestion(kind) PROVE Sealing'
  BY <1>18 DEF PressQuestion, Press, Waits, Newest
<1>19. CASE TakeAnswer
  <2>1. PICK c \in Order : /\ queue' = Append(queue, c)
                           /\ c.op = "SignIn" <=> TypedToken
                           /\ c.op = "SignIn" => c.arg = answer.what
    BY <1>19, AnswerSent
  <2>2. \A o : Waits(o)' <=> o = c.op \/ Waits(o)
    BY <2>1, Sent
  <2>3. sealed' = sealed /\ ~TypedToken'
    BY <1>19 DEF TakeAnswer
  <2>4. CASE c.op = "SignIn"
    <3>1. Newest(c.arg)'
      BY <2>1, <2>4, Sent
    <3>2. ~raced /\ handover # "loading" => Newest(sealed)'
      <4>1. ~raced /\ handover # "loading" => sealed' = c.arg
        BY <2>1, <2>3, <2>4
      <4>2. QED
        BY <3>1, <4>1 DEF Newest
    <3>3. ~raced /\ handover # "loading" => ~forget
      BY <2>1, <2>4
    <3>4. Waits("SignIn")'
      BY <2>2, <2>4
    <3>5. QED
      BY <1>19, <2>3, <3>2, <3>3, <3>4 DEF TakeAnswer
  <2>5. CASE c.op # "SignIn"
    <3>1. Newest(sealed) => Newest(sealed)'
      <4>1. \A key : Newest(key) => Newest(key)'
        BY <2>1, <2>5, Sent
      <4>2. QED
        BY <2>3, <4>1 DEF Newest
    <3>2. ~TypedToken /\ (Waits("SignIn")' <=> Waits("SignIn"))
      BY <2>1, <2>2, <2>5
    <3>3. QED
      BY <1>19, <2>3, <3>1, <3>2 DEF TakeAnswer
  <2>6. QED
    BY <2>4, <2>5
<1>20. CASE Poll
  <2>1. Waits("SignIn")' <=> Waits("SignIn")
    BY <1>20 DEF Poll, Waits
  <2>2. CASE forget
    <3>1. ~raced => ~Waits("SignIn") /\ token = None /\ ~TypedToken
      BY <1>20, <2>2 DEF Poll
    <3>2. ~Waits("SignIn")' => Newest(sealed)'
      BY DEF Waits, Newest
    <3>3. QED
      BY <1>20, <2>1, <2>2, <3>1, <3>2 DEF Poll
  <2>3. CASE ~forget
    BY <1>20, <2>1, <2>3 DEF Poll, Newest
  <2>4. QED
    BY <2>2, <2>3
<1>21. CASE Confirm
  <2>1. Waits("SignIn")' <=> Waits("SignIn")
    BY <1>21 DEF Confirm, Waits
  <2>2. answer' # None => answer' = Ask(dialog, answer'.what)
    BY <1>21 DEF Confirm, Ask
  <2>3. CASE dialog = "token"
    <3>1. TypedToken' => sealed' = answer'.what
      BY <1>21, <2>3 DEF Confirm, Ask
    <3>2. answer'.kind = "token"
      BY <1>21, <2>3 DEF Confirm, Ask
    <3>3. TypedToken' \/ answer' = None
      BY <3>2
    <3>4. ~raced' => ~forget
      BY <1>21, <2>3 DEF Confirm
    <3>5. answer' # None
      <4>1. answer' \in [kind : Asked, what : Typed]
        BY <1>21, <2>3 DEF Confirm, Ask, Asked
      <4>2. QED
        BY <4>1
    <3>6. QED
      BY <1>21, <3>1, <3>3, <3>4, <3>5 DEF Confirm
  <2>4. CASE dialog # "token"
    <3>1. ~TypedToken' /\ sealed' = sealed
      BY <1>21, <2>4 DEF Confirm, Ask
    <3>2. ~raced' => ~raced /\ ~TypedToken
      BY <1>21 DEF Confirm
    <3>3. Newest(sealed) => Newest(sealed)'
      BY <1>21, <3>1 DEF Confirm, Newest
    <3>4. QED
      BY <1>21, <2>1, <3>1, <3>2, <3>3 DEF Confirm
  <2>5. QED
    BY <2>3, <2>4
<1>22. CASE Cancel
  BY <1>22 DEF Cancel, Waits, Newest
<1>23. CASE UNCHANGED vars
  BY <1>23 DEF vars, Waits, Newest
<1>24. QED
  BY <1>1, <1>2, <1>3, <1>4, <1>5, <1>6, <1>7, <1>8, <1>9, <1>10, <1>11, <1>12,
     <1>13, <1>14, <1>15, <1>16, <1>17, <1>18, <1>19, <1>20, <1>21, <1>22, <1>23
  DEF Next, Worker

-----------------------------------------------------------------------------
LEMMA InitIInv == Init => IInv
  BY GitPaneAssumption
  DEF Init, IInv, Shapes, Shows, Default, Aimed, CommitsWhereAimed, Account, Owed,
      AskingAccount, Asleep, Launching, Loading, Sealing, Waits

THEOREM InductiveInvariant == Spec => []IInv
<1>1. IInv /\ [Next]_vars => IInv'
  BY ShapesOn, AimedOn, AccountOn, AsleepOn, LaunchOn, SealingOn DEF IInv
<1>2. QED
  BY <1>1, InitIInv, PTL DEF Spec

(* No token is taken for a message or a name of a repository, nor the      *)
(* other way round, in whatever order questions are asked and answered     *)
(* (prompt.rs:85-95, git.rs:757-767).                                      *)
THEOREM SecretsNeverMix == Spec => []SecretsStayApart
<1>1. IInv => SecretsStayApart
  BY DEF IInv, Shapes, Order, SecretsStayApart
<1>2. QED
  BY <1>1, InductiveInvariant, PTL

(* A commit goes to the project its button was drawn on, whatever was      *)
(* queued before it (git.rs:241-249).                                      *)
THEOREM CommitsGoWhereAimed == Spec => []CommitsWhereAimed
<1>1. IInv => CommitsWhereAimed
  BY DEF IInv
<1>2. QED
  BY <1>1, InductiveInvariant, PTL

(* At rest the token that is held was tried, and the account on screen is  *)
(* its own, however the hand-over and the start of the worker raced        *)
(* (git.rs:117-123, 287-306).                                              *)
THEOREM AccountsAgree == Spec => []AccountAgrees
<1>1. ASSUME IInv, AtRest PROVE ~Owed /\ ~AskingAccount
  BY <1>1 DEF AtRest, Owed, AskingAccount, Waits
<1>2. IInv => AccountAgrees
  BY <1>1 DEF IInv, Account, AccountAgrees
<1>3. QED
  BY <1>2, InductiveInvariant, PTL

(* At rest the disk holds the token that memory holds, unless a typed one  *)
(* was overtaken (git.rs:184-190, 293-301; MainActivity.kt:168-172).       *)
THEOREM SealedAgreesAlways == Spec => []SealedAgrees
<1>1. IInv => SealedAgrees
  BY DEF IInv, AtRest, SealedAgrees, Sealing, TypedToken, Waits
<1>2. QED
  BY <1>1, InductiveInvariant, PTL

-----------------------------------------------------------------------------
(***************************************************************************)
(* The types.  They rest on IInv for one thing: what a sign-in carries is  *)
(* a token.                                                                *)
(***************************************************************************)
LEMMA LeastIsThere ==
  ASSUME NEW T \in SUBSET Nat, T # {}
  PROVE  Min(T) \in T
<1>1. IsWellFoundedOn(OpToRel(<, Nat), Nat)
  BY NatLessThanWellFounded
<1>2. PICK n \in T : \A m \in T : ~ (<<m, n>> \in OpToRel(<, Nat))
  BY <1>1, WFMin, Zenon
<1>3. ASSUME NEW m \in T PROVE ~ (m < n)
  <2>1. m \in Nat /\ n \in Nat
    OBVIOUS
  <2>2. m < n => <<m, n>> \in OpToRel(<, Nat)
    BY <2>1, Zenon DEF OpToRel
  <2> QED BY <1>2, <2>2, Zenon
<1>4. \A m \in T : n <= m
  <2> HIDE <1>1, <1>2
  <2> SUFFICES ASSUME NEW m \in T PROVE n <= m
    OBVIOUS
  <2>1. ~ (m < n)
    BY <1>3
  <2>2. m \in Nat /\ n \in Nat
    OBVIOUS
  <2> QED BY <2>1, <2>2
<1> HIDE <1>1, <1>2
<1> QED BY <1>4 DEF Min

LEMMA ReadTyped ==
  ASSUME NEW state \in States, NEW there \in SUBSET Project, ReadProjects(state, there),
         aim \in Project \cup {None}
  PROVE  pane' \in States /\ aim' \in Project \cup {None}
<1>1. there # {} => Min(there) \in Project
  <2>1. there \in SUBSET Nat
    BY DEF Project
  <2> QED BY <2>1, LeastIsThere
<1> DEFINE first == IF there = {} THEN None ELSE Min(there)
<1>2. first \in Project \cup {None}
  BY <1>1
<1>3. ReadProjects(state, there) <=>
        \/ pane' = [state EXCEPT !.listed = {}] /\ UNCHANGED aim
        \/ pane' = [state EXCEPT !.listed = {}, !.selected = None] /\ aim' = None
        \/ /\ pane' = [state EXCEPT !.listed = there,
                                    !.selected = IF @ \in there THEN @ ELSE first]
           /\ UNCHANGED aim
  BY DEF ReadProjects
<1> HIDE DEF first
<1> QED BY <1>2, <1>3 DEF States

(* Taking a command off the queue and putting one on it.                   *)
LEMMA QueueTyped ==
  ASSUME queue \in Seq(Commands)
  PROVE  /\ \A op : Serves(op) => /\ queue' \in Seq(Commands) /\ Head(queue) \in Commands
                                  /\ Head(queue).op = op
         /\ \A c \in Commands : queue' = Append(queue, c) => queue' \in Seq(Commands)
         /\ Command("Refresh", None) \in Commands
<1>1. ASSUME NEW op, Serves(op)
      PROVE  queue' \in Seq(Commands) /\ Head(queue) \in Commands /\ Head(queue).op = op
  <2>1. queue # <<>> /\ queue' = Tail(queue) /\ Head(queue).op = op
    BY <1>1 DEF Serves
  <2> HIDE DEF Commands
  <2> QED BY <2>1, HeadTailProperties
<1>2. ASSUME NEW c \in Commands, queue' = Append(queue, c) PROVE queue' \in Seq(Commands)
  <2> HIDE DEF Commands
  <2> QED BY <1>2, AppendProperties
<1>3. Command("Refresh", None) \in Commands
  BY DEF Command, Commands
<1> QED BY <1>1, <1>2, <1>3

LEMMA TypesOn ==
  ASSUME IInv, TypeOK, [Next]_vars PROVE TypeOK'
<1> USE GitPaneAssumption DEF TypeOK, launch, dialogs, bounds
<1>1. CASE TokenHandedOver
  BY <1>1 DEF TokenHandedOver
<1>2. CASE RefreshSent
  <2>1. queue' \in Seq(Commands)
    BY <1>2, QueueTyped DEF RefreshSent
  <2> QED BY <1>2, <2>1 DEF RefreshSent
<1>3. CASE Start
  <2>1. queue' \in Seq(Commands)
    BY <1>3, QueueTyped DEF Start
  <2> QED BY <1>3, <2>1 DEF Start
<1>4. CASE Kill
  <2>1. Default \in States
    BY DEF Default, States
  <2>2. queue' \in Seq(Commands)
    BY <1>4, EmptySeq DEF Kill, Fresh
  <2>3. check' \in [of : Token \cup {None}, answered : BOOLEAN]
    BY <1>4 DEF Kill, Fresh
  <2>4. forget' \in BOOLEAN /\ raced' \in BOOLEAN
    BY <1>4, Zenon DEF Kill, Fresh
  <2>5. kills' \in 0 .. MaxKills
    BY <1>4 DEF Kill
  <2>6. answer' = None /\ aim' = None /\ UNCHANGED <<commit, dirs, presses, sealed>>
    BY <1>4 DEF Kill, Fresh
  <2>7. /\ handover' = "loading" /\ worker' = "off" /\ token' = None /\ using' = None
        /\ pane' = Default /\ seen' = Default
        /\ asking' = None /\ pending' = None /\ dialog' = None
    BY <1>4 DEF Kill, Fresh
  <2> QED BY <2>1, <2>2, <2>3, <2>4, <2>5, <2>6, <2>7
<1>5. CASE SignIn
  <2>1. queue' \in Seq(Commands)
    BY <1>5, QueueTyped DEF SignIn
  <2>2. token' \in Token
    BY <1>5, Served DEF SignIn, Order, IInv, Shapes
  <2> QED BY <1>5, <2>1, <2>2 DEF SignIn, AsksAccount
<1>6. CASE SignOut
  <2>1. queue' \in Seq(Commands)
    BY <1>6, QueueTyped DEF SignOut
  <2>2. pane' \in States
    BY <1>6 DEF SignOut, States
  <2>3. raced' \in BOOLEAN /\ forget' \in BOOLEAN
    BY <1>6 DEF SignOut, Drop
  <2> QED BY <1>6, <2>1, <2>2, <2>3 DEF SignOut, Drop
<1>7. CASE Refresh
  <2>1. queue' \in Seq(Commands)
    BY <1>7, QueueTyped DEF Refresh
  <2>2. pane' \in States /\ aim' \in Project \cup {None}
    BY <1>7, ReadTyped DEF Refresh
  <2> QED BY <1>7, <2>1, <2>2 DEF Refresh, AsksAccount
<1>8. CASE Clone
  <2>1. queue' \in Seq(Commands) /\ Head(queue) \in Commands /\ Head(queue).op = "Clone"
    BY <1>8, QueueTyped DEF Clone
  <2>2. Head(queue).arg \in Project
    BY <2>1 DEF Commands
  <2>3. dirs' \in SUBSET Project
    BY <1>8, <2>2 DEF Clone
  <2>4. [pane EXCEPT !.selected = Head(queue).arg] \in States
    BY <2>2 DEF States
  <2>5. pane' \in States /\ aim' \in Project \cup {None}
    BY <1>8, <2>3, <2>4, ReadTyped DEF Clone
  <2> QED BY <1>8, <2>1, <2>3, <2>5 DEF Clone
<1>9. CASE Create
  <2>1. queue' \in Seq(Commands)
    BY <1>9, QueueTyped DEF Create
  <2>2. /\ dirs' \subseteq Project /\ pane' \in States
        /\ worker' \in {worker, "Create"} /\ using' \in {using, token}
    BY <1>9 DEF Create, States, AsksAccount
  <2> QED BY <1>9, <2>1, <2>2 DEF Create
<1>10. CASE Select
  <2>1. queue' \in Seq(Commands) /\ Head(queue) \in Commands /\ Head(queue).op = "Select"
    BY <1>10, QueueTyped DEF Select
  <2>2. [pane EXCEPT !.selected = Head(queue).arg] \in States
    BY <2>1 DEF States, Commands
  <2>3. pane' \in States /\ aim' \in Project \cup {None}
    BY <1>10, <2>2, ReadTyped DEF Select
  <2> QED BY <1>10, <2>1, <2>3 DEF Select
<1>11. CASE Commit
  <2>1. queue' \in Seq(Commands)
    BY <1>11, QueueTyped DEF Commit
  <2>2. pane' \in States /\ aim' \in Project \cup {None}
    BY <1>11, ReadTyped DEF Commit
  <2>3. commit' \in [aim : Project \cup {None}, dir : Project \cup {None}]
    BY <1>11 DEF Commit
  <2> QED BY <1>11, <2>1, <2>2, <2>3 DEF Commit
<1>12. CASE Transfer
  <2>1. queue' \in Seq(Commands)
    BY <1>12, QueueTyped DEF Transfer
  <2>2. pane' \in States /\ aim' \in Project \cup {None}
    BY <1>12, ReadTyped DEF Transfer
  <2> QED BY <1>12, <2>1, <2>2 DEF Transfer
<1>13. CASE Accepted
  <2>1. [pane EXCEPT !.login = using] \in States
    BY DEF States
  <2>2. pane' \in States /\ aim' \in Project \cup {None}
    BY <1>13, <2>1, ReadTyped DEF Accepted
  <2> QED BY <1>13, <2>2 DEF Accepted
<1>14. CASE Refused
  <2>1. pane' \in States
    BY <1>14 DEF Refused, States
  <2>2. raced' \in BOOLEAN /\ forget' \in BOOLEAN
    BY <1>14 DEF Refused, Drop
  <2> QED BY <1>14, <2>1, <2>2 DEF Refused, Drop
<1>15. CASE Unanswered
  BY <1>15 DEF Unanswered
<1>16. CASE Look
  BY <1>16 DEF Look
<1>17. CASE PressCommand
  <2>1. \E c \in Commands : queue' = Append(queue, c)
    BY <1>17 DEF PressCommand, Sends, Command, Commands, States
  <2>2. queue' \in Seq(Commands)
    BY <2>1, QueueTyped
  <2>3. aim' \in {aim, None}
    BY <1>17 DEF PressCommand, Sends
  <2> QED BY <1>17, <2>2, <2>3 DEF PressCommand, Press
<1>18. CASE \E kind \in Asked : PressQuestion(kind)
  <2>1. aim' \in Project \cup {None}
    BY <1>18 DEF PressQuestion, States
  <2> QED BY <1>18, <2>1 DEF PressQuestion, Press
<1>19. CASE TakeAnswer
  <2>1. answer \in [kind : Asked, what : Typed] /\ asking = answer.kind
    BY <1>19 DEF TakeAnswer
  <2>2. CommandOf(asking, answer.what) \in Commands
    BY <2>1 DEF CommandOf, Command, Commands, Asked
  <2>3. queue' = Append(queue, CommandOf(asking, answer.what)) /\ aim' \in {aim, None}
    BY <1>19, <2>1 DEF TakeAnswer, Sends, CommandOf, Command, Asked
  <2>4. queue' \in Seq(Commands)
    BY <2>2, <2>3, QueueTyped
  <2> QED BY <1>19, <2>3, <2>4 DEF TakeAnswer
<1>20. CASE Poll
  BY <1>20 DEF Poll
<1>21. CASE Confirm
  <2>1. raced' \in BOOLEAN
    BY <1>21 DEF Confirm
  <2>2. answer' \in [kind : Asked, what : Typed] /\ sealed' \in Token \cup {None}
    BY <1>21 DEF Confirm, Ask
  <2> QED BY <1>21, <2>1, <2>2 DEF Confirm
<1>22. CASE Cancel
  BY <1>22 DEF Cancel
<1>23. CASE UNCHANGED vars
  BY <1>23 DEF vars
<1> QED
  BY <1>1, <1>2, <1>3, <1>4, <1>5, <1>6, <1>7, <1>8, <1>9, <1>10, <1>11, <1>12,
     <1>13, <1>14, <1>15, <1>16, <1>17, <1>18, <1>19, <1>20, <1>21, <1>22, <1>23
  DEF Next, Worker

(* Every variable of the pane keeps its type for any tokens, projects,     *)
(* presses and kills: tokens, projects or none where there may be one,     *)
(* commands in the queue, and the bounds of what users and accidents do.   *)
(* That a project is there when it is selected is not part of it.          *)
THEOREM TypeCorrect == Spec => []TypeOK
<1>1. Init => TypeOK
  <2> SUFFICES ASSUME Init PROVE TypeOK
    OBVIOUS
  <2>1. Default \in States
    BY DEF Default, States
  <2>2. queue \in Seq(Commands)
    BY EmptySeq DEF Init
  <2>3. check \in [of : Token \cup {None}, answered : BOOLEAN]
    BY DEF Init
  <2>4. forget \in BOOLEAN /\ raced \in BOOLEAN
    BY Zenon DEF Init
  <2>5. presses \in 0 .. MaxPresses /\ kills \in 0 .. MaxKills
    BY GitPaneAssumption DEF Init
  <2>6. commit \in [aim : Project \cup {None}, dir : Project \cup {None}]
    BY DEF Init
  <2> QED BY <2>1, <2>2, <2>3, <2>4, <2>5, <2>6 DEF Init, TypeOK
<1>2. TypeOK /\ IInv /\ [Next]_vars => TypeOK'
  BY TypesOn
<1> QED BY <1>1, <1>2, InductiveInvariant, PTL DEF Spec

-----------------------------------------------------------------------------
(***************************************************************************)
(* KeepAlive.                                                              *)
(***************************************************************************)
Fates == {"no", "working", "idle", "seen", "late", "asked"}

(* A Stop that holds has turned the switch off; it is remembered while     *)
(* what it was about runs, and until a poll finds that nothing does.  None *)
(* is remembered for work that began after that.                           *)
StopHolds ==
  /\ unwanted \in Fates
  /\ unwanted \in {"working", "idle", "seen", "late"} => service = Off /\ ~pinned
  /\ unwanted \in {"working", "idle", "late"} => userStopped
  /\ unwanted \in {"working", "late"} => Summary # Nothing
  /\ unwanted \in {"idle", "seen"} => Summary = Nothing
  /\ unwanted \in {"no", "seen"} => ~userStopped

-----------------------------------------------------------------------------
(* The steps of the work, of the mirror and of the user leave the service, *)
(* the switch and the Stop as they are, and Watch draws the conclusion.    *)
LEMMA WatchKeepsStop ==
  ASSUME StopHolds, Watch, service' = service \/ service' = Off,
         pinned' = pinned, userStopped' = userStopped
  PROVE  StopHolds'
<1>1. unwanted' \in Fates
  BY DEF StopHolds, Watch, Fates
<1>2. unwanted' \in {"working", "late"} => Summary' # Nothing
  BY DEF StopHolds, Watch
<1>3. unwanted' \in {"idle", "seen"} => Summary' = Nothing
  BY DEF StopHolds, Watch
<1>4. unwanted' \in {"working", "idle", "late"} => unwanted \in {"working", "idle", "late"}
  BY DEF StopHolds, Watch
<1>5. /\ unwanted' = "seen" => unwanted = "seen"
      /\ unwanted' = "no" => unwanted \in {"no", "seen"}
  BY DEF StopHolds, Watch
<1>6. QED
  BY <1>1, <1>2, <1>3, <1>4, <1>5 DEF StopHolds, Fates

(* A poll while a Stop holds finds the service unwanted.                   *)
LEMMA PollKeepsStop == StopHolds /\ SyncKeepAlive => StopHolds'
<1>. SUFFICES ASSUME StopHolds, SyncKeepAlive PROVE StopHolds'
  OBVIOUS
<1>1. Summary' = Summary /\ pinned' = pinned
  BY DEF SyncKeepAlive, work, Summary
<1>2. userStopped' <=> userStopped /\ Summary # Nothing
  BY DEF SyncKeepAlive
<1>3. CASE Summary = Nothing
  <2>1. unwanted' \in {"no", "seen"} /\ ~userStopped'
    BY <1>2, <1>3 DEF SyncKeepAlive, Looks, StopHolds, Fates
  <2>2. unwanted' = "seen" => service = Off /\ ~pinned
    BY <1>3 DEF SyncKeepAlive, Looks, StopHolds, Fates
  <2>3. ~pinned /\ service = Off => service' = Off
    BY <1>3 DEF SyncKeepAlive, Sync, TurnsOff, keeper
  <2>4. QED
    BY <1>1, <1>3, <2>1, <2>2, <2>3 DEF StopHolds, Fates
<1>4. CASE Summary # Nothing
  <2>1. unwanted' = unwanted /\ (userStopped' <=> userStopped)
    BY <1>2, <1>4 DEF SyncKeepAlive, Looks
  <2>2. userStopped /\ service = Off => service' = Off
    BY <2>1 DEF SyncKeepAlive, Sync, TurnsOff, keeper
  <2>3. QED
    BY <1>1, <1>4, <2>1, <2>2 DEF StopHolds
<1>5. QED
  BY <1>3, <1>4

LEMMA DeliveryMakesStop == StopHolds /\ StopDelivered => StopHolds'
  BY DEF StopHolds, StopDelivered, work, Summary, Fates

LEMMA SwitchKeepsStop == StopHolds /\ SaveSwitch => StopHolds'
  BY DEF StopHolds, SaveSwitch, work, keeper, Summary, Fates

LEMMA StopHoldsOn == StopHolds /\ [KeeperNext]_keeperVars => StopHolds'
<1>. SUFFICES ASSUME StopHolds, [KeeperNext]_keeperVars PROVE StopHolds'
  OBVIOUS
<1>1. CASE TurnStarts
  BY <1>1, WatchKeepsStop DEF TurnStarts, keeper
<1>2. CASE Aside
  BY <1>2, WatchKeepsStop DEF Aside, keeper
<1>3. CASE TurnEnds
  BY <1>3, WatchKeepsStop DEF TurnEnds, keeper
<1>4. CASE JobStarts
  BY <1>4, WatchKeepsStop DEF JobStarts, keeper
<1>5. CASE JobEnds
  BY <1>5, WatchKeepsStop DEF JobEnds, keeper
<1>6. CASE Mirrors
  BY <1>6, WatchKeepsStop DEF Mirrors, keeper
<1>7. CASE PressStop
  BY <1>7, WatchKeepsStop DEF PressStop, keeper
<1>8. CASE UNCHANGED keeperVars
  BY <1>8 DEF keeperVars, work, keeper, StopHolds, Summary
<1>9. QED
  BY <1>1, <1>2, <1>3, <1>4, <1>5, <1>6, <1>7, <1>8, PollKeepsStop,
     DeliveryMakesStop, SwitchKeepsStop DEF KeeperNext

(* A Stop keeps the service off for what it was about, in whatever order   *)
(* the poll, the work and the delivery come, and however far the mirror    *)
(* has fallen behind (KeepAliveService.kt:36-49, MainActivity.kt:124-138). *)
THEOREM StopsAreObeyed == KeeperSpec => []StopIsObeyed
<1>1. KeeperInit => StopHolds
  BY DEF KeeperInit, StopHolds, Fates
<1>2. StopHolds => StopIsObeyed
  BY DEF StopHolds, StopIsObeyed
<1>3. QED
  BY <1>1, <1>2, StopHoldsOn, PTL DEF KeeperSpec

-----------------------------------------------------------------------------
(***************************************************************************)
(* The mirror takes up what it missed.                                     *)
(***************************************************************************)
LEMMA Bounds ==
  /\ MaxTurns \in Nat /\ MaxJobs \in Nat /\ MaxInside \in Nat /\ MaxAside \in Nat
  /\ MaxChoices \in Nat /\ Capacity \in Nat /\ MaxAside < Capacity
BY KeepAliveAssumption

Event == {"started", "ended", "failed", "other"}

Counted ==
  /\ turn \in BOOLEAN /\ busy \in BOOLEAN
  /\ aside \in 0 .. Asides
  /\ backlog \in Seq(Event) /\ Len(backlog) <= Capacity

(* Of a turn that runs, more may follow the start than the bus keeps.      *)
Near == turn => MaxInside < Capacity

(* The n-th event that waits is the last that says whether a turn runs: if *)
(* there is one it says so rightly, and is too near to be lost; if there   *)
(* is none BUSY is right as it is, or a turn runs whose start was lost.    *)
LastNews(n) ==
  /\ \A i \in n + 1 .. Len(backlog) : backlog[i] = "other"
  /\ n = 0 /\ Near => busy = turn
  /\ n # 0 => /\ backlog[n] \in (IF turn THEN {"started"} ELSE {"ended", "failed"})
              /\ Near => Len(backlog) - n <= aside

Follows == Counted /\ \E n \in 0 .. Len(backlog) : LastNews(n)

(* An event more, and perhaps the oldest less.                             *)
LEMMA EmitShape ==
  ASSUME NEW event \in Event, Counted, Emit(event)
  PROVE  \E d \in {0, 1} :
           /\ d = 1 => Len(backlog) = Capacity
           /\ backlog' \in Seq(Event)
           /\ Len(backlog) \in Nat /\ Len(backlog') = Len(backlog) + 1 - d
           /\ 1 <= Len(backlog') /\ Len(backlog') <= Capacity
           /\ \A i \in 1 .. Len(backlog') :
                backlog'[i] = IF i + d <= Len(backlog) THEN backlog[i + d] ELSE event
<1> DEFINE all == Append(backlog, event)
<1>1. backlog' = IF Len(all) > Capacity THEN Tail(all) ELSE all
  BY DEF Emit
<1>2. /\ all \in Seq(Event) /\ all # <<>> /\ Len(backlog) \in Nat
      /\ Len(all) = Len(backlog) + 1
      /\ \A i \in 1 .. Len(backlog) : all[i] = backlog[i]
      /\ all[Len(backlog) + 1] = event
  BY AppendProperties DEF Counted
<1> HIDE DEF all
<1>3. Capacity \in Nat \ {0} /\ Len(backlog) <= Capacity
  BY Bounds DEF Counted
<1>4. CASE Len(all) > Capacity
  <2>1. backlog' = Tail(all) /\ Len(backlog) = Capacity
    BY <1>1, <1>2, <1>3, <1>4
  <2>2. /\ backlog' \in Seq(Event) /\ Len(backlog') = Len(all) - 1
        /\ \A i \in 1 .. Len(backlog') : backlog'[i] = all[i + 1]
    BY <1>2, <2>1, HeadTailProperties
  <2>3. ASSUME NEW i \in 1 .. Len(backlog')
        PROVE  backlog'[i] = IF i + 1 <= Len(backlog) THEN backlog[i + 1] ELSE event
    BY <1>2, <2>2
  <2> QED BY <1>2, <1>3, <2>1, <2>2, <2>3
<1>5. CASE ~ (Len(all) > Capacity)
  <2>1. backlog' = all
    BY <1>1, <1>5
  <2>2. ASSUME NEW i \in 1 .. Len(backlog')
        PROVE  backlog'[i] = IF i + 0 <= Len(backlog) THEN backlog[i + 0] ELSE event
    BY <1>2, <2>1
  <2> QED BY <1>2, <1>3, <1>5, <2>1, <2>2
<1> QED BY <1>4, <1>5

LEMMA EdgeFollows ==
  ASSUME Follows, NEW event \in Event, Emit(event), aside' = 0, busy' = busy,
         turn' \in BOOLEAN, event \in (IF turn' THEN {"started"} ELSE {"ended", "failed"})
  PROVE  Follows'
<1>1. PICK d \in {0, 1} :
           /\ backlog' \in Seq(Event)
           /\ Len(backlog) \in Nat /\ Len(backlog') = Len(backlog) + 1 - d
           /\ 1 <= Len(backlog') /\ Len(backlog') <= Capacity
           /\ \A i \in 1 .. Len(backlog') :
                backlog'[i] = IF i + d <= Len(backlog) THEN backlog[i + d] ELSE event
  BY EmitShape DEF Follows
<1>2. Counted'
  BY <1>1, Bounds DEF Counted, Follows, Asides
<1>3. LastNews(Len(backlog))'
  BY <1>1 DEF LastNews
<1>4. Len(backlog') \in 0 .. Len(backlog')
  BY <1>1
<1> QED BY <1>2, <1>3, <1>4 DEF Follows

LEMMA AsideFollows ==
  ASSUME Follows, Aside
  PROVE  Follows'
<1>1. /\ Emit("other") /\ "other" \in Event
      /\ aside < Asides /\ aside' = aside + 1 /\ turn' = turn /\ busy' = busy
  BY DEF Aside, Event
<1>2. PICK d \in {0, 1} :
           /\ d = 1 => Len(backlog) = Capacity
           /\ backlog' \in Seq(Event)
           /\ Len(backlog) \in Nat /\ Len(backlog') = Len(backlog) + 1 - d
           /\ 1 <= Len(backlog') /\ Len(backlog') <= Capacity
           /\ \A i \in 1 .. Len(backlog') :
                backlog'[i] = IF i + d <= Len(backlog) THEN backlog[i + d] ELSE "other"
  BY <1>1, EmitShape DEF Follows
<1>3. Counted'
  BY <1>1, <1>2, Bounds DEF Counted, Follows, Asides
<1>4. PICK n \in 0 .. Len(backlog) : LastNews(n)
  BY DEF Follows
<1>5. /\ aside \in Nat /\ Asides \in Nat /\ Capacity \in Nat
      /\ (Near => Asides < Capacity) /\ (Near' <=> Near)
  BY <1>1, Bounds DEF Counted, Follows, Asides, Near
<1>6. CASE n = 0
  <2>1. LastNews(0)'
    BY <1>1, <1>2, <1>4, <1>5, <1>6 DEF LastNews
  <2> QED BY <1>2, <1>3, <2>1 DEF Follows
<1>7. CASE n # 0
  <2> DEFINE m == n - d
  <2>1. n \in 1 .. Len(backlog) /\ (Near => Len(backlog) - n <= aside)
    BY <1>2, <1>4, <1>7 DEF LastNews
  <2>2. m \in 0 .. Len(backlog') /\ (Near => m # 0)
    BY <1>1, <1>2, <1>5, <2>1
  <2>3. LastNews(m)'
    <3>1. m # 0 => backlog'[m] = backlog[n]
      BY <1>2, <2>1, <2>2
    <3>2. ASSUME NEW i \in m + 1 .. Len(backlog') PROVE backlog'[i] = "other"
      <4>1. i \in 1 .. Len(backlog') /\ i + d \in n + 1 .. Len(backlog) + 1
        BY <1>2, <2>1, <2>2
      <4> QED BY <1>2, <1>4, <4>1 DEF LastNews
    <3>3. Near => Len(backlog') - m <= aside'
      BY <1>1, <1>2, <1>5, <2>1
    <3>4. backlog[n] \in (IF turn THEN {"started"} ELSE {"ended", "failed"})
      BY <1>4, <1>7 DEF LastNews
    <3> HIDE DEF m
    <3> QED BY <1>1, <1>5, <2>2, <3>1, <3>2, <3>3, <3>4 DEF LastNews
  <2> QED BY <1>2, <1>3, <2>2, <2>3 DEF Follows
<1> QED BY <1>6, <1>7

LEMMA MirrorsFollows ==
  ASSUME Follows, Mirrors
  PROVE  Follows'
<1>1. /\ backlog # <<>> /\ backlog' = Tail(backlog)
      /\ turn' = turn /\ aside' = aside
      /\ busy' = CASE Head(backlog) = "started" -> TRUE
                   [] Head(backlog) \in {"ended", "failed"} -> FALSE
                   [] OTHER -> busy
  BY DEF Mirrors, work
<1>2. /\ backlog \in Seq(Event) /\ backlog' \in Seq(Event) /\ Len(backlog) \in Nat
      /\ Len(backlog') = Len(backlog) - 1 /\ Head(backlog) = backlog[1] /\ 1 <= Len(backlog)
      /\ \A i \in 1 .. Len(backlog') : backlog'[i] = backlog[i + 1]
  <2>1. backlog \in Seq(Event)
    BY DEF Follows, Counted
  <2>2. Len(backlog) # 0
    BY <1>1, <2>1, EmptySeq
  <2>3. /\ Tail(backlog) \in Seq(Event) /\ Len(Tail(backlog)) = Len(backlog) - 1
        /\ \A i \in 1 .. Len(Tail(backlog)) : Tail(backlog)[i] = backlog[i + 1]
    BY <1>1, <2>1, HeadTailProperties
  <2> QED BY <1>1, <2>1, <2>2, <2>3
<1>3. busy' \in BOOLEAN /\ turn \in BOOLEAN
  BY <1>1 DEF Follows, Counted
<1>3a. Near' <=> Near
  BY <1>1 DEF Near
<1>4. Counted'
  <2>1. Len(backlog) <= Capacity /\ Capacity \in Nat /\ aside \in 0 .. Asides
    BY Bounds DEF Counted, Follows
  <2>2. Len(backlog') <= Capacity
    BY <1>2, <2>1
  <2>3. aside' \in 0 .. Asides' /\ turn' \in BOOLEAN
    BY <1>1, <1>3, <2>1 DEF Asides
  <2> QED BY <1>2, <1>3, <2>2, <2>3 DEF Counted
<1>5. PICK n \in 0 .. Len(backlog) : LastNews(n)
  BY DEF Follows
<1>6. CASE n = 0
  <2>1. backlog[1] = "other"
    BY <1>2, <1>5, <1>6 DEF LastNews
  <2>2. busy' = busy
    BY <1>1, <1>2, <2>1
  <2>3. ASSUME NEW i \in 0 + 1 .. Len(backlog') PROVE backlog'[i] = "other"
    <3>1. i \in 1 .. Len(backlog') /\ i + 1 \in n + 1 .. Len(backlog)
      BY <1>2, <1>6
    <3> QED BY <1>2, <1>5, <3>1 DEF LastNews
  <2>4. Near' => busy' = turn'
    BY <1>1, <1>5, <1>6, <1>3a, <2>2 DEF LastNews
  <2>5. LastNews(0)'
    BY <2>3, <2>4 DEF LastNews
  <2> QED BY <1>2, <1>4, <2>5 DEF Follows
<1>7. CASE n = 1
  <2>1. backlog[1] \in (IF turn THEN {"started"} ELSE {"ended", "failed"})
    BY <1>5, <1>7 DEF LastNews
  <2>2. busy' = turn
    BY <1>1, <1>2, <1>3, <2>1
  <2>3. ASSUME NEW i \in 0 + 1 .. Len(backlog') PROVE backlog'[i] = "other"
    <3>1. i \in 1 .. Len(backlog') /\ i + 1 \in n + 1 .. Len(backlog)
      BY <1>2, <1>7
    <3> QED BY <1>2, <1>5, <3>1 DEF LastNews
  <2>4. LastNews(0)'
    BY <1>1, <2>2, <2>3 DEF LastNews
  <2> QED BY <1>2, <1>4, <2>4 DEF Follows
<1>8. CASE n \notin {0, 1}
  <2> DEFINE m == n - 1
  <2>1. m \in 1 .. Len(backlog') /\ backlog'[m] = backlog[n] /\ m # 0
    BY <1>2, <1>8
  <2>2. ASSUME NEW i \in m + 1 .. Len(backlog') PROVE backlog'[i] = "other"
    <3>1. i \in 1 .. Len(backlog') /\ i + 1 \in n + 1 .. Len(backlog)
      BY <1>2, <2>1
    <3> QED BY <1>2, <1>5, <3>1 DEF LastNews
  <2>3. /\ backlog[n] \in (IF turn THEN {"started"} ELSE {"ended", "failed"})
        /\ Near => Len(backlog) - n <= aside
    BY <1>5, <1>8 DEF LastNews
  <2>4. Near' => Len(backlog') - m <= aside'
    BY <1>1, <1>2, <1>3a, <2>3
  <2> HIDE DEF m
  <2>5. LastNews(m)'
    BY <1>1, <2>1, <2>2, <2>3, <2>4 DEF LastNews
  <2>6. m \in 0 .. Len(backlog')
    BY <2>1
  <2> QED BY <1>4, <2>5, <2>6 DEF Follows
<1> QED BY <1>6, <1>7, <1>8

LEMMA FollowsOn ==
  ASSUME Follows, [KeeperNext]_keeperVars PROVE Follows'
<1>1. CASE TurnStarts
  BY <1>1, EdgeFollows DEF TurnStarts, Event
<1>2. CASE TurnEnds
  BY <1>2, EdgeFollows DEF TurnEnds, Event
<1>3. CASE Aside  BY <1>3, AsideFollows
<1>4. CASE Mirrors  BY <1>4, MirrorsFollows
<1>5. CASE \/ JobStarts \/ JobEnds \/ SyncKeepAlive \/ StopDelivered
           \/ PressStop \/ SaveSwitch \/ UNCHANGED keeperVars
  <2>1. UNCHANGED <<turn, aside, backlog, busy>>
    BY <1>5 DEF JobStarts, JobEnds, SyncKeepAlive, StopDelivered,
       PressStop, SaveSwitch, keeperVars, work
  <2> QED BY <2>1, Zenon DEF Follows, Counted, LastNews, Asides, Near
<1> QED BY <1>1, <1>2, <1>3, <1>4, <1>5, Zenon DEF KeeperNext

LEMMA InitFollows ==
  ASSUME KeeperInit PROVE Follows
<1>1. /\ backlog = <<>> /\ turn = FALSE /\ busy = FALSE /\ aside = 0
  BY DEF KeeperInit
<1>2. backlog \in Seq(Event) /\ Len(backlog) = 0
  BY <1>1, EmptySeq
<1>3. Counted
  <2>1. Len(backlog) <= Capacity
    BY <1>2, Bounds
  <2>2. aside \in 0 .. Asides
    BY <1>1, Bounds DEF Asides
  <2> QED BY <1>1, <1>2, <2>1, <2>2, Zenon DEF Counted
<1>4. LastNews(0)
  <2>1. ASSUME NEW i \in 0 + 1 .. Len(backlog) PROVE backlog[i] = "other"
    BY <1>2
  <2>2. busy = turn
    BY <1>1
  <2> QED BY <2>1, <2>2, Zenon DEF LastNews
<1> QED BY <1>2, <1>3, <1>4 DEF Follows

(* What the Activity knows of its service: only a Stop turns it off        *)
(* without KeepAlive being told, and until the next poll it holds.         *)
Told ==
  /\ ~ running => service = Off
  /\ running /\ service = Off => userStopped /\ ~ pinned
  /\ running /\ service # Off => service = lastSummary

(* A poll leaves the service as the choice and the summary want it.        *)
LEMMA PollLeaves ==
  ASSUME Told, SyncKeepAlive
  PROVE  LET idle   == Summary = Nothing
             wanted == (~ idle \/ pinned) /\ ~ userStopped'
             says   == IF idle THEN Awake ELSE Summary
         IN /\ userStopped' <=> userStopped /\ ~ idle
            /\ UNCHANGED <<turn, jobs, busy, backlog, pinned>>
            /\ service' = IF wanted THEN says ELSE Off
            /\ running' <=> wanted
            /\ wanted => lastSummary' = says
<1> DEFINE idle   == Summary = Nothing
           wanted == (~ idle \/ pinned) /\ ~ userStopped'
           says   == IF idle THEN Awake ELSE Summary
<1>1. /\ userStopped' <=> userStopped /\ ~ idle
      /\ UNCHANGED <<turn, jobs, busy, backlog, pinned>>
      /\ Sync(wanted, says)
  BY DEF SyncKeepAlive, work
<1>2. wanted => ~ (running /\ service = Off)
  BY <1>1 DEF Told
<1> HIDE DEF idle, wanted, says
<1>3. /\ service' = IF wanted THEN says ELSE Off
      /\ running' <=> wanted
      /\ wanted => lastSummary' = says
  BY <1>1, <1>2 DEF Told, Sync, TurnsOff, keeper
<1> QED BY <1>1, <1>3 DEF idle, wanted, says

LEMMA ToldOn ==
  ASSUME Told, [KeeperNext]_keeperVars PROVE Told'
<1>1. CASE \/ TurnStarts \/ Aside \/ TurnEnds \/ JobStarts
           \/ JobEnds \/ Mirrors \/ PressStop \/ UNCHANGED keeperVars
  <2>1. UNCHANGED <<service, running, lastSummary, userStopped, pinned>>
    BY <1>1 DEF TurnStarts, Aside, TurnEnds, JobStarts,
       JobEnds, Mirrors, PressStop, keeperVars, keeper
  <2> QED BY <2>1 DEF Told
<1>2. CASE SyncKeepAlive
  <2>1. Awake # Off
    BY DEF Awake, Off, Nothing
  <2>2. Off = Nothing
    BY DEF Off
  <2> QED BY <1>2, <2>1, <2>2, PollLeaves DEF Told
<1>3. CASE StopDelivered
  BY <1>3 DEF Told, StopDelivered
<1>4. CASE SaveSwitch
  BY <1>4 DEF Told, SaveSwitch, keeper
<1> QED BY <1>1, <1>2, <1>3, <1>4, Zenon DEF KeeperNext

(* When the mirror has nothing left to take BUSY is right, whatever the    *)
(* bus has lost meanwhile (agent_task.rs:28-63), but for the start of the  *)
(* turn that runs.                                                         *)
LEMMA CaughtUp ==
  ASSUME Follows, backlog = <<>>
  PROVE  (busy => turn) /\ (MaxInside < Capacity => busy = turn)
<1>1. Len(backlog) = 0
  BY EmptySeq
<1>2. Near => busy = turn
  BY <1>1 DEF Follows, LastNews
<1> QED BY <1>2 DEF Near, Follows, Counted

LEMMA PollAgrees ==
  ASSUME Follows, Told, StopHolds, SyncKeepAlive, backlog = <<>>, turn => busy
  PROVE  Agrees'
<1> DEFINE working == turn \/ jobs > 0
<1>1. busy = turn
  BY CaughtUp DEF Follows, Counted
<1>2. Summary = IF working THEN <<turn, jobs>> ELSE Nothing
  BY <1>1 DEF Summary
<1>3. <<turn, jobs>> # Nothing /\ Awake # Nothing /\ Off = Nothing
  BY DEF Awake, Off, Nothing
<1>4. UNCHANGED <<turn, jobs, pinned>>
  BY DEF SyncKeepAlive, work
<1>5. /\ userStopped' <=> userStopped /\ working
      /\ service' = IF (working \/ pinned) /\ ~ userStopped'
                    THEN IF working THEN <<turn, jobs>> ELSE Awake
                    ELSE Off
  BY <1>2, <1>3, PollLeaves
<1>6. userStopped' => unwanted' \in {"working", "late", "asked"}
  <2>1. userStopped' => Summary # Nothing
    BY DEF SyncKeepAlive
  <2>2. Summary # Nothing /\ userStopped => unwanted' = unwanted
    BY DEF SyncKeepAlive, Looks
  <2> QED BY <1>5, <2>1, <2>2 DEF StopHolds, Fates
<1> QED BY <1>3, <1>4, <1>5, <1>6 DEF Agrees

(* The mirror may fall behind and lose events to a full bus; when it has   *)
(* taken what is left, BUSY is set only while a turn runs                  *)
(* (agent_task.rs:28-63), so that no event lost to the bus keeps the       *)
(* service up, and the message box closed, for a turn that has ended.      *)
(* Unless it missed the start of that turn and everything up to the last   *)
(* Capacity of its events, BUSY is set while one runs, too.                *)
THEOREM TheMirrorFollows ==
  KeeperSpec => /\ [](backlog = <<>> => (busy => turn))
                /\ [](backlog = <<>> /\ MaxInside < Capacity => busy = turn)
<1>1. KeeperInit => Follows
  BY InitFollows
<1>2. Follows /\ [KeeperNext]_keeperVars => Follows'
  BY FollowsOn
<1>3. Follows => /\ backlog = <<>> => (busy => turn)
                 /\ backlog = <<>> /\ MaxInside < Capacity => busy = turn
  BY CaughtUp
<1> QED BY <1>1, <1>2, <1>3, PTL DEF KeeperSpec

(* Once the mirror has caught up one poll is enough: the service is there  *)
(* exactly if something runs or the user wants it and no Stop is kept, and *)
(* says what runs (MainActivity.kt:124-138); a Stop is kept only while     *)
(* something runs, and never for work that began after a poll saw rest     *)
(* (KeepAliveService.kt:147): for what it was about, for what began before *)
(* the poll that would have seen its end, or until the end of the work in  *)
(* which the switch was turned on.  Unless the mirror missed the start of  *)
(* the turn that runs.  What is left to fairness is that a poll comes.     *)
THEOREM OnePollSettles ==
  KeeperSpec =>
    [][SyncKeepAlive /\ backlog = <<>> /\ (turn => busy) => Agrees']_keeperVars
<1>1. KeeperInit => Follows /\ Told /\ StopHolds
  BY InitFollows DEF KeeperInit, Told, StopHolds, Fates
<1>2. Follows /\ Told /\ StopHolds /\ [KeeperNext]_keeperVars =>
        Follows' /\ Told' /\ StopHolds'
  BY FollowsOn, ToldOn, StopHoldsOn
<1>3. Follows /\ Told /\ StopHolds /\ [KeeperNext]_keeperVars =>
        [SyncKeepAlive /\ backlog = <<>> /\ (turn => busy) => Agrees']_keeperVars
  BY PollAgrees
<1> QED BY <1>1, <1>2, <1>3, PTL DEF KeeperSpec

(* What stands on the bus, and what can be said in a summary.              *)
LEMMA BusTyped ==
  ASSUME KeeperTypeOK
  PROVE  /\ \A event \in {"started", "ended", "failed", "other"} : Emit(event) =>
              /\ backlog' \in Seq({"started", "ended", "failed", "other"})
              /\ Len(backlog') <= Capacity
         /\ backlog # <<>> /\ backlog' = Tail(backlog) =>
              /\ backlog' \in Seq({"started", "ended", "failed", "other"})
              /\ Len(backlog') <= Capacity
         /\ Summary \in (BOOLEAN \X (0 .. MaxJobs)) \cup {Nothing}
         /\ Awake \in (BOOLEAN \X (0 .. MaxJobs))
<1> DEFINE Events == {"started", "ended", "failed", "other"}
<1>1. backlog \in Seq(Events) /\ Len(backlog) \in Nat /\ Len(backlog) <= Capacity
      /\ Capacity \in Nat
  BY LenProperties, Bounds DEF KeeperTypeOK
<1>2. ASSUME NEW event \in Events, Emit(event)
      PROVE  backlog' \in Seq(Events) /\ Len(backlog') <= Capacity
  <2> HIDE DEF Events
  <2> DEFINE all == Append(backlog, event)
  <2>1. backlog' = IF Len(all) > Capacity THEN Tail(all) ELSE all
    BY <1>2 DEF Emit
  <2>2. all \in Seq(Events) /\ all # <<>> /\ Len(all) = Len(backlog) + 1
    BY <1>1, AppendProperties
  <2> HIDE DEF all
  <2>3. Tail(all) \in Seq(Events) /\ Len(Tail(all)) = Len(all) - 1
    BY <2>2, HeadTailProperties
  <2> QED BY <1>1, <2>1, <2>2, <2>3
<1>3. ASSUME backlog # <<>>, backlog' = Tail(backlog)
      PROVE  backlog' \in Seq(Events) /\ Len(backlog') <= Capacity
  <2> HIDE DEF Events
  <2>1. Tail(backlog) \in Seq(Events) /\ Len(Tail(backlog)) = Len(backlog) - 1
    BY <1>1, <1>3, HeadTailProperties
  <2> QED BY <1>1, <1>3, <2>1
<1>4. Summary \in (BOOLEAN \X (0 .. MaxJobs)) \cup {Nothing}
  <2>1. busy \in BOOLEAN /\ jobs \in 0 .. MaxJobs
    BY Bounds DEF KeeperTypeOK
  <2> QED BY <2>1 DEF Summary
<1>5. Awake \in (BOOLEAN \X (0 .. MaxJobs))
  <2>1. 0 \in 0 .. MaxJobs
    BY Bounds
  <2>2. FALSE \in BOOLEAN
    OBVIOUS
  <2> QED BY <2>1, <2>2, Zenon DEF Awake
<1> QED BY <1>2, <1>3, <1>4, <1>5

LEMMA KeeperTypesOn ==
  ASSUME KeeperTypeOK, [KeeperNext]_keeperVars
  PROVE  KeeperTypeOK'
<1>1. unwanted' \in {"no", "working", "idle", "seen", "late", "asked"}
  BY DEF KeeperTypeOK, KeeperNext, TurnStarts, Aside, TurnEnds,
     JobStarts, JobEnds, Mirrors, SyncKeepAlive, StopDelivered,
     PressStop, SaveSwitch, Watch, Looks, keeperVars
<1>2. UNCHANGED keeperVars => KeeperTypeOK'
  BY DEF keeperVars, work, keeper, KeeperTypeOK, Asides, Nothing
<1> USE Bounds DEF KeeperTypeOK, Asides, work, keeper
<1>3. CASE TurnStarts \/ TurnEnds \/ Aside
  <2>1. /\ backlog' \in Seq({"started", "ended", "failed", "other"})
        /\ Len(backlog') <= Capacity
    BY <1>3, BusTyped DEF TurnStarts, TurnEnds, Aside
  <2>2. turns' \in 0 .. MaxTurns /\ aside' \in 0 .. Asides'
    BY <1>3 DEF TurnStarts, TurnEnds, Aside, Asides
  <2>3. turn' \in BOOLEAN
    BY <1>3, Zenon DEF TurnStarts, TurnEnds, Aside
  <2>4. UNCHANGED <<jobs, started, busy, service, running, lastSummary, userStopped, pinned,
                    pressed, choices>>
    BY <1>3 DEF TurnStarts, TurnEnds, Aside
  <2> QED BY <1>1, <2>1, <2>2, <2>3, <2>4 DEF Nothing
<1>4. CASE JobStarts \/ JobEnds
  <2>1. jobs' \in 0 .. started' /\ started' \in 0 .. MaxJobs
    BY <1>4 DEF JobStarts, JobEnds
  <2>2. UNCHANGED <<turn, turns, aside, backlog, busy, service, running, lastSummary,
                    userStopped, pinned, pressed, choices>>
    BY <1>4 DEF JobStarts, JobEnds
  <2> QED BY <1>1, <2>1, <2>2 DEF Nothing
<1>5. CASE Mirrors
  <2>1. /\ backlog' \in Seq({"started", "ended", "failed", "other"})
        /\ Len(backlog') <= Capacity
    BY <1>5, BusTyped DEF Mirrors
  <2>2. busy' \in BOOLEAN
    BY <1>5 DEF Mirrors
  <2>3. UNCHANGED <<turn, jobs, turns, started, aside, service, running, lastSummary,
                    userStopped, pinned, pressed, choices>>
    BY <1>5 DEF Mirrors
  <2> QED BY <1>1, <2>1, <2>2, <2>3 DEF Nothing
<1>6. CASE SyncKeepAlive
  <2>1. userStopped' \in BOOLEAN
    BY <1>6 DEF SyncKeepAlive
  <2>2. PICK wanted \in BOOLEAN, summary \in BOOLEAN \X (0 .. MaxJobs) :
          Sync(wanted, summary)
    BY <1>6, BusTyped DEF SyncKeepAlive
  <2>3. /\ service' \in {service, summary, Off}
        /\ lastSummary' \in {lastSummary, summary, Nothing}
    BY <2>2 DEF Sync, TurnsOff
  <2>4. running' \in BOOLEAN
    BY <2>2 DEF Sync, TurnsOff
  <2>5. UNCHANGED <<turn, jobs, turns, started, aside, backlog, busy, pinned, pressed, choices>>
    BY <1>6 DEF SyncKeepAlive
  <2> QED BY <1>1, <2>1, <2>3, <2>4, <2>5 DEF Off, Nothing
<1>7. CASE StopDelivered
  <2>1. pressed' \in BOOLEAN /\ pinned' \in BOOLEAN /\ userStopped' \in BOOLEAN
    BY <1>7, Zenon DEF StopDelivered
  <2>2. service' = Nothing
    BY <1>7 DEF StopDelivered, Off
  <2>3. UNCHANGED <<turn, jobs, turns, started, aside, backlog, busy, running, lastSummary,
                    choices>>
    BY <1>7 DEF StopDelivered
  <2> QED BY <1>1, <2>1, <2>2, <2>3 DEF Nothing
<1>8. CASE PressStop \/ SaveSwitch
  <2>1. choices' \in 0 .. MaxChoices
    BY <1>8 DEF PressStop, SaveSwitch
  <2>2. UNCHANGED <<turn, jobs, turns, started, aside, backlog, busy, service, running,
                    lastSummary, userStopped>>
    BY <1>8 DEF PressStop, SaveSwitch
  <2>3. pressed' \in BOOLEAN /\ pinned' \in BOOLEAN
    <3>1. pressed \in BOOLEAN /\ pinned \in BOOLEAN
      OBVIOUS
    <3>2. CASE PressStop
      <4>1. pressed' = TRUE /\ pinned' = pinned
        BY <3>2 DEF PressStop
      <4> QED BY <3>1, <4>1, Zenon
    <3>3. CASE SaveSwitch
      <4>1. pressed' = pressed /\ pinned' \in BOOLEAN
        BY <3>3, Zenon DEF SaveSwitch
      <4> QED BY <3>1, <4>1, Zenon
    <3> QED BY <1>8, <3>2, <3>3
  <2> QED BY <1>1, <2>1, <2>2, <2>3 DEF Nothing
<1> QED BY <1>2, <1>3, <1>4, <1>5, <1>6, <1>7, <1>8, Zenon DEF KeeperNext

(* The count of jobs never passes the jobs started or falls below zero,    *)
(* the bus never holds more than it can, and the notification never says   *)
(* anything but what a summary can say (agent_task.rs, MainActivity.kt).   *)
THEOREM KeeperTypeCorrect == KeeperSpec => []KeeperTypeOK
<1>1. KeeperInit => KeeperTypeOK
  <2> SUFFICES ASSUME KeeperInit PROVE KeeperTypeOK
    OBVIOUS
  <2>1. backlog \in Seq({"started", "ended", "failed", "other"}) /\ Len(backlog) = 0
    BY EmptySeq DEF KeeperInit
  <2>2. /\ turn \in BOOLEAN /\ busy \in BOOLEAN /\ running \in BOOLEAN
        /\ userStopped \in BOOLEAN /\ pinned \in BOOLEAN /\ pressed \in BOOLEAN
    BY Zenon DEF KeeperInit
  <2>3. /\ jobs \in 0 .. started /\ started \in 0 .. MaxJobs /\ Len(backlog) <= Capacity
        /\ turns \in 0 .. MaxTurns /\ aside \in 0 .. Asides /\ choices \in 0 .. MaxChoices
    BY <2>1, Bounds DEF KeeperInit, Asides
  <2> QED BY <2>1, <2>2, <2>3 DEF KeeperInit, KeeperTypeOK, Off, Nothing
<1>2. KeeperTypeOK /\ [KeeperNext]_keeperVars => KeeperTypeOK'
  BY KeeperTypesOn
<1> QED BY <1>1, <1>2, PTL DEF KeeperSpec
=============================================================================
