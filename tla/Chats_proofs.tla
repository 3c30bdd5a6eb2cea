----------------------------- MODULE Chats_proofs -----------------------------
(***************************************************************************)
(* What Chats guarantees for any number of prompts, switches, deletions    *)
(* and kills.                                                              *)
(*                                                                         *)
(* Prompts are numbered in the order in which they were sent, and that     *)
(* order is what keeps chats apart: those that wait are newer than all     *)
(* that any chat holds, on the disk or in memory.                          *)
(***************************************************************************)
EXTENDS Chats, SequenceTheorems, TLAPS

Commands == [kind : {"prompt", "open", "new"}, what : Nat, press : Nat]

Shapes ==
  /\ used \in Nat /\ clock \in Nat
  /\ asked \in 0 .. MaxPrompts /\ switches \in Nat /\ deletes \in Nat /\ crashes \in Nat
  /\ Stored \subseteq Given
  /\ files \in [Stored -> [turns : Seq(Prompts), covered : Nat, at : Nat]]
  /\ \A c \in Stored : files[c].at <= clock
  /\ legacy \in {NoChat, 1} /\ legacy <= used
  /\ session \in [id : Nat, turns : Seq(Prompts), covered : Nat]
  /\ IF Alive THEN session.id \in Given ELSE session = Nobody
  /\ pc \in Places
  /\ window \in {"off", "adopting", "adopted", "restoring", "open"}
  /\ pc = "off" <=> window = "off"
  /\ queue \in Seq(Commands)
  /\ pc \in {"switching", "entering"} => queue # <<>>
  /\ failed \in BOOLEAN /\ readopted \in BOOLEAN /\ unclear \in BOOLEAN
  /\ deletedOpen \subseteq deleted /\ deleted \subseteq Given
  /\ lastOpen \in Given \cup {NoChat} /\ restored \in Given \cup {NoChat}
  /\ pressed \in Nat /\ entered \in Nat

(* Until the window is open nobody sends anything.                         *)
Opening ==
  /\ window # "open" => queue = <<>> /\ restored = NoChat /\ pc \in {"off", "booting", "idle"}
  /\ window = "adopted" => legacy \in Stored

Untouched == asked + switches + deletes = 0

(* Before the user has done anything there is the old file at most.        *)
Early ==
  Untouched => /\ queue = <<>> /\ deleted = {} /\ Stored \subseteq {1}
               /\ pc \in {"off", "booting", "idle"}
               /\ session.covered = 0 /\ \A c \in Stored : files[c].covered = 0

-----------------------------------------------------------------------------
Rising(t)   == \A i, j \in DOMAIN t : i < j => t[i] < t[j]
Below(t, p) == \A i \in DOMAIN t : t[i] < p
Apart(t, u) == \A i \in DOMAIN t, j \in DOMAIN u : t[i] # u[j]

IsPrompt(i) == queue[i].kind = "prompt"

(* Prompts wait in the order they were sent in.                            *)
Waiting ==
  \A i \in DOMAIN queue : IsPrompt(i) =>
    /\ queue[i].what \in 1 .. asked
    /\ \A j \in DOMAIN queue : i < j /\ IsPrompt(j) => queue[i].what < queue[j].what

(* What chat c may hold: prompts in order, older than those that wait; and *)
(* the old file's prompt if it is the old file's chat, and only then.      *)
Holds(c, t) ==
  /\ Rising(t) /\ Below(t, asked + 1)
  /\ \A i \in DOMAIN queue : IsPrompt(i) => Below(t, queue[i].what)
  /\ \A i \in DOMAIN t : t[i] = LegacyPrompt => c = 1
  /\ c = 1 /\ legacy # NoChat => t # <<>> /\ t[1] = LegacyPrompt

Held ==
  /\ \A c \in Stored : Holds(c, TurnsOf(c))
  /\ Holds(session.id, session.turns)

Separate ==
  /\ \A c, d \in Stored : c # d => Apart(TurnsOf(c), TurnsOf(d))
  /\ \A c \in Stored \ {session.id} : Apart(TurnsOf(c), session.turns)

-----------------------------------------------------------------------------
(* The session never falls behind its file.                                *)
Ahead ==
  Alive /\ ~readopted /\ session.id \in Stored \ deleted =>
    /\ IsPrefix(TurnsOf(session.id), session.turns)
    /\ files[session.id].covered <= session.covered

(* Between turns the session is on the disk; during one, what came before. *)
Written ==
  Alive /\ ~failed /\ ~readopted /\ session.turns # <<>> /\ session.id \notin deleted =>
    IF pc = "turn"
    THEN LET before == SubSeq(session.turns, 1, Len(session.turns) - 1) IN
           IF session.id \in Stored THEN TurnsOf(session.id) = before ELSE before = <<>>
    ELSE /\ session.id \in Stored
         /\ TurnsOf(session.id) = session.turns
         /\ files[session.id].covered = session.covered

(* Presses are served in the order they came in: a command waits for those *)
(* before it, and a switch that was entered is not counted again.          *)
Served == IF pc = "entering" THEN entered - 1 ELSE entered

Before(i) == IF i > 1 THEN queue[i - 1].press ELSE Served

Line ==
  /\ pc \in {"switching", "entering"} => queue # <<>> /\ Head(queue).kind # "prompt"
  /\ \A i \in DOMAIN queue :
       queue[i].press = IF IsPrompt(i) THEN Before(i) ELSE Before(i) + 1
  /\ pressed = Before(Len(queue) + 1)

Resurrected ==
  ~readopted =>
    /\ deleted \cap Stored \subseteq deletedOpen
    /\ session.id \in deleted => session.id \in deletedOpen

(* The chat last opened is the one the worker has, and its file the newest.*)
Latest ==
  /\ Alive /\ pc # "entering" => session.id = lastOpen
  /\ ~failed /\ ~readopted /\ lastOpen \in Stored =>
       \A c \in Stored : files[c].at <= files[lastOpen].at

(* What the window restores or has restored is what the worker resumes.    *)
Shown ==
  ~readopted =>
    /\ Alive /\ ~unclear /\ window # "open" => MostRecent = {session.id}
    /\ pc = "booting" /\ restored \notin deleted \cup {NoChat} => restored \in MostRecent
    /\ Alive /\ ~unclear /\ restored \notin deleted \cup {NoChat} =>
         session.id = restored \/ pc = "entering"

IInv ==
  /\ Shapes /\ Opening /\ Early
  /\ Waiting /\ Held /\ Separate /\ Line
  /\ Ahead /\ Written /\ Resurrected /\ Latest /\ Shown

-----------------------------------------------------------------------------
(***************************************************************************)
(* What the two kinds of writes do to the directory.                       *)
(***************************************************************************)
LEMMA SessionSaved ==
  ASSUME Shapes, Saved(session)
  PROVE  /\ Stored' = Stored \cup {session.id}
         /\ files' \in [Stored' -> [turns : Seq(Prompts), covered : Nat, at : Nat]]
         /\ files'[session.id].turns = session.turns /\ files'[session.id].at = clock'
         /\ files'[session.id].covered = session.covered
         /\ \A c \in Stored \ {session.id} : files'[c] = files[c]
         /\ clock' \in Nat /\ clock <= clock'
         /\ \A c \in Stored' : files'[c].at <= clock'
         /\ failed' = failed
<1>1. session \in [id : Nat, turns : Seq(Prompts), covered : Nat] /\ clock \in Nat
  BY DEF Shapes
<1>2. clock' \in Nat /\ clock <= clock' /\ failed' = failed
  BY <1>1 DEF Saved
<1>3. files' = [c \in Stored \cup {session.id} |->
                  IF c = session.id
                  THEN [turns |-> session.turns, covered |-> session.covered, at |-> clock']
                  ELSE files[c]]
  BY DEF Saved
<1>4. Stored' = Stored \cup {session.id}
  BY <1>3 DEF Stored
<1>5. files \in [Stored -> [turns : Seq(Prompts), covered : Nat, at : Nat]]
      /\ \A c \in Stored : files[c].at <= clock
  BY DEF Shapes
<1>6. files'[session.id]
         = [turns |-> session.turns, covered |-> session.covered, at |-> clock']
      /\ \A c \in Stored \ {session.id} : files'[c] = files[c]
  BY <1>3
<1>7. files' \in [Stored' -> [turns : Seq(Prompts), covered : Nat, at : Nat]]
  BY <1>1, <1>2, <1>3, <1>4, <1>5
<1>8. ASSUME NEW c \in Stored' PROVE files'[c].at <= clock'
  <2>1. CASE c = session.id
    BY <1>2, <1>6, <2>1
  <2>2. CASE c # session.id
    BY <1>1, <1>2, <1>4, <1>5, <1>6, <2>2
  <2> QED
    BY <2>1, <2>2
<1> QED
  BY <1>2, <1>4, <1>6, <1>7, <1>8

LEMMA LegacySaved ==
  ASSUME ChatsAssumption, Shapes, Saved(Older)
  PROVE  /\ Stored' = Stored \cup {legacy}
         /\ files' \in [Stored' -> [turns : Seq(Prompts), covered : Nat, at : Nat]]
         /\ files'[legacy].turns = <<LegacyPrompt>> /\ files'[legacy].at = clock'
         /\ files'[legacy].covered = 0
         /\ \A c \in Stored \ {legacy} : files'[c] = files[c]
         /\ clock' \in Nat /\ clock <= clock'
         /\ \A c \in Stored' : files'[c].at <= clock'
         /\ failed' = failed
<1>1. legacy \in Nat /\ clock \in Nat
  BY DEF Shapes, NoChat
<1>2. clock' \in Nat /\ clock <= clock' /\ failed' = failed
  BY <1>1 DEF Saved
<1>3. files' = [c \in Stored \cup {legacy} |->
                  IF c = legacy
                  THEN [turns |-> <<LegacyPrompt>>, covered |-> 0, at |-> clock']
                  ELSE files[c]]
  BY DEF Saved, Older
<1>4. Stored' = Stored \cup {legacy}
  BY <1>3 DEF Stored
<1>5. files \in [Stored -> [turns : Seq(Prompts), covered : Nat, at : Nat]]
      /\ \A c \in Stored : files[c].at <= clock
  BY DEF Shapes
<1>6. files'[legacy] = [turns |-> <<LegacyPrompt>>, covered |-> 0, at |-> clock']
      /\ \A c \in Stored \ {legacy} : files'[c] = files[c]
  BY <1>3
<1>7. LegacyPrompt \in Prompts
  BY DEF ChatsAssumption, LegacyPrompt, Prompts
<1>8. <<LegacyPrompt>> \in Seq(Prompts)
  BY <1>7
<1>9. files' \in [Stored' -> [turns : Seq(Prompts), covered : Nat, at : Nat]]
  BY <1>2, <1>3, <1>4, <1>5, <1>8
<1>10. ASSUME NEW c \in Stored' PROVE files'[c].at <= clock'
  <2>1. CASE c = legacy
    BY <1>2, <1>6, <2>1
  <2>2. CASE c # legacy
    BY <1>1, <1>2, <1>4, <1>5, <1>6, <2>2
  <2> QED
    BY <2>1, <2>2
<1> QED
  BY <1>2, <1>4, <1>6, <1>9, <1>10

LEMMA Appended ==
  ASSUME NEW S, NEW q \in Seq(S), NEW x \in S
  PROVE  /\ Append(q, x) \in Seq(S) /\ Append(q, x) # <<>>
         /\ Len(q) \in Nat /\ DOMAIN q = 1 .. Len(q) /\ DOMAIN Append(q, x) = 1 .. Len(q) + 1
         /\ \A i \in DOMAIN q : Append(q, x)[i] = q[i]
         /\ Append(q, x)[Len(q) + 1] = x
<1>1. Append(q, x) \in Seq(S) /\ Append(q, x) # <<>>
  BY AppendProperties
<1> QED
  BY <1>1, AppendProperties, LenProperties

(* A compaction keeps the chat and its prompts.                            *)
LEMMA Summarized ==
  ASSUME Shapes, Summarize
  PROVE  /\ session' \in [id : Nat, turns : Seq(Prompts), covered : Nat]
         /\ session'.id = session.id /\ session'.turns = session.turns
         /\ session.covered < session'.covered
         /\ pc = "turn"
<1>1. session \in [id : Nat, turns : Seq(Prompts), covered : Nat]
  BY DEF Shapes
<1>2. Len(session.turns) \in Nat
  BY <1>1
<1>3. PICK n \in session.covered + 1 .. Len(session.turns) - 1 :
        session' = [session EXCEPT !.covered = n]
  BY DEF Summarize
<1>4. n \in Nat /\ session.covered < n
  BY <1>1, <1>2, <1>3
<1> QED
  BY <1>1, <1>3, <1>4 DEF Summarize

(* What is at the head of the queue, and what is left behind it.           *)
LEMMA Received ==
  ASSUME Shapes, queue # <<>>
  PROVE  /\ Head(queue) \in Commands /\ Head(queue) = queue[1] /\ 1 \in DOMAIN queue
         /\ Tail(queue) \in Seq(Commands)
         /\ \A i \in DOMAIN Tail(queue) :
              i + 1 \in DOMAIN queue /\ i \in Nat /\ i >= 1 /\ Tail(queue)[i] = queue[i + 1]
<1>1. queue \in Seq(Commands) /\ queue # <<>>
  BY DEF Shapes
<1> QED
  BY <1>1

-----------------------------------------------------------------------------
(***************************************************************************)
(* Types.                                                                  *)
(***************************************************************************)
LEMMA ShapesStep ==
  ASSUME ChatsAssumption, Shapes, Waiting, [Next]_vars
  PROVE  Shapes'
<1> DEFINE Numbers ==
             /\ used \in Nat /\ clock \in Nat
             /\ asked \in 0 .. MaxPrompts /\ switches \in Nat /\ deletes \in Nat /\ crashes \in Nat
             /\ legacy \in {NoChat, 1} /\ legacy <= used
             /\ failed \in BOOLEAN /\ readopted \in BOOLEAN /\ unclear \in BOOLEAN
             /\ lastOpen \in Given \cup {NoChat} /\ restored \in Given \cup {NoChat}
             /\ pressed \in Nat /\ entered \in Nat
           Directory ==
             /\ Stored \subseteq Given
             /\ files \in [Stored -> [turns : Seq(Prompts), covered : Nat, at : Nat]]
             /\ \A c \in Stored : files[c].at <= clock
             /\ deletedOpen \subseteq deleted /\ deleted \subseteq Given
           Control ==
             /\ session \in [id : Nat, turns : Seq(Prompts), covered : Nat]
             /\ IF Alive THEN session.id \in Given ELSE session = Nobody
             /\ pc \in Places
             /\ window \in {"off", "adopting", "adopted", "restoring", "open"}
             /\ pc = "off" <=> window = "off"
             /\ queue \in Seq(Commands)
             /\ pc \in {"switching", "entering"} => queue # <<>>
<1>p. Numbers' /\ Directory' /\ Control' => Shapes'
  BY DEF Shapes
<1>q. Numbers /\ Directory /\ Control
  BY DEF Shapes
<1> HIDE DEF Numbers, Directory, Control
<1> USE DEF NoChat, Alive, Places, Given, Stored, bounds, observed, unsaved, order
<1>0. CASE UNCHANGED vars
  BY <1>0 DEF Shapes, vars
<1>1. CASE Launch
  BY <1>1 DEF Launch, Shapes
<1>2. CASE Boot
  <2>1. files \in [Stored -> [turns : Seq(Prompts), covered : Nat, at : Nat]] /\ Stored \subseteq Given /\ used \in Nat
    BY DEF Shapes
  <2>2. /\ session' \in [id : Nat, turns : Seq(Prompts), covered : Nat]
        /\ used' \in Nat /\ used' >= used /\ session'.id \in 1 .. used'
    <3>1. CASE MostRecent # {}
      <4>1. PICK c \in MostRecent : session' = Loaded(c) /\ used' = used
        BY <1>2, <3>1 DEF Boot
      <4>2. c \in Stored
        BY DEF MostRecent
      <4> QED
        BY <2>1, <4>1, <4>2 DEF TurnsOf, Loaded
    <3>2. CASE MostRecent = {}
      <4>1. used' = used + 1 /\ session' = [id |-> used + 1, turns |-> <<>>, covered |-> 0]
        BY <1>2, <3>2 DEF Boot, NewSession
      <4> QED
        BY <2>1, <4>1
    <3> QED
      BY <3>1, <3>2
  <2>3. unclear' \in BOOLEAN
    BY <1>2 DEF Boot
  <2>4. /\ pc = "booting" /\ pc' = "idle" /\ lastOpen' = session'.id
        /\ UNCHANGED <<files, legacy, clock, window, queue, bounds, failed, readopted,
                        deleted, deletedOpen, restored, order>>
    BY <1>2 DEF Boot
  <2>5. Given \subseteq Given'
    BY <2>1, <2>2
  <2> QED
    <3>11. Numbers'
      BY <1>q, <2>2, <2>3, <2>4 DEF Numbers
    <3>12. Directory'
      BY <1>q, <2>4, <2>5 DEF Directory
    <3>13. Control'
      BY <1>q, <2>2, <2>3, <2>4 DEF Control
    <3> QED
      BY <1>p, <3>11, <3>12, <3>13
<1>3. CASE Adopt
  <2>1. /\ UNCHANGED <<legacy, session, pc, queue, used, bounds, unclear, deleted, deletedOpen,
                 lastOpen, restored, order>>
        /\ readopted' \in BOOLEAN /\ window = "adopting"
        /\ window' \in {"adopted", "restoring"}
    BY <1>3 DEF Adopt
  <2>2. CASE Saved(Older) /\ legacy # NoChat
    <3>1. legacy = 1 /\ legacy \in 1 .. used
      BY <2>2 DEF Shapes
    <3>2. /\ DOMAIN files' = DOMAIN files \cup {legacy}
          /\ files' \in [DOMAIN files' -> [turns : Seq(Prompts), covered : Nat, at : Nat]]
          /\ clock' \in Nat
          /\ \A c \in DOMAIN files' : files'[c].at <= clock'
          /\ failed' = failed
      BY <2>2, LegacySaved
    <3> QED
      BY <2>1, <3>1, <3>2 DEF Shapes
  <2>3. CASE UNCHANGED <<files, clock>> /\ failed' \in BOOLEAN
    BY <2>1, <2>3 DEF Shapes
  <2> QED
    BY <1>3, <2>2, <2>3 DEF Adopt, SaveFails, Shapes
<1>4. CASE AdoptRemoves
  BY <1>4 DEF AdoptRemoves, Shapes
<1>5. CASE Restore
  <2>1. restored' \in Stored \cup {NoChat}
    BY <1>5 DEF Restore, MostRecent
  <2> QED
    BY <1>5, <2>1 DEF Restore, Shapes
<1>6. CASE SetupFails
  BY <1>6, Received DEF SetupFails, Receives, Shapes
<1>7. CASE TurnStarts
  <2>1. /\ queue # <<>> /\ queue' = Tail(queue) /\ pc = "idle" /\ pc' = "turn"
        /\ Head(queue).kind = "prompt"
        /\ session' = [session EXCEPT !.turns = Append(@, Head(queue).what)]
        /\ UNCHANGED <<window, files, legacy, clock, used, bounds, observed>>
    BY <1>7 DEF TurnStarts, Receives
  <2>2. Head(queue).what \in Prompts /\ queue' \in Seq(Commands)
    <3>1. 1 \in DOMAIN queue /\ queue[1] = Head(queue) /\ queue' \in Seq(Commands)
      BY <2>1, Received
    <3>2. Head(queue).what \in 1 .. asked /\ asked \in 0 .. MaxPrompts
      BY <2>1, <3>1 DEF Waiting, IsPrompt, Shapes
    <3>3. MaxPrompts \in Nat
      BY DEF ChatsAssumption
    <3> QED
      BY <3>1, <3>2, <3>3 DEF Prompts, LegacyPrompt
  <2>3. session' \in [id : Nat, turns : Seq(Prompts), covered : Nat] /\ session'.id = session.id
    <3>1. session \in [id : Nat, turns : Seq(Prompts), covered : Nat]
      BY DEF Shapes
    <3>2. Append(session.turns, Head(queue).what) \in Seq(Prompts)
      BY <2>2, <3>1, Appended
    <3> QED
      BY <2>1, <3>1, <3>2
  <2> QED
    BY <2>1, <2>2, <2>3 DEF Shapes
<1>8. CASE Summarize
  <2>1. /\ session' \in [id : Nat, turns : Seq(Prompts), covered : Nat]
        /\ session'.id = session.id
    BY <1>8, Summarized
  <2> QED
    BY <1>8, <2>1 DEF Summarize, Shapes
<1>9. CASE TurnSaved
  BY <1>9, SessionSaved DEF TurnSaved, Save, SaveFails, Shapes
<1>10. CASE Leave
  BY <1>10, SessionSaved DEF Leave, Receives, Save, SaveFails, Shapes
<1>11. CASE Switch
  <2>1. files \in [Stored -> [turns : Seq(Prompts), covered : Nat, at : Nat]] /\ Stored \subseteq Given /\ used \in Nat
    BY DEF Shapes
  <2>2. /\ session' \in [id : Nat, turns : Seq(Prompts), covered : Nat]
        /\ used' \in Nat /\ used' >= used /\ session'.id \in 1 .. used'
    <3>1. CASE Head(queue).what \in Stored
      <4>1. session' = [id |-> Head(queue).what, turns |-> files[Head(queue).what].turns,
                        covered |-> files[Head(queue).what].covered]
            /\ used' = used
        BY <1>11, <3>1 DEF Switch, TurnsOf, Loaded
      <4> QED
        BY <2>1, <3>1, <4>1
    <3>2. CASE Head(queue).what \notin Stored
      <4>1. used' = used + 1 /\ session' = [id |-> used + 1, turns |-> <<>>, covered |-> 0]
        BY <1>11, <3>2 DEF Switch, NewSession
      <4> QED
        BY <2>1, <4>1
    <3> QED
      BY <3>1, <3>2
  <2>3. /\ pc = "switching" /\ pc' = "entering" /\ entered' = entered + 1
        /\ UNCHANGED <<window, files, legacy, clock, queue, bounds, failed, readopted, unclear,
                        deleted, deletedOpen, lastOpen, restored, pressed>>
    BY <1>11 DEF Switch
  <2>4. Given \subseteq Given'
    BY <2>1, <2>2
  <2> QED
    <3>11. Numbers'
      <4>1. entered' \in Nat /\ used' \in Nat /\ Given \subseteq Given'
        BY <1>q, <2>2, <2>3, <2>4 DEF Numbers
      <4>2. legacy <= used' /\ legacy' = legacy
        BY <1>q, <2>1, <2>2, <2>3 DEF Numbers
      <4> QED
        BY <1>q, <2>3, <4>1, <4>2 DEF Numbers
    <3>12. Directory'
      BY <1>q, <2>1, <2>2, <2>3, <2>4 DEF Directory
    <3>13. Control'
      BY <1>q, <2>1, <2>2, <2>3, <2>4 DEF Control
    <3> QED
      BY <1>p, <3>11, <3>12, <3>13
<1>12. CASE Enter
  BY <1>12, SessionSaved, Received DEF Enter, Save, SaveFails, Shapes
<1>13. CASE Send
  <2>1. /\ asked' = asked + 1 /\ asked < MaxPrompts /\ window = "open"
        /\ queue' = Append(queue, Prompt(asked + 1))
        /\ UNCHANGED <<files, legacy, clock, session, pc, window, used, switches,
                        deletes, crashes, observed>>
    BY <1>13 DEF Send
  <2>2. asked + 1 \in 0 .. MaxPrompts /\ Prompt(asked + 1) \in Commands
    <3>1. asked \in 0 .. MaxPrompts /\ MaxPrompts \in Nat /\ pressed \in Nat
      BY DEF Shapes, ChatsAssumption
    <3> QED
      BY <2>1, <3>1 DEF Prompt, Commands
  <2>3. queue' \in Seq(Commands) /\ queue' # <<>>
    <3>1. queue \in Seq(Commands)
      BY DEF Shapes
    <3> QED
      BY <2>1, <2>2, <3>1, Appended
  <2> QED
    BY <2>1, <2>2, <2>3 DEF Shapes
<1>14. CASE PressSwitch
  <2>1. PICK command \in {NewChat} \cup {Open(c) : c \in Stored} : queue' = Append(queue, command)
    BY <1>14 DEF PressSwitch
  <2>2. command \in Commands
    <3>1. used \in Nat /\ Stored \subseteq Given /\ pressed \in Nat
      BY <1>q DEF Numbers, Directory
    <3>2. Stored \subseteq Nat /\ pressed + 1 \in Nat
      BY <3>1
    <3> QED
      BY <2>1, <3>2 DEF NewChat, Open, Commands
  <2>3. queue' \in Seq(Commands) /\ queue' # <<>>
    <3>1. queue \in Seq(Commands)
      BY <1>q DEF Control
    <3> QED
      BY <2>1, <2>2, <3>1, Appended
  <2>4. /\ switches' = switches + 1 /\ window = "open" /\ pressed' = pressed + 1
        /\ UNCHANGED <<files, legacy, clock, session, pc, window, used, asked,
                        deletes, crashes, failed, readopted, unclear, deleted, deletedOpen,
                        lastOpen, restored, entered>>
    BY <1>14 DEF PressSwitch
  <2> QED
    <3>11. Numbers'
      BY <1>q, <2>3, <2>4 DEF Numbers
    <3>12. Directory'
      BY <1>q, <2>3, <2>4 DEF Directory
    <3>13. Control'
      BY <1>q, <2>3, <2>4 DEF Control
    <3> QED
      BY <1>p, <3>11, <3>12, <3>13
<1>15. ASSUME NEW c \in Stored, Delete(c) PROVE Shapes'
  <2>1. /\ deletes' = deletes + 1 /\ window = "open"
        /\ files' = [x \in Stored \ {c} |-> files[x]]
        /\ deleted' = deleted \cup {c}
        /\ deletedOpen' = deletedOpen \cup ({c} \cap {session.id})
        /\ UNCHANGED <<legacy, clock, session, pc, window, queue, used, asked,
                 switches, crashes, failed, readopted, unclear, lastOpen, restored, order>>
    BY <1>15 DEF Delete, Restrict
  <2> QED
    <3>11. Numbers'
      BY <1>q, <1>15, <2>1 DEF Numbers
    <3>12. Directory'
      BY <1>q, <1>15, <2>1 DEF Directory
    <3>13. Control'
      BY <1>q, <1>15, <2>1 DEF Control
    <3> QED
      BY <1>p, <3>11, <3>12, <3>13
<1>16. CASE Crash
  <2>1. Nobody \in [id : Nat, turns : Seq(Prompts), covered : Nat] /\ <<>> \in Seq(Commands)
    BY DEF Nobody
  <2>2. /\ crashes' = crashes + 1 /\ pc' = "off" /\ window' = "off" /\ session' = Nobody
        /\ queue' = <<>> /\ restored' = NoChat /\ unclear' = FALSE
        /\ pressed' = 0 /\ entered' = 0
        /\ UNCHANGED <<files, legacy, clock, used, asked, switches, deletes, failed,
                        readopted, deleted, deletedOpen, lastOpen>>
    BY <1>16 DEF Crash
  <2>3. session' \in [id : Nat, turns : Seq(Prompts), covered : Nat] /\ queue' \in Seq(Commands)
    BY <2>1, <2>2
  <2>4. IF Alive' THEN session'.id \in Given' ELSE session' = Nobody'
    BY <2>2 DEF Nobody
  <2>5. /\ Stored' = Stored /\ Given' = Given
        /\ \A c \in Stored' : files'[c].at <= clock'
    BY <2>2 DEF Shapes
  <2>6. /\ used' \in Nat /\ clock' \in Nat
        /\ asked' \in 0 .. MaxPrompts /\ switches' \in Nat /\ deletes' \in Nat /\ crashes' \in Nat
        /\ legacy' \in {NoChat, 1} /\ legacy' <= used'
        /\ lastOpen' \in Given' \cup {NoChat} /\ restored' \in Given' \cup {NoChat}
        /\ pressed' \in Nat /\ entered' \in Nat
    <3>1. pressed' \in Nat /\ entered' \in Nat
      BY <2>2
    <3> QED
      BY <1>q, <2>2, <2>5, <3>1 DEF Numbers
  <2>7. /\ failed' \in BOOLEAN /\ readopted' \in BOOLEAN /\ unclear' \in BOOLEAN
        /\ deletedOpen' \subseteq deleted' /\ deleted' \subseteq Given'
        /\ Stored' \subseteq Given'
        /\ files' \in [Stored' -> [turns : Seq(Prompts), covered : Nat, at : Nat]]
    BY <2>2, <2>5 DEF Shapes
  <2>8. /\ pc' \in Places
        /\ pc' = "off" <=> window' = "off"
        /\ window' \in {"off", "adopting", "adopted", "restoring", "open"}
        /\ pc' \in {"switching", "entering"} => queue' # <<>>
    BY <2>2
  <2> QED
    BY <2>3, <2>4, <2>5, <2>6, <2>7, <2>8 DEF Shapes
<1> QED
  BY <1>0, <1>1, <1>2, <1>3, <1>4, <1>5, <1>6, <1>7, <1>8, <1>9, <1>10, <1>11, <1>12,
     <1>13, <1>14, <1>15, <1>16 DEF Next, Worker, Window, User

-----------------------------------------------------------------------------
(***************************************************************************)
(* How a step may change the directory, the session and the queue.         *)
(***************************************************************************)
SavesSession ==
  /\ TurnSaved \/ Leave \/ Enter
  /\ Alive /\ pc \in {"idle", "turn", "entering"} /\ session' = session
  /\ Saved(session)
  /\ UNCHANGED <<legacy, used, window, asked, switches, deletes, readopted, unclear,
                 deleted, deletedOpen>>

Adopts ==
  /\ window = "adopting" /\ window' = "adopted"
  /\ legacy # NoChat /\ Saved(Older)
  /\ readopted' = (readopted \/ asked + switches + deletes > 0)
  /\ UNCHANGED <<legacy, session, pc, queue, used, bounds, unclear, deleted, deletedOpen,
                 lastOpen, restored, order>>

LEMMA DirectorySteps ==
  ASSUME Shapes, [Next]_vars
  PROVE  \/ UNCHANGED <<files, clock, deleted, deletedOpen>>
         \/ SavesSession
         \/ Adopts
         \/ \E c \in Stored : Delete(c)
<1> USE DEF bounds, observed, unsaved, order
<1>1. CASE UNCHANGED vars
  BY <1>1 DEF vars
<1>2. CASE Launch \/ Boot \/ AdoptRemoves \/ Restore
  BY <1>2 DEF Launch, Boot, AdoptRemoves, Restore
<1>3. CASE Adopt
  BY <1>3 DEF Adopt, Adopts, SaveFails
<1>4. CASE SetupFails \/ TurnStarts \/ Summarize \/ Switch
  BY <1>4 DEF SetupFails, TurnStarts, Summarize, Switch
<1>5. CASE TurnSaved \/ Leave \/ Enter
  BY <1>5 DEF TurnSaved, Leave, Enter, Receives, Save, SaveFails, SavesSession, Alive
<1>6. CASE Send \/ PressSwitch \/ Crash
  BY <1>6 DEF Send, PressSwitch, Crash
<1> QED
  BY <1>1, <1>2, <1>3, <1>4, <1>5, <1>6 DEF Next, Worker, Window, User

Loads ==
  /\ UNCHANGED <<files, clock, queue, asked, switches, deletes, legacy, readopted, deleted,
                 deletedOpen>>
  /\ <<pc, pc'>> \in {<<"booting", "idle">>, <<"switching", "entering">>}
  /\ \/ \E c \in Stored : session' = Loaded(c) /\ used' = used
     \/ NewSession

LEMMA SessionSteps ==
  ASSUME Shapes, [Next]_vars
  PROVE  \/ session' = session
         \/ session' = Nobody
         \/ Loads
         \/ TurnStarts
         \/ Summarize
<1> USE DEF bounds, observed, unsaved, order
<1>1. CASE UNCHANGED vars
  BY <1>1 DEF vars
<1>2. CASE Boot
  <2>1. /\ UNCHANGED <<files, clock, queue, asked, switches, deletes, legacy, readopted,
                       deleted, deletedOpen>>
        /\ pc = "booting" /\ pc' = "idle"
    BY <1>2 DEF Boot
  <2>2. \/ \E c \in Stored : session' = Loaded(c) /\ used' = used
        \/ NewSession
    BY <1>2 DEF Boot, MostRecent
  <2>3. Loads
    BY <2>1, <2>2 DEF Loads
  <2> QED
    BY <2>3
<1>3. CASE Switch
  BY <1>3 DEF Switch, Loads
<1>4. CASE Launch \/ Adopt \/ AdoptRemoves \/ Restore
  BY <1>4 DEF Launch, Adopt, AdoptRemoves, Restore
<1>5. CASE SetupFails \/ TurnSaved \/ Leave \/ Enter
  BY <1>5 DEF SetupFails, TurnSaved, Leave, Enter
<1>6. CASE Send \/ PressSwitch \/ Crash \/ \E c \in Stored : Delete(c)
  BY <1>6 DEF Send, PressSwitch, Crash, Delete
<1> QED
  BY <1>1, <1>2, <1>3, <1>4, <1>5, <1>6 DEF Next, Worker, Window, User

Presses == \E command \in Commands : command.kind # "prompt" /\ queue' = Append(queue, command)

LEMMA QueueSteps ==
  ASSUME Shapes, [Next]_vars
  PROVE  \/ queue' = queue /\ asked' = asked
         \/ queue' = <<>> /\ asked' = asked
         \/ queue # <<>> /\ queue' = Tail(queue) /\ asked' = asked
         \/ asked' = asked + 1 /\ queue' = Append(queue, Prompt(asked + 1))
         \/ Presses /\ asked' = asked
<1> USE DEF bounds, observed, unsaved, order
<1>1. CASE UNCHANGED vars
  BY <1>1 DEF vars
<1>2. CASE Launch \/ Boot \/ Adopt \/ AdoptRemoves \/ Restore \/ Crash
  BY <1>2 DEF Launch, Boot, Adopt, AdoptRemoves, Restore, Crash
<1>3. CASE SetupFails \/ TurnStarts
  BY <1>3 DEF SetupFails, TurnStarts, Receives
<1>4. CASE Summarize \/ TurnSaved \/ Leave \/ Switch
  BY <1>4 DEF Summarize, TurnSaved, Leave, Switch
<1>5. CASE Enter
  BY <1>5 DEF Enter, Shapes
<1>6. CASE Send \/ \E c \in Stored : Delete(c)
  BY <1>6 DEF Send, Delete
<1>7. CASE PressSwitch
  <2>1. PICK command \in {NewChat} \cup {Open(c) : c \in Stored} : queue' = Append(queue, command)
    BY <1>7 DEF PressSwitch
  <2>2. command \in Commands /\ command.kind # "prompt"
    <3>1. Stored \subseteq Nat /\ pressed \in Nat /\ pressed + 1 \in Nat
      BY DEF Shapes, Given
    <3> QED
      BY <2>1, <3>1 DEF NewChat, Open, Commands, NoChat
  <2> QED
    BY <1>7, <2>1, <2>2 DEF Presses, PressSwitch
<1> QED
  BY <1>1, <1>2, <1>3, <1>4, <1>5, <1>6, <1>7 DEF Next, Worker, Window, User

LEMMA LineStep ==
  ASSUME Shapes, Line, [Next]_vars
  PROVE  Line'
<1> USE DEF bounds, observed, unsaved, order
<1> DEFINE Taken == pc \in {"switching", "entering"} => queue # <<>> /\ Head(queue).kind # "prompt"
           InLine == /\ \A i \in DOMAIN queue :
                          queue[i].press = IF queue[i].kind = "prompt" THEN Before(i)
                                           ELSE Before(i) + 1
                     /\ pressed = Before(Len(queue) + 1)
<1>p. Taken' /\ InLine' => Line'
  BY DEF Line, IsPrompt
<1>q. Taken /\ InLine
  BY DEF Line, IsPrompt
<1>r. entered \in Nat /\ pressed \in Nat /\ queue \in Seq(Commands)
  BY DEF Shapes
<1>s. Len(queue) \in Nat /\ DOMAIN queue = 1 .. Len(queue) /\ \A i \in DOMAIN queue : queue[i] \in Commands
  BY <1>r
<1>1. ASSUME queue' = queue, pressed' = pressed, Served' = Served PROVE InLine'
  BY <1>1, <1>q DEF Before
<1>2. ASSUME queue # <<>>, queue' = Tail(queue), pressed' = pressed, Served' = queue[1].press
      PROVE  InLine'
  <2>1. /\ queue' \in Seq(Commands) /\ Len(queue') = Len(queue) - 1 /\ Len(queue) >= 1
        /\ DOMAIN queue' = 1 .. Len(queue) - 1
        /\ \A i \in 1 .. Len(queue) - 1 : queue'[i] = queue[i + 1]
    BY <1>2, <1>r
  <2>2. ASSUME NEW i \in 1 .. Len(queue) PROVE Before(i)' = Before(i + 1)
    <3>1. CASE i = 1
      BY <1>2, <3>1 DEF Before
    <3>2. CASE i > 1
      <4>1. i - 1 \in 1 .. Len(queue) - 1 /\ i + 1 > 1
        BY <1>s, <3>2
      <4>2. queue'[i - 1] = queue[i]
        BY <1>s, <2>1, <4>1
      <4> QED
        BY <3>2, <4>1, <4>2 DEF Before
    <3> QED
      BY <1>s, <3>1, <3>2
  <2>3. \A i \in DOMAIN queue' :
          queue'[i].press = IF queue'[i].kind = "prompt" THEN Before(i)' ELSE Before(i)' + 1
    BY <1>q, <1>s, <2>1, <2>2
  <2>4. pressed' = Before(Len(queue) + 1)
    BY <1>2, <1>q
  <2>5. Len(queue) = Len(queue') + 1 /\ Len(queue) \in 1 .. Len(queue)
    BY <1>s, <2>1
  <2> QED
    BY <2>2, <2>3, <2>4, <2>5
<1>3. ASSUME NEW command \in Commands, queue' = Append(queue, command), Served' = Served,
             command.press = IF command.kind = "prompt" THEN pressed ELSE pressed + 1,
             pressed' = command.press
      PROVE  InLine' /\ queue' # <<>> /\ (queue # <<>> => Head(queue') = Head(queue))
  <2>1. /\ DOMAIN queue' = 1 .. Len(queue) + 1 /\ queue' \in Seq(Commands) /\ queue' # <<>>
        /\ \A i \in DOMAIN queue : queue'[i] = queue[i]
        /\ queue'[Len(queue) + 1] = command
    BY <1>3, <1>r, Appended
  <2>2. Len(queue') = Len(queue) + 1
    BY <1>3, <1>r
  <2>3. ASSUME NEW i \in 1 .. Len(queue) + 1 PROVE Before(i)' = Before(i)
    <3>1. i > 1 => i - 1 \in DOMAIN queue
      BY <1>s
    <3> QED
      BY <1>3, <2>1, <3>1 DEF Before
  <2>4. ASSUME NEW i \in DOMAIN queue'
        PROVE queue'[i].press = IF queue'[i].kind = "prompt" THEN Before(i)' ELSE Before(i)' + 1
    <3>1. CASE i \in DOMAIN queue
      BY <1>q, <2>1, <2>3, <3>1
    <3>2. CASE i = Len(queue) + 1
      BY <1>3, <1>q, <2>1, <2>3, <3>2
    <3> QED
      BY <1>s, <2>1, <3>1, <3>2
  <2>5. pressed' = Before(Len(queue) + 1)'
    <3>1. Len(queue') + 1 > 1 /\ Len(queue') + 1 - 1 = Len(queue) + 1
      BY <1>s, <2>2
    <3> QED
      BY <1>3, <2>1, <3>1 DEF Before
  <2>6. queue # <<>> => Head(queue') = Head(queue)
    BY <1>r, <2>1, Received
  <2> QED
    BY <2>1, <2>4, <2>5, <2>6
<1> HIDE DEF InLine
<1>4. CASE UNCHANGED vars
  BY <1>4, <1>1, <1>p, <1>q DEF vars, Served
<1>5. CASE Launch \/ Boot \/ Adopt \/ AdoptRemoves \/ Restore \/ Summarize \/ TurnSaved \/ Leave
  <2>1. queue' = queue /\ pressed' = pressed /\ Served' = Served
    BY <1>5 DEF Launch, Boot, Adopt, AdoptRemoves, Restore, Summarize, TurnSaved, Leave, Receives,
                Served
  <2>2. Taken'
    BY <1>5, <1>q DEF Launch, Boot, Adopt, AdoptRemoves, Restore, Summarize, TurnSaved, Leave,
                      Receives
  <2> QED
    BY <1>1, <1>p, <2>1, <2>2
<1>6. CASE Switch
  <2>1. /\ queue' = queue /\ pressed' = pressed /\ pc = "switching" /\ pc' = "entering"
        /\ entered' = entered + 1
    BY <1>6 DEF Switch
  <2>2. Served' = Served
    BY <1>r, <2>1 DEF Served
  <2> QED
    BY <1>1, <1>p, <1>q, <2>1, <2>2
<1>7. CASE SetupFails \/ TurnStarts
  <2>1. /\ queue # <<>> /\ queue' = Tail(queue) /\ pressed' = pressed /\ entered' = entered
        /\ pc = "idle" /\ pc' \in {"idle", "turn"} /\ Head(queue).kind = "prompt"
    BY <1>7 DEF SetupFails, TurnStarts, Receives
  <2>2. Served' = queue[1].press
    BY <1>q, <2>1, Received DEF InLine, Before, Served
  <2> QED
    BY <1>2, <1>p, <2>1, <2>2
<1>8. CASE Enter
  <2>1. /\ queue # <<>> /\ queue' = Tail(queue) /\ pressed' = pressed /\ entered' = entered
        /\ pc = "entering" /\ pc' = "idle" /\ Head(queue).kind # "prompt"
    BY <1>8, <1>q DEF Enter
  <2>2. queue[1].press = Served + 1
    BY <1>q, <2>1, Received DEF InLine, Before
  <2>3. Served' = queue[1].press
    BY <1>r, <2>1, <2>2 DEF Served
  <2> QED
    BY <1>2, <1>p, <2>1, <2>3
<1>9. CASE Send
  <2>1. /\ queue' = Append(queue, Prompt(asked + 1))
        /\ pressed' = pressed /\ entered' = entered /\ pc' = pc
    BY <1>9 DEF Send
  <2>2. Prompt(asked + 1) \in Commands /\ Prompt(asked + 1).kind = "prompt"
        /\ Prompt(asked + 1).press = pressed
    BY <1>r DEF Prompt, Commands, Shapes
  <2>3. Served' = Served
    BY <2>1 DEF Served
  <2>4. InLine' /\ queue' # <<>> /\ (queue # <<>> => Head(queue') = Head(queue))
    BY <1>3, <2>1, <2>2, <2>3
  <2> QED
    BY <1>p, <1>q, <2>1, <2>4
<1>10. CASE PressSwitch
  <2>1. PICK command \in {NewChat} \cup {Open(c) : c \in Stored} : queue' = Append(queue, command)
    BY <1>10 DEF PressSwitch
  <2>2. command \in Commands /\ command.kind # "prompt" /\ command.press = pressed + 1
    <3>1. Stored \subseteq Nat /\ pressed + 1 \in Nat
      BY DEF Shapes, Given
    <3> QED
      BY <2>1, <3>1 DEF NewChat, Open, Commands, NoChat
  <2>3. pressed' = pressed + 1 /\ pc' = pc /\ Served' = Served
    BY <1>10 DEF PressSwitch, Served
  <2>4. InLine' /\ queue' # <<>> /\ (queue # <<>> => Head(queue') = Head(queue))
    BY <1>3, <2>1, <2>2, <2>3
  <2> QED
    BY <1>p, <1>q, <2>3, <2>4
<1>11. CASE \E c \in Stored : Delete(c)
  <2>1. UNCHANGED <<queue, pressed, pc, Served>>
    BY <1>11 DEF Delete, Served
  <2> QED
    BY <1>1, <1>p, <1>q, <2>1
<1>12. CASE Crash
  <2>1. queue' = <<>> /\ pressed' = 0 /\ entered' = 0 /\ pc' = "off"
    BY <1>12 DEF Crash
  <2> QED
    BY <1>p, <2>1 DEF InLine, Before, Served
<1> QED
  BY <1>4, <1>5, <1>6, <1>7, <1>8, <1>9, <1>10, <1>11, <1>12 DEF Next, Worker, Window, User

LEMMA LegacySteps ==
  ASSUME [Next]_vars
  PROVE  legacy' = legacy \/ legacy' = NoChat
BY DEF Next, Worker, Window, User, vars, Launch, Boot, Adopt, AdoptRemoves, Restore, SetupFails,
   TurnStarts, Summarize, TurnSaved, Leave, Switch, Enter, Send, PressSwitch, Delete, Crash

-----------------------------------------------------------------------------
(***************************************************************************)
(* Before the window is open, and before anything was done.                *)
(***************************************************************************)
LEMMA OpeningStep ==
  ASSUME ChatsAssumption, Shapes, Opening, [Next]_vars
  PROVE  Opening'
<1> USE DEF bounds, observed, unsaved, order, Opening
<1>1. CASE UNCHANGED vars
  BY <1>1 DEF vars, Stored
<1>2. CASE Launch \/ Boot
  BY <1>2 DEF Launch, Boot, Stored, Shapes
<1>3. CASE Adopt
  <2>1. CASE window' = "adopted"
    <3>1. Adopts
      BY <1>3, <2>1 DEF Adopt, Adopts
    <3>2. legacy \in Stored' /\ legacy' = legacy
      BY <3>1, LegacySaved DEF Adopts
    <3> QED
      BY <3>1, <3>2 DEF Adopts
  <2>2. CASE window' # "adopted"
    BY <1>3, <2>2 DEF Adopt
  <2> QED
    BY <2>1, <2>2
<1>4. CASE AdoptRemoves \/ Restore
  BY <1>4 DEF AdoptRemoves, Restore
<1>5. CASE SetupFails \/ TurnStarts \/ Summarize \/ TurnSaved \/ Leave \/ Switch \/ Enter
  <2>1. window = "open" /\ window' = window
    BY <1>5 DEF SetupFails, TurnStarts, Summarize, TurnSaved, Leave, Switch, Enter, Receives,
                Shapes
  <2> QED
    BY <2>1
<1>6. CASE Send \/ PressSwitch \/ \E c \in Stored : Delete(c)
  BY <1>6 DEF Send, PressSwitch, Delete
<1>7. CASE Crash
  BY <1>7 DEF Crash
<1> QED
  BY <1>1, <1>2, <1>3, <1>4, <1>5, <1>6, <1>7 DEF Next, Worker, Window, User

LEMMA EarlyStep ==
  ASSUME ChatsAssumption, Shapes, Opening, Early, [Next]_vars
  PROVE  Early'
<1> SUFFICES ASSUME Untouched'
             PROVE  /\ queue' = <<>> /\ deleted' = {} /\ Stored' \subseteq {1}
                    /\ pc' \in {"off", "booting", "idle"}
                    /\ session'.covered = 0 /\ \A c \in Stored' : files'[c].covered = 0
  BY DEF Early
<1> USE DEF bounds, observed, unsaved, order
<1>1. asked \in Nat /\ switches \in Nat /\ deletes \in Nat
  BY DEF Shapes, ChatsAssumption
<1>2. ~Send /\ ~PressSwitch /\ ~\E c \in Stored : Delete(c)
  <2>1. asked' + switches' + deletes' = 0
    BY DEF Untouched
  <2>2. ~Send
    BY <1>1, <2>1 DEF Send
  <2>3. ~PressSwitch
    BY <1>1, <2>1 DEF PressSwitch
  <2>4. ASSUME NEW c \in Stored PROVE ~Delete(c)
    BY <1>1, <2>1 DEF Delete
  <2> QED
    BY <2>2, <2>3, <2>4
<1>3. UNCHANGED <<asked, switches, deletes, deleted>>
  BY <1>2 DEF Next, Worker, Window, User, vars, Launch, Boot, Adopt, AdoptRemoves, Restore,
     SetupFails, TurnStarts, Summarize, TurnSaved, Leave, Switch, Enter, Crash
<1>4. queue = <<>> /\ deleted = {} /\ Stored \subseteq {1} /\ pc \in {"off", "booting", "idle"}
  BY <1>3 DEF Early, Untouched
<1>5. ~SetupFails /\ ~TurnStarts /\ ~Summarize /\ ~TurnSaved /\ ~Leave /\ ~Switch /\ ~Enter
  BY <1>4 DEF SetupFails, TurnStarts, Summarize, TurnSaved, Leave, Switch, Enter, Receives
<1>6. queue' = <<>> /\ pc' \in {"off", "booting", "idle"}
  BY <1>2, <1>4, <1>5 DEF Next, Worker, Window, User, vars, Launch, Boot, Adopt, AdoptRemoves,
     Restore, Crash
<1>7. session.covered = 0 /\ \A c \in Stored : files[c].covered = 0
  BY <1>3 DEF Early, Untouched
<1>8. Stored' \subseteq {1} /\ \A c \in Stored' : files'[c].covered = 0
  <2>1. CASE Adopts
    <3>1. legacy = 1
      BY <2>1 DEF Adopts, Shapes
    <3> QED
      BY <1>4, <1>7, <2>1, <3>1, LegacySaved DEF Adopts
  <2>2. CASE ~Adopts
    <3>1. ~SavesSession
      BY <1>5 DEF SavesSession
    <3> QED
      BY <1>2, <1>4, <1>7, <2>2, <3>1, DirectorySteps DEF Stored
  <2> QED
    BY <2>1, <2>2
<1>9. session'.covered = 0
  BY <1>5, <1>7, SessionSteps DEF Loads, Loaded, NewSession, Nobody
<1> QED
  BY <1>3, <1>4, <1>6, <1>8, <1>9

-----------------------------------------------------------------------------
(***************************************************************************)
(* The order of the prompts.                                               *)
(***************************************************************************)
LEMMA WaitingStep ==
  ASSUME ChatsAssumption, Shapes, Waiting, [Next]_vars
  PROVE  Waiting'
<1> USE DEF Waiting, IsPrompt
<1>1. asked \in Nat /\ pressed \in Nat /\ queue \in Seq(Commands)
  BY DEF Shapes, ChatsAssumption
<1>2. CASE queue' = queue /\ asked' = asked
  BY <1>2
<1>3. CASE queue' = <<>>
  BY <1>3
<1>4. CASE queue # <<>> /\ queue' = Tail(queue) /\ asked' = asked
  BY <1>1, <1>4, Received
<1>5. CASE asked' = asked + 1 /\ queue' = Append(queue, Prompt(asked + 1))
  <2>1. Prompt(asked + 1) \in Commands /\ Prompt(asked + 1).what = asked + 1
    BY <1>1 DEF Prompt, Commands
  <2>2. /\ Len(queue) \in Nat /\ DOMAIN queue = 1 .. Len(queue)
        /\ DOMAIN queue' = 1 .. Len(queue) + 1
        /\ \A i \in DOMAIN queue : queue'[i] = queue[i]
        /\ queue'[Len(queue) + 1] = Prompt(asked + 1)
    BY <1>1, <1>5, <2>1, Appended
  <2>3. \A i \in DOMAIN queue' : i \in DOMAIN queue \/ i = Len(queue) + 1
    BY <2>2
  <2> QED
    BY <1>1, <1>5, <2>1, <2>2, <2>3
<1>6. CASE Presses /\ asked' = asked
  <2>1. PICK command \in Commands : command.kind # "prompt" /\ queue' = Append(queue, command)
    BY <1>6 DEF Presses
  <2>2. /\ Len(queue) \in Nat /\ DOMAIN queue = 1 .. Len(queue)
        /\ DOMAIN queue' = 1 .. Len(queue) + 1
        /\ \A i \in DOMAIN queue : queue'[i] = queue[i]
        /\ queue'[Len(queue) + 1] = command
    BY <1>1, <2>1, Appended
  <2>3. \A i \in DOMAIN queue' : i \in DOMAIN queue \/ i = Len(queue) + 1
    BY <2>2
  <2> QED
    BY <1>1, <1>6, <2>1, <2>2, <2>3
<1> QED
  BY <1>2, <1>3, <1>4, <1>5, <1>6, QueueSteps

(* What a chat may hold it may hold from then on.                          *)
LEMMA HoldsOn ==
  ASSUME ChatsAssumption, Shapes, Waiting, [Next]_vars,
         NEW c, NEW t \in Seq(Prompts), Holds(c, t)
  PROVE  Holds(c, t)'
<1> USE DEF Holds, IsPrompt, Below
<1>1. asked \in Nat /\ pressed \in Nat /\ queue \in Seq(Commands) /\ \A i \in DOMAIN t : t[i] \in Nat
  BY DEF Shapes, ChatsAssumption, Prompts, LegacyPrompt
<1>2. legacy' = legacy \/ legacy' = NoChat
  BY LegacySteps
<1>3. CASE queue' = queue /\ asked' = asked
  BY <1>2, <1>3 DEF Rising
<1>4. CASE queue' = <<>> /\ asked' = asked
  BY <1>2, <1>4 DEF Rising
<1>5. CASE queue # <<>> /\ queue' = Tail(queue) /\ asked' = asked
  <2>1. \A i \in DOMAIN queue' : queue'[i].kind = "prompt" => Below(t, queue'[i].what)
    BY <1>5, Received
  <2> QED
    BY <1>2, <1>5, <2>1 DEF Rising
<1>6. CASE asked' = asked + 1 /\ queue' = Append(queue, Prompt(asked + 1))
  <2>1. Prompt(asked + 1) \in Commands /\ Prompt(asked + 1).what = asked + 1
    BY <1>1 DEF Prompt, Commands
  <2>2. /\ Len(queue) \in Nat /\ DOMAIN queue = 1 .. Len(queue)
        /\ DOMAIN queue' = 1 .. Len(queue) + 1
        /\ \A i \in DOMAIN queue : queue'[i] = queue[i]
        /\ queue'[Len(queue) + 1] = Prompt(asked + 1)
    BY <1>1, <1>6, <2>1, Appended
  <2>3. \A i \in DOMAIN queue' : i \in DOMAIN queue \/ i = Len(queue) + 1
    BY <2>2
  <2>4. \A i \in DOMAIN queue' : queue'[i].kind = "prompt" => Below(t, queue'[i].what)
    BY <1>1, <2>1, <2>2, <2>3
  <2>5. Below(t, asked' + 1)
    BY <1>1, <1>6
  <2> QED
    BY <1>2, <1>6, <2>4, <2>5 DEF Rising
<1>7. CASE Presses /\ asked' = asked
  <2>1. PICK command \in Commands : command.kind # "prompt" /\ queue' = Append(queue, command)
    BY <1>7 DEF Presses
  <2>2. /\ Len(queue) \in Nat /\ DOMAIN queue = 1 .. Len(queue)
        /\ DOMAIN queue' = 1 .. Len(queue) + 1
        /\ \A i \in DOMAIN queue : queue'[i] = queue[i]
        /\ queue'[Len(queue) + 1] = command
    BY <1>1, <2>1, Appended
  <2>3. \A i \in DOMAIN queue' : i \in DOMAIN queue \/ i = Len(queue) + 1
    BY <2>2
  <2>4. \A i \in DOMAIN queue' : queue'[i].kind = "prompt" => Below(t, queue'[i].what)
    BY <2>1, <2>2, <2>3
  <2> QED
    BY <1>2, <1>7, <2>4 DEF Rising
<1> QED
  BY <1>3, <1>4, <1>5, <1>6, <1>7, QueueSteps

LEMMA HeldStep ==
  ASSUME ChatsAssumption, Shapes, Waiting, Held, [Next]_vars
  PROVE  Held'
<1>1. /\ files \in [Stored -> [turns : Seq(Prompts), covered : Nat, at : Nat]]
      /\ session \in [id : Nat, turns : Seq(Prompts), covered : Nat]
      /\ asked \in Nat
  BY DEF Shapes, ChatsAssumption
<1>2. Waiting'
  BY WaitingStep
<1>3. PICK name \in Nat, turns \in Seq(Prompts) : name = session.id /\ turns = session.turns
  BY <1>1
<1>4. Holds(name, turns)'
  BY <1>3, HoldsOn DEF Held
<1>5. ASSUME NEW c \in Stored, files'[c] = files[c] PROVE Holds(c, TurnsOf(c))'
  <2>1. PICK t \in Seq(Prompts) : t = files[c].turns
    BY <1>1
  <2>2. Holds(c, t)'
    BY <2>1, HoldsOn DEF Held, TurnsOf
  <2> QED
    BY <1>5, <2>1, <2>2 DEF TurnsOf
<1>6. \A c \in Stored' : Holds(c, TurnsOf(c))'
  <2>1. CASE UNCHANGED files
    BY <1>5, <2>1 DEF Stored
  <2>2. CASE SavesSession
    <3>1. Holds(session.id, TurnsOf(session.id))'
      BY <1>3, <1>4, <2>2, SessionSaved DEF SavesSession, TurnsOf
    <3> QED
      BY <1>5, <2>2, <3>1, SessionSaved DEF SavesSession
  <2>3. CASE Adopts
    <3>1. legacy = 1 /\ legacy' = legacy /\ queue' = queue /\ asked' = asked
      BY <2>3 DEF Adopts, Shapes, bounds, NoChat
    <3>2. TurnsOf(1)' = <<0>>
      BY <2>3, <3>1, LegacySaved DEF Adopts, TurnsOf, LegacyPrompt
    <3>3. Rising(<<0>>) /\ \A n \in Nat : n > 0 => Below(<<0>>, n)
      BY DEF Rising, Below
    <3>4. \A i \in DOMAIN queue' : IsPrompt(i)' => queue'[i].what \in 1 .. asked'
      BY <1>2 DEF Waiting
    <3>5. Holds(1, TurnsOf(1))'
      BY <1>1, <3>1, <3>2, <3>3, <3>4 DEF Holds, LegacyPrompt
    <3> QED
      BY <1>5, <2>3, <3>1, <3>5, LegacySaved DEF Adopts
  <2>4. ASSUME NEW d \in Stored, Delete(d) PROVE \A c \in Stored' : Holds(c, TurnsOf(c))'
    BY <1>5, <2>4 DEF Delete, Restrict, Stored
  <2> QED
    BY <2>1, <2>2, <2>3, <2>4, DirectorySteps
<1>7. Holds(session.id, session.turns)'
  <2>1. CASE session' = session
    BY <1>3, <1>4, <2>1
  <2>2. CASE session' = Nobody
    BY <1>1, <2>2 DEF Nobody, NoChat, Holds, Rising, Below
  <2>3. CASE Loads
    <3>1. ASSUME NEW c \in Stored, session' = Loaded(c)
          PROVE  Holds(session.id, session.turns)'
      <4>1. files' = files
        BY <2>3 DEF Loads
      <4>2. session'.id = c /\ session'.turns = TurnsOf(c)'
        BY <3>1, <4>1 DEF TurnsOf, Loaded
      <4> QED
        BY <1>5, <4>1, <4>2
    <3>2. CASE NewSession
      <4>1. session'.id # 1 \/ legacy' = NoChat
        BY <2>3, <3>2 DEF NewSession, Loads, Shapes, NoChat
      <4>2. session'.turns = <<>>
        BY <3>2 DEF NewSession
      <4> QED
        BY <4>1, <4>2 DEF Holds, Rising, Below
    <3> QED
      BY <2>3, <3>1, <3>2 DEF Loads
  <2>4. CASE TurnStarts
    <3> DEFINE p == Head(queue).what
    <3>1. /\ queue # <<>> /\ queue' = Tail(queue) /\ Head(queue).kind = "prompt"
          /\ asked' = asked /\ legacy' = legacy
          /\ session' = [session EXCEPT !.turns = Append(@, p)]
      BY <2>4 DEF TurnStarts, Receives, bounds
    <3>2. p \in 1 .. asked /\ p \in Prompts
      <4>1. p \in 1 .. asked
        BY <3>1, Received DEF Waiting, IsPrompt
      <4>2. asked \in 0 .. MaxPrompts /\ MaxPrompts \in Nat
        BY DEF Shapes, ChatsAssumption
      <4> QED
        BY <4>1, <4>2 DEF Prompts, LegacyPrompt
    <3>3. /\ session'.id = name /\ session'.turns = Append(turns, p)
      BY <1>1, <1>3, <3>1
    <3>4. /\ Len(turns) \in Nat /\ DOMAIN turns = 1 .. Len(turns)
          /\ DOMAIN session'.turns = 1 .. Len(turns) + 1
          /\ \A i \in DOMAIN turns : session'.turns[i] = turns[i]
          /\ session'.turns[Len(turns) + 1] = p
      BY <3>2, <3>3, Appended
    <3>5. \A i \in DOMAIN session'.turns : i \in DOMAIN turns \/ i = Len(turns) + 1
      BY <3>4
    <3>6. Holds(name, turns) /\ Below(turns, p)
      BY <1>3, <3>1, Received DEF Held, Holds, IsPrompt
    <3>7. \A i \in DOMAIN turns : turns[i] \in Nat
      BY <1>3 DEF Prompts, LegacyPrompt
    <3>8. Rising(session'.turns)
      BY <3>2, <3>4, <3>5, <3>6, <3>7 DEF Rising, Holds, Below
    <3>9. Below(session'.turns, asked' + 1)
      BY <1>1, <3>1, <3>2, <3>4, <3>5, <3>6, <3>7 DEF Holds, Below
    <3>10. ASSUME NEW i \in DOMAIN queue', IsPrompt(i)' PROVE Below(session'.turns, queue'[i].what)
      <4>1. /\ i + 1 \in DOMAIN queue /\ queue'[i] = queue[i + 1] /\ 1 < i + 1
            /\ 1 \in DOMAIN queue /\ queue[1] = Head(queue)
        BY <3>1, Received
      <4>2. p < queue[i + 1].what
        BY <3>1, <3>10, <4>1 DEF Waiting, IsPrompt
      <4>3. Below(turns, queue[i + 1].what)
        BY <3>6, <3>10, <4>1 DEF Holds, IsPrompt
      <4> QED
        BY <3>4, <3>5, <4>1, <4>2, <4>3 DEF Below
    <3>11. \A i \in DOMAIN session'.turns : session'.turns[i] = LegacyPrompt => name = 1
      BY <3>2, <3>4, <3>5, <3>6 DEF Holds, LegacyPrompt
    <3>12. name = 1 /\ legacy' # NoChat => session'.turns # <<>> /\ session'.turns[1] = LegacyPrompt
      <4>1. session'.turns # <<>>
        BY <3>2, <3>3, Appended
      <4>2. turns # <<>> => 1 \in DOMAIN turns
        BY <1>3
      <4> QED
        BY <3>1, <3>4, <3>6, <4>1, <4>2 DEF Holds
    <3> QED
      BY <3>3, <3>8, <3>9, <3>10, <3>11, <3>12 DEF Holds, IsPrompt
  <2>5. CASE Summarize
    BY <1>3, <1>4, <2>5, Summarized
  <2> QED
    BY <2>1, <2>2, <2>3, <2>4, <2>5, SessionSteps
<1> QED
  BY <1>6, <1>7 DEF Held

LEMMA SeparateStep ==
  ASSUME ChatsAssumption, Shapes, Waiting, Held, Separate, [Next]_vars
  PROVE  Separate'
<1>1. /\ files \in [Stored -> [turns : Seq(Prompts), covered : Nat, at : Nat]]
      /\ session \in [id : Nat, turns : Seq(Prompts), covered : Nat]
      /\ Stored \subseteq Given /\ used \in Nat
  BY DEF Shapes
<1>2. \A t, u : Apart(t, u) => Apart(u, t)
  BY DEF Apart
<1>3. \A c \in Stored \ {1} : Apart(<<LegacyPrompt>>, TurnsOf(c))
  BY DEF Held, Holds, Apart, LegacyPrompt
<1>4. session.id # 1 => Apart(<<LegacyPrompt>>, session.turns)
  BY DEF Held, Holds, Apart, LegacyPrompt
<1>5. CASE UNCHANGED files
  <2>1. Stored' = Stored /\ \A c \in Stored : TurnsOf(c)' = TurnsOf(c)
    BY <1>5 DEF Stored, TurnsOf
  <2>2. ASSUME NEW c \in Stored' \ {session'.id} PROVE Apart(TurnsOf(c), session.turns)'
    <3>1. CASE session' = session
      BY <2>1, <2>2, <3>1 DEF Separate
    <3>2. CASE session'.turns = <<>>
      BY <3>2 DEF Apart
    <3>3. ASSUME NEW d \in Stored, session' = Loaded(d)
          PROVE  Apart(TurnsOf(c), session.turns)'
      <4>1. session'.id = d /\ session'.turns = TurnsOf(d)
        BY <3>3 DEF Loaded
      <4> QED
        BY <2>1, <2>2, <4>1 DEF Separate
    <3>4. CASE TurnStarts
      <4>1. /\ queue # <<>> /\ Head(queue).kind = "prompt"
            /\ session' = [session EXCEPT !.turns = Append(@, Head(queue).what)]
        BY <3>4 DEF TurnStarts, Receives
      <4>2. /\ Below(TurnsOf(c), Head(queue).what)
            /\ Head(queue).what \in Nat
        BY <2>1, <2>2, <4>1, Received DEF Held, Holds, IsPrompt, Commands
      <4>3. /\ session'.id = session.id
            /\ session'.turns = Append(session.turns, Head(queue).what)
        BY <1>1, <4>1
      <4>4. Apart(TurnsOf(c), session.turns)
        BY <2>1, <2>2, <4>3 DEF Separate
      <4>5. /\ Len(session.turns) \in Nat
            /\ \A j \in DOMAIN session'.turns :
                 \/ j \in DOMAIN session.turns /\ session'.turns[j] = session.turns[j]
                 \/ session'.turns[j] = Head(queue).what
        <5>1. Head(queue).what \in Nat /\ session.turns \in Seq(Nat)
          BY <1>1, <4>2 DEF Prompts, LegacyPrompt
        <5> QED
          BY <4>3, <5>1, Appended
      <4>6. \A i \in DOMAIN TurnsOf(c) : TurnsOf(c)[i] \in Nat
        BY <1>1, <2>1, <2>2 DEF TurnsOf, Prompts, LegacyPrompt
      <4>7. Apart(TurnsOf(c), session'.turns)
        BY <4>2, <4>4, <4>5, <4>6 DEF Apart, Below
      <4> QED
        BY <2>1, <4>7
    <3>5. CASE Summarize
      BY <2>1, <2>2, <3>5, Summarized DEF Separate
    <3> QED
      BY <3>1, <3>2, <3>3, <3>4, <3>5, SessionSteps DEF Loads, NewSession, Nobody
  <2> QED
    BY <2>1, <2>2 DEF Separate
<1>6. CASE SavesSession
  <2>1. /\ Stored' = Stored \cup {session.id} /\ session' = session
        /\ TurnsOf(session.id)' = session.turns
        /\ \A c \in Stored \ {session.id} : TurnsOf(c)' = TurnsOf(c)
    BY <1>6, SessionSaved DEF SavesSession, TurnsOf
  <2> QED
    BY <1>2, <2>1 DEF Separate
<1>7. CASE Adopts
  <2>1. /\ Stored' = Stored \cup {1} /\ session' = session
        /\ TurnsOf(1)' = <<LegacyPrompt>>
        /\ \A c \in Stored \ {1} : TurnsOf(c)' = TurnsOf(c)
    BY <1>7, LegacySaved DEF Adopts, TurnsOf, Shapes, NoChat
  <2> QED
    BY <1>2, <1>3, <1>4, <2>1 DEF Separate
<1>8. ASSUME NEW d \in Stored, Delete(d) PROVE Separate'
  BY <1>8 DEF Delete, Restrict, Stored, TurnsOf, Separate
<1> QED
  BY <1>5, <1>6, <1>7, <1>8, DirectorySteps

-----------------------------------------------------------------------------
(***************************************************************************)
(* Prefixes, and the first adoption.                                       *)
(***************************************************************************)
LEMMA PrefixLaws ==
  ASSUME NEW S, NEW t \in Seq(S)
  PROVE  /\ IsPrefix(t, t) /\ IsPrefix(<<>>, t)
         /\ IsPrefix(t, <<>>) => t = <<>>
<1>1. Len(t) \in Nat /\ Len(<<>>) = 0
  OBVIOUS
<1>2. IsPrefix(t, t) /\ IsPrefix(<<>>, t)
  BY <1>1 DEF IsPrefix
<1>3. IsPrefix(t, <<>>) => t = <<>>
  BY <1>1, EmptySeq DEF IsPrefix
<1> QED
  BY <1>2, <1>3

LEMMA Longer ==
  ASSUME NEW S, NEW t \in Seq(S), NEW x \in S
  PROVE  /\ \A s \in Seq(S) : IsPrefix(s, t) => IsPrefix(s, Append(t, x))
         /\ SubSeq(Append(t, x), 1, Len(Append(t, x)) - 1) = t
<1>1. Append(t, x) \in Seq(S) /\ Len(Append(t, x)) = Len(t) + 1
  BY AppendProperties
<1>2. Len(t) \in Nat
  BY LenProperties
<1>3. ASSUME NEW s \in Seq(S), IsPrefix(s, t) PROVE IsPrefix(s, Append(t, x))
  <2>1. Len(s) \in Nat /\ Len(s) <= Len(t) /\ SubSeq(s, 1, Len(s)) = SubSeq(t, 1, Len(s))
    BY <1>3, LenProperties DEF IsPrefix
  <2>2. SubSeq(t, 1, Len(s)) = SubSeq(Append(t, x), 1, Len(s))
    BY <1>1, <1>2, <2>1
  <2> QED
    BY <1>1, <1>2, <2>1, <2>2 DEF IsPrefix
<1>4. SubSeq(Append(t, x), 1, Len(t)) = t
  BY <1>1, <1>2
<1> QED
  BY <1>1, <1>2, <1>3, <1>4

LEMMA OnlyTheOldPrompt ==
  ASSUME ChatsAssumption, Shapes, asked = 0, legacy # NoChat,
         NEW t \in Seq(Prompts), Holds(1, t)
  PROVE  t = <<LegacyPrompt>>
<1>1. Len(t) \in Nat /\ DOMAIN t = 1 .. Len(t) /\ \A i \in DOMAIN t : t[i] \in Nat
  BY LenProperties DEF Prompts, LegacyPrompt
<1>2. t # <<>> /\ t[1] = 0 /\ Rising(t) /\ Below(t, 1)
  BY DEF Holds, LegacyPrompt
<1>3. Len(t) >= 1
  BY <1>1, <1>2, EmptySeq
<1>4. ~(Len(t) >= 2)
  <2>1. SUFFICES ASSUME Len(t) >= 2 PROVE FALSE
    OBVIOUS
  <2>2. 1 \in DOMAIN t /\ 2 \in DOMAIN t
    BY <1>1, <2>1
  <2>3. t[1] < t[2] /\ t[2] < 1
    BY <1>2, <2>2 DEF Rising, Below
  <2> QED
    BY <1>1, <1>2, <2>2, <2>3
<1>5. Len(t) = 1
  BY <1>1, <1>3, <1>4
<1>6. Len(<<LegacyPrompt>>) = 1 /\ <<LegacyPrompt>>[1] = 0 /\ <<LegacyPrompt>> \in Seq(Nat)
  BY DEF LegacyPrompt
<1>7. t \in Seq(Nat)
  BY DEF Prompts, LegacyPrompt
<1> QED
  BY <1>1, <1>2, <1>5, <1>6, <1>7, SeqEqual

LEMMA FirstAdoption ==
  ASSUME ChatsAssumption, Shapes, Early, Held, Adopts, ~readopted'
  PROVE  /\ ~readopted /\ deleted' = {} /\ deleted = {} /\ legacy = 1 /\ session' = session
         /\ Stored \subseteq {1} /\ Stored' = {1} /\ TurnsOf(1)' = <<LegacyPrompt>>
         /\ 1 \in Stored => TurnsOf(1) = <<LegacyPrompt>>
         /\ session.id = 1 => session.turns = <<LegacyPrompt>>
         /\ session.covered = 0 /\ files'[1].covered = 0
         /\ \A c \in Stored : files[c].covered = 0
         /\ pc \in {"off", "booting", "idle"} /\ pc' = pc
<1>1. ~readopted /\ asked = 0 /\ switches = 0 /\ deletes = 0
  <2>1. asked \in Nat /\ switches \in Nat /\ deletes \in Nat
    BY DEF Shapes, ChatsAssumption
  <2>2. ~readopted /\ ~(asked + switches + deletes > 0)
    BY DEF Adopts
  <2> QED
    BY <2>1, <2>2
<1>2. /\ deleted = {} /\ Stored \subseteq {1} /\ pc \in {"off", "booting", "idle"}
      /\ session.covered = 0 /\ \A c \in Stored : files[c].covered = 0
  BY <1>1 DEF Early, Untouched
<1>3. legacy = 1 /\ legacy # NoChat
  BY DEF Adopts, Shapes, NoChat
<1>4. Stored' = {1} /\ TurnsOf(1)' = <<LegacyPrompt>> /\ files'[1].covered = 0
  BY <1>2, <1>3, LegacySaved DEF Adopts, TurnsOf
<1>5. 1 \in Stored => TurnsOf(1) = <<LegacyPrompt>>
  BY <1>1, <1>3, OnlyTheOldPrompt DEF Held, TurnsOf, Shapes
<1>6. session.id = 1 => session.turns = <<LegacyPrompt>>
  BY <1>1, <1>3, OnlyTheOldPrompt DEF Held, Shapes
<1> QED
  BY <1>1, <1>2, <1>3, <1>4, <1>5, <1>6 DEF Adopts

-----------------------------------------------------------------------------
(***************************************************************************)
(* The session and its file.                                               *)
(***************************************************************************)
LEMMA NeverTakenBack ==
  ASSUME [Next]_vars
  PROVE  (failed => failed') /\ (readopted => readopted')
<1> USE DEF observed, unsaved, order
<1>1. CASE UNCHANGED vars
  BY <1>1 DEF vars
<1>2. CASE Launch \/ Boot \/ AdoptRemoves \/ Restore \/ Crash
  BY <1>2 DEF Launch, Boot, AdoptRemoves, Restore, Crash
<1>3. CASE Adopt
  <2>1. readopted => readopted'
    BY <1>3, Zenon DEF Adopt
  <2>2. failed' = failed \/ failed' = TRUE
    BY <1>3 DEF Adopt, Saved, SaveFails
  <2> QED
    BY <2>1, <2>2
<1>4. CASE SetupFails \/ TurnStarts \/ Summarize \/ Switch
  BY <1>4 DEF SetupFails, TurnStarts, Summarize, Switch
<1>5. CASE TurnSaved \/ Leave \/ Enter
  BY <1>5 DEF TurnSaved, Leave, Enter, Save, Saved, SaveFails
<1>6. CASE Send \/ PressSwitch
  BY <1>6 DEF Send, PressSwitch
<1>7. ASSUME NEW c \in Stored, Delete(c)
      PROVE  (failed => failed') /\ (readopted => readopted')
  BY <1>7, Zenon DEF Delete
<1> QED
  BY <1>1, <1>2, <1>3, <1>4, <1>5, <1>6, <1>7 DEF Next, Worker, Window, User

LEMMA AheadStep ==
  ASSUME ChatsAssumption, Shapes, Waiting, Early, Held, Ahead, [Next]_vars
  PROVE  Ahead'
<1> SUFFICES ASSUME Alive', ~readopted', session'.id \in Stored' \ deleted'
             PROVE  /\ IsPrefix(files'[session'.id].turns, session'.turns)
                    /\ files'[session'.id].covered <= session'.covered
  BY DEF Ahead, TurnsOf
<1>1. /\ files \in [Stored -> [turns : Seq(Prompts), covered : Nat, at : Nat]]
      /\ session \in [id : Nat, turns : Seq(Prompts), covered : Nat]
      /\ Stored \subseteq Given /\ used \in Nat
  BY DEF Shapes
<1>2. ASSUME NEW t \in Seq(Prompts) PROVE IsPrefix(t, t)
  BY PrefixLaws
<1>3. CASE UNCHANGED <<files, deleted>>
  <2>1. CASE session' = Nobody
    BY <1>1, <1>3, <2>1 DEF Nobody, NoChat, Given, Stored
  <2>2. CASE Loads
    <3>1. CASE NewSession
      BY <1>1, <1>3, <3>1 DEF NewSession, Stored, Given
    <3>2. ASSUME NEW c \in Stored, session' = Loaded(c)
          PROVE  /\ IsPrefix(files'[session'.id].turns, session'.turns)
                 /\ files'[session'.id].covered <= session'.covered
      <4>1. /\ session'.id = c /\ session'.turns = files[c].turns
            /\ session'.covered = files[c].covered
        BY <3>2 DEF Loaded, TurnsOf
      <4> QED
        BY <1>1, <1>2, <1>3, <4>1
    <3> QED
      BY <2>2, <3>1, <3>2 DEF Loads
  <2>3. CASE TurnStarts
    <3>1. /\ queue # <<>> /\ Head(queue).kind = "prompt" /\ pc = "idle"
          /\ session' = [session EXCEPT !.turns = Append(@, Head(queue).what)]
          /\ readopted' = readopted
      BY <2>3 DEF TurnStarts, Receives, observed, unsaved
    <3>2. Head(queue).what \in Prompts
      BY <3>1, Received DEF Waiting, IsPrompt, Prompts, Shapes, ChatsAssumption, LegacyPrompt
    <3>3. /\ session'.id = session.id /\ session'.turns = Append(session.turns, Head(queue).what)
          /\ session.id \in Stored /\ session'.covered = session.covered
      BY <1>1, <1>3, <3>1 DEF Stored
    <3>4. /\ IsPrefix(files[session.id].turns, session.turns)
          /\ files[session.id].covered <= session.covered
      BY <1>3, <3>1, <3>3 DEF Ahead, Alive, TurnsOf
    <3>5. session.turns \in Seq(Prompts) /\ files[session.id].turns \in Seq(Prompts)
      BY <1>1, <3>3
    <3> QED
      BY <1>3, <3>2, <3>3, <3>4, <3>5, Longer
  <2>4. CASE session' = session /\ ~Alive
    BY <1>1, <1>3, <2>4 DEF Shapes, Nobody, NoChat, Given, Stored
  <2>5. CASE session' = session /\ Alive /\ ~readopted
    BY <1>3, <2>5 DEF Ahead, TurnsOf, Stored
  <2>6. CASE Summarize
    <3>1. /\ session'.id = session.id /\ session'.turns = session.turns
          /\ session.covered < session'.covered /\ session'.covered \in Nat
          /\ Alive /\ session.id \in Stored
      BY <1>3, <2>6, Summarized DEF Alive, Stored
    <3>2. /\ IsPrefix(files[session.id].turns, session.turns)
          /\ files[session.id].covered <= session.covered
      BY <1>3, <3>1, NeverTakenBack DEF Ahead, TurnsOf
    <3> QED
      BY <1>1, <1>3, <3>1, <3>2
  <2> QED
    BY <2>1, <2>2, <2>3, <2>4, <2>5, <2>6, NeverTakenBack, SessionSteps
<1>4. CASE SavesSession
  BY <1>1, <1>2, <1>4, SessionSaved DEF SavesSession
<1>5. CASE Adopts
  <2>1. session'.id = 1 /\ session'.turns = <<LegacyPrompt>> /\ files'[1].turns = <<LegacyPrompt>>
    BY <1>5, FirstAdoption DEF TurnsOf
  <2>2. session'.turns \in Seq(Prompts)
    BY <1>1, <1>5 DEF Adopts
  <2>3. session'.covered = 0 /\ files'[1].covered = 0
    BY <1>5, FirstAdoption
  <2> QED
    BY <1>2, <2>1, <2>2, <2>3
<1>6. ASSUME NEW c \in Stored, Delete(c)
      PROVE  /\ IsPrefix(files'[session'.id].turns, session'.turns)
             /\ files'[session'.id].covered <= session'.covered
  <2>1. /\ files' = [x \in Stored \ {c} |-> files[x]]
        /\ session' = session /\ readopted' = readopted /\ pc' = pc
        /\ deleted' = deleted \cup {c}
    BY <1>6 DEF Delete, Restrict
  <2>2. session.id \in Stored \ deleted /\ session.id # c /\ Alive /\ ~readopted
    BY <2>1 DEF Stored, Alive
  <2> QED
    BY <2>1, <2>2 DEF Ahead, TurnsOf
<1> QED
  BY <1>3, <1>4, <1>5, <1>6, DirectorySteps

LEMMA TurnsEndSaved ==
  ASSUME [Next]_vars
  PROVE  /\ pc = "turn" => SavesSession \/ failed' \/ ~Alive' \/ pc' = "turn"
         /\ pc' = "turn" => pc = "turn" \/ TurnStarts
<1>1. CASE TurnSaved
  BY <1>1 DEF TurnSaved, Save, SaveFails, SavesSession, Alive, bounds, unsaved
<1>2. CASE ~TurnSaved
  BY <1>2 DEF Next, Worker, Window, User, vars, Launch, Boot, Adopt, AdoptRemoves, Restore,
     SetupFails, Summarize, Leave, Switch, Enter, Receives, Send, PressSwitch, Delete, Crash,
     TurnStarts, Alive
<1> QED
  BY <1>1, <1>2

LEMMA WrittenStep ==
  ASSUME ChatsAssumption, Shapes, Waiting, Early, Held, Ahead, Written, [Next]_vars
  PROVE  Written'
<1> DEFINE before == SubSeq(session.turns, 1, Len(session.turns) - 1)
           Safe   == /\ session.id \in Stored /\ files[session.id].turns = session.turns
                     /\ files[session.id].covered = session.covered
           Half   == IF session.id \in Stored THEN files[session.id].turns = before
                                              ELSE before = <<>>
           Fine   == IF pc = "turn" THEN Half ELSE Safe
<1>1. SUFFICES ASSUME Alive', ~failed', ~readopted', session'.turns # <<>>, session'.id \notin deleted'
               PROVE  Fine'
  BY DEF Written, TurnsOf
<1>2. /\ files \in [Stored -> [turns : Seq(Prompts), covered : Nat, at : Nat]]
      /\ session \in [id : Nat, turns : Seq(Prompts), covered : Nat]
      /\ Stored \subseteq Given /\ used \in Nat
      /\ ~Alive => session = Nobody
  BY DEF Shapes
<1>3. ~failed /\ ~readopted
  BY <1>1, NeverTakenBack
<1>4. Alive /\ session.turns # <<>> /\ session.id \notin deleted => Fine
  BY <1>3 DEF Written, TurnsOf
<1>5. CASE UNCHANGED <<files, deleted>> /\ ~SavesSession
  <2>1. CASE session' = session /\ ~TurnStarts
    <3>1. Alive
      BY <1>1, <1>2, <2>1 DEF Nobody
    <3>2. Fine
      BY <1>1, <1>4, <1>5, <2>1, <3>1
    <3>3. pc = "turn" <=> pc' = "turn"
      BY <1>1, <1>5, <2>1, TurnsEndSaved
    <3> QED
      BY <1>5, <2>1, <3>2, <3>3 DEF Stored
  <2>2. CASE session' = Nobody
    BY <1>1, <2>2 DEF Nobody
  <2>3. CASE Loads
    <3>1. ~NewSession /\ pc' # "turn"
      BY <1>1, <2>3 DEF NewSession, Loads
    <3>2. PICK c \in Stored : session' = Loaded(c)
      BY <2>3, <3>1 DEF Loads
    <3>3. /\ session'.id = c /\ session'.turns = files[c].turns
          /\ session'.covered = files[c].covered
      BY <3>2 DEF Loaded, TurnsOf
    <3> QED
      BY <1>5, <3>1, <3>3 DEF Stored
  <2>4. CASE TurnStarts
    <3>1. /\ queue # <<>> /\ Head(queue).kind = "prompt" /\ pc = "idle" /\ pc' = "turn"
          /\ session' = [session EXCEPT !.turns = Append(@, Head(queue).what)]
      BY <2>4 DEF TurnStarts, Receives
    <3>2. Head(queue).what \in Prompts
      BY <3>1, Received DEF Waiting, IsPrompt, Prompts, Shapes, ChatsAssumption, LegacyPrompt
    <3>3. session'.id = session.id /\ session'.turns = Append(session.turns, Head(queue).what)
      BY <1>2, <3>1
    <3>4. before' = session.turns
      BY <1>2, <3>2, <3>3, Longer
    <3>5. Alive /\ session.id \notin deleted
      BY <1>1, <1>5, <3>1, <3>3 DEF Alive
    <3>6. CASE session.turns # <<>>
      <4>1. Safe
        BY <1>4, <3>1, <3>5, <3>6
      <4> QED
        BY <1>5, <3>1, <3>3, <3>4, <4>1 DEF Stored
    <3>7. CASE session.turns = <<>>
      <4>1. session.id \in Stored => files[session.id].turns = <<>>
        BY <1>2, <1>3, <3>5, <3>7, PrefixLaws DEF Ahead, TurnsOf
      <4> QED
        BY <1>5, <3>1, <3>3, <3>4, <3>7, <4>1 DEF Stored
    <3> QED
      BY <3>6, <3>7
  <2>5. CASE Summarize
    <3>1. /\ session'.id = session.id /\ session'.turns = session.turns
          /\ pc = "turn" /\ pc' = pc
      BY <2>5, Summarized DEF Summarize
    <3>2. Half
      BY <1>1, <1>4, <1>5, <3>1 DEF Alive
    <3> QED
      BY <1>5, <3>1, <3>2 DEF Stored
  <2> QED
    BY <2>1, <2>2, <2>3, <2>4, <2>5, SessionSteps
<1>6. CASE SavesSession
  <2>1. pc' # "turn"
    BY <1>6 DEF SavesSession, TurnSaved, Leave, Enter
  <2> QED
    BY <1>6, <2>1, SessionSaved DEF SavesSession
<1>7. CASE Adopts
  <2>1. pc \in {"off", "booting", "idle"} /\ pc' = pc
    BY <1>1, <1>7, FirstAdoption
  <2>2. Alive /\ session' = session /\ session.id \notin deleted
    BY <1>1, <1>7, <2>1, FirstAdoption DEF Alive
  <2>3. Safe
    BY <1>1, <1>4, <2>1, <2>2
  <2> QED
    BY <1>1, <1>7, <2>1, <2>2, <2>3, FirstAdoption DEF TurnsOf
<1>8. ASSUME NEW c \in Stored, Delete(c) PROVE Fine'
  <2>1. /\ files' = [x \in Stored \ {c} |-> files[x]]
        /\ session' = session /\ pc' = pc /\ deleted' = deleted \cup {c}
    BY <1>8 DEF Delete, Restrict
  <2>2. session.id # c /\ session.id \notin deleted /\ Alive
    BY <1>1, <2>1 DEF Alive
  <2>3. Fine
    BY <1>1, <1>4, <2>1, <2>2
  <2> QED
    BY <2>1, <2>2, <2>3 DEF Stored
<1> QED
  BY <1>5, <1>6, <1>7, <1>8, DirectorySteps

LEMMA ResurrectedStep ==
  ASSUME ChatsAssumption, Shapes, Early, Held, Resurrected, [Next]_vars
  PROVE  Resurrected'
<1>1. SUFFICES ASSUME ~readopted'
               PROVE  /\ deleted' \cap Stored' \subseteq deletedOpen'
                      /\ session'.id \in deleted' => session'.id \in deletedOpen'
  BY DEF Resurrected
<1>2. /\ deleted \cap Stored \subseteq deletedOpen
      /\ session.id \in deleted => session.id \in deletedOpen
  BY <1>1, NeverTakenBack DEF Resurrected
<1>3. deleted \subseteq Given /\ used \in Nat /\ session \in [id : Nat, turns : Seq(Prompts), covered : Nat]
  BY DEF Shapes
<1>4. CASE UNCHANGED <<files, clock, deleted, deletedOpen>>
  <2>1. CASE session'.id = session.id
    BY <1>2, <1>4, <2>1 DEF Stored
  <2>2. CASE session' = Nobody
    BY <1>2, <1>3, <1>4, <2>2 DEF Nobody, NoChat, Given, Stored
  <2>3. CASE Loads
    BY <1>2, <1>3, <1>4, <2>3 DEF Loads, Loaded, NewSession, Given, Stored
  <2>4. CASE TurnStarts
    BY <1>3, <2>1, <2>4 DEF TurnStarts
  <2>5. CASE Summarize
    BY <2>1, <2>5, Summarized
  <2> QED
    BY <2>1, <2>2, <2>3, <2>4, <2>5, SessionSteps
<1>5. CASE SavesSession
  BY <1>2, <1>5, SessionSaved DEF SavesSession
<1>6. CASE Adopts
  BY <1>1, <1>6, FirstAdoption
<1>7. ASSUME NEW c \in Stored, Delete(c)
      PROVE  /\ deleted' \cap Stored' \subseteq deletedOpen'
             /\ session'.id \in deleted' => session'.id \in deletedOpen'
  BY <1>2, <1>7 DEF Delete, Restrict, Stored
<1> QED
  BY <1>4, <1>5, <1>6, <1>7, DirectorySteps

LEMMA LatestStep ==
  ASSUME ChatsAssumption, Shapes, Early, Held, Latest, [Next]_vars
  PROVE  Latest'
<1> USE DEF bounds, observed, unsaved, order
<1>1. /\ files \in [Stored -> [turns : Seq(Prompts), covered : Nat, at : Nat]]
      /\ session \in [id : Nat, turns : Seq(Prompts), covered : Nat]
      /\ Stored \subseteq Given /\ used \in Nat
  BY DEF Shapes
<1>2. Alive' /\ pc' # "entering" => session'.id = lastOpen'
  <2> USE DEF Alive
  <2>1. CASE UNCHANGED vars
    BY <2>1 DEF vars, Latest
  <2>2. CASE Launch \/ Boot \/ Switch \/ Enter \/ Crash
    BY <2>2 DEF Launch, Boot, Switch, Enter, Crash
  <2>3. CASE Adopt \/ AdoptRemoves \/ Restore
    BY <2>3 DEF Adopt, AdoptRemoves, Restore, Latest
  <2>4. CASE SetupFails \/ TurnSaved \/ Leave
    BY <2>4 DEF SetupFails, TurnSaved, Leave, Receives, Latest
  <2>5. CASE TurnStarts
    BY <1>1, <2>5 DEF TurnStarts, Receives, Latest
  <2>6. CASE Send \/ PressSwitch \/ \E c \in Stored : Delete(c)
    BY <2>6 DEF Send, PressSwitch, Delete, Latest
  <2>7. CASE Summarize
    BY <2>7, Summarized DEF Summarize, Latest
  <2> QED
    BY <2>1, <2>2, <2>3, <2>4, <2>5, <2>6, <2>7 DEF Next, Worker, Window, User
<1>3. SUFFICES ASSUME ~failed', ~readopted', lastOpen' \in Stored', NEW c \in Stored'
               PROVE  files'[c].at <= files'[lastOpen'].at
  BY <1>2 DEF Latest
<1>4. ~failed /\ ~readopted
  BY <1>3, NeverTakenBack
<1>5. lastOpen' = lastOpen \/ Boot \/ Enter
  BY DEF Next, Worker, Window, User, vars, Launch, Adopt, AdoptRemoves, Restore, SetupFails,
     TurnStarts, Summarize, TurnSaved, Leave, Switch, Send, PressSwitch, Delete, Crash
<1>6. CASE UNCHANGED <<files, clock, deleted, deletedOpen>> /\ ~SavesSession
  <2>1. CASE lastOpen' = lastOpen
    BY <1>3, <1>4, <1>6, <2>1 DEF Latest, Stored
  <2>2. CASE Boot
    <3>1. lastOpen' \in MostRecent \/ lastOpen' = used + 1
      BY <2>2 DEF Boot, Loaded, NewSession
    <3>2. lastOpen' \in MostRecent
      BY <1>1, <1>3, <1>6, <3>1 DEF Given, Stored
    <3> QED
      BY <1>3, <1>6, <3>2 DEF MostRecent, Stored
  <2>3. CASE Enter
    BY <1>3, <1>6, <2>3 DEF Enter, Save, SaveFails, SavesSession, Alive
  <2> QED
    BY <1>5, <2>1, <2>2, <2>3
<1>7. CASE SavesSession
  <2>1. lastOpen' = session.id
    <3>1. CASE Enter
      BY <3>1 DEF Enter
    <3>2. CASE TurnSaved \/ Leave
      BY <3>2 DEF TurnSaved, Leave, Receives, Alive, Latest
    <3> QED
      BY <1>7, <3>1, <3>2 DEF SavesSession
  <2> QED
    BY <1>3, <1>7, <2>1, SessionSaved DEF SavesSession
<1>8. CASE Adopts
  <2>1. files'[c].at \in Nat /\ c = lastOpen'
    BY <1>3, <1>8, FirstAdoption, LegacySaved DEF Adopts
  <2> QED
    BY <2>1
<1>9. ASSUME NEW d \in Stored, Delete(d) PROVE files'[c].at <= files'[lastOpen'].at
  BY <1>3, <1>4, <1>9 DEF Delete, Restrict, Stored, Latest
<1> QED
  BY <1>6, <1>7, <1>8, <1>9, DirectorySteps

-----------------------------------------------------------------------------
(***************************************************************************)
(* The window and the worker open the same chat.                           *)
(***************************************************************************)
LEMMA ShownStep ==
  ASSUME ChatsAssumption, Shapes, Opening, Early, Held, Shown, [Next]_vars
  PROVE  Shown'
<1> USE DEF bounds, observed, unsaved, order
<1>1. SUFFICES ASSUME ~readopted' PROVE Shown'
  BY DEF Shown
<1>2. /\ Alive /\ ~unclear /\ window # "open" => MostRecent = {session.id}
      /\ pc = "booting" /\ restored \notin deleted \cup {NoChat} => restored \in MostRecent
      /\ Alive /\ ~unclear /\ restored \notin deleted \cup {NoChat} =>
           session.id = restored \/ pc = "entering"
  BY <1>1, NeverTakenBack DEF Shown
<1>3. CASE UNCHANGED vars
  BY <1>2, <1>3 DEF vars, Shown, Alive, MostRecent, Stored
<1>4. CASE Launch
  BY <1>4 DEF Launch, Shown, Alive, Shapes, Opening
<1>5. CASE Boot
  <2>1. /\ pc = "booting" /\ pc' = "idle" /\ unclear' \in BOOLEAN /\ MostRecent' = MostRecent
        /\ UNCHANGED <<window, deleted, restored>>
    BY <1>5 DEF Boot, MostRecent, Stored
  <2>2. ~unclear' => MostRecent = {session'.id}
    <3>1. SUFFICES ASSUME ~unclear' PROVE MostRecent = {session'.id}
      OBVIOUS
    <3>2. PICK x : x \in MostRecent /\ MostRecent = {x}
      BY <1>5, <3>1 DEF Boot, IsSingleton
    <3>3. session'.id \in MostRecent
      BY <1>5, <3>2 DEF Boot, Loaded
    <3> QED
      BY <3>2, <3>3
  <2> QED
    BY <1>2, <2>1, <2>2 DEF Shown
<1>6. CASE Adopt
  <2>1. /\ window = "adopting" /\ restored = NoChat
        /\ UNCHANGED <<session, pc, unclear, deleted, restored>>
    BY <1>6 DEF Adopt, Opening
  <2>2. CASE UNCHANGED files
    BY <1>2, <2>1, <2>2 DEF Shown, Alive, MostRecent, Stored
  <2>3. CASE Adopts
    <3>1. MostRecent' = {1}
      BY <1>1, <2>3, FirstAdoption, LegacySaved DEF Adopts, MostRecent
    <3>2. MostRecent \subseteq {1}
      BY <1>1, <2>3, FirstAdoption DEF MostRecent
    <3> QED
      BY <1>2, <2>1, <3>1, <3>2 DEF Shown, Alive
  <2> QED
    BY <1>6, <2>1, <2>2, <2>3 DEF Adopt, Adopts, SaveFails
<1>7. CASE AdoptRemoves
  BY <1>2, <1>7 DEF AdoptRemoves, Shown, Alive, MostRecent, Stored, Opening
<1>8. CASE Restore
  <2>1. /\ window = "restoring" /\ window' = "open"
        /\ restored' \in MostRecent \/ restored' = NoChat
        /\ UNCHANGED <<pc, session, unclear, deleted>> /\ MostRecent' = MostRecent
    BY <1>8 DEF Restore, MostRecent, Stored
  <2> QED
    BY <1>2, <2>1 DEF Shown, Alive
<1>9. CASE SetupFails \/ TurnStarts \/ Summarize \/ TurnSaved \/ Leave
  <2>1. /\ window' = "open" /\ Alive
        /\ pc # "entering" /\ pc' # "booting" /\ session'.id = session.id
        /\ UNCHANGED <<unclear, deleted, restored>>
    <3>1. CASE Summarize
      BY <3>1, Summarized DEF Summarize, Opening, Shapes, Alive
    <3>2. CASE SetupFails \/ TurnStarts \/ TurnSaved \/ Leave
      BY <3>2 DEF SetupFails, TurnStarts, TurnSaved, Leave, Receives, Opening, Shapes, Alive
    <3> QED
      BY <1>9, <3>1, <3>2
  <2> QED
    BY <1>2, <2>1 DEF Shown
<1>10. CASE Switch \/ Enter
  <2>1. /\ window' = "open" /\ pc' # "booting"
        /\ pc' = "entering" \/ restored' = NoChat
    BY <1>10 DEF Switch, Enter, Opening
  <2> QED
    BY <2>1 DEF Shown
<1>11. CASE Send \/ PressSwitch
  BY <1>2, <1>11 DEF Send, PressSwitch, Shown, Alive, MostRecent, Stored
<1>12. ASSUME NEW c \in Stored, Delete(c) PROVE Shown'
  <2>1. /\ window' = "open"
        /\ files' = [x \in Stored \ {c} |-> files[x]] /\ deleted' = deleted \cup {c}
        /\ UNCHANGED <<pc, session, unclear, restored>>
    BY <1>12 DEF Delete, Restrict
  <2>2. \A r \in MostRecent : r # c => r \in MostRecent'
    BY <2>1 DEF MostRecent, Stored
  <2> QED
    BY <1>2, <2>1, <2>2 DEF Shown, Alive
<1>13. CASE Crash
  BY <1>13 DEF Crash, Shown, Alive
<1> QED
  BY <1>3, <1>4, <1>5, <1>6, <1>7, <1>8, <1>9, <1>10, <1>11, <1>12, <1>13
     DEF Next, Worker, Window, User

-----------------------------------------------------------------------------
LEMMA InitIInv == Init => IInv
<1> SUFFICES ASSUME Init PROVE IInv
  OBVIOUS
<1> USE DEF Init, Nobody, NoChat, Stored, Alive
<1>1. Shapes
  <2>1. <<>> \in Seq(Prompts) /\ <<>> \in Seq(Commands)
    OBVIOUS
  <2>2. 0 \in 0 .. MaxPrompts
    BY ChatsAssumption DEF ChatsAssumption
  <2>3. files \in [{} -> [turns : Seq(Prompts), covered : Nat, at : Nat]] /\ DOMAIN files = {}
    OBVIOUS
  <2>4. /\ used \in {0, 1} /\ legacy = used /\ session = Nobody
        /\ Nobody \in [id : Nat, turns : Seq(Prompts), covered : Nat]
    BY <2>1
  <2>5. used \in Nat /\ legacy \in {NoChat, 1} /\ legacy <= used
    BY <2>4
  <2>6. /\ switches = 0 /\ deletes = 0 /\ crashes = 0 /\ clock = 0
        /\ failed = FALSE /\ readopted = FALSE /\ unclear = FALSE
        /\ deleted = {} /\ deletedOpen = {} /\ lastOpen = NoChat /\ restored = NoChat
        /\ pc = "off" /\ window = "off" /\ queue = <<>>
        /\ pressed = 0 /\ entered = 0
    OBVIOUS
  <2> QED
    BY <2>1, <2>2, <2>3, <2>4, <2>5, <2>6 DEF Shapes, Given, Places
<1>2. Opening /\ Early /\ Waiting /\ Line /\ Ahead /\ Written /\ Resurrected /\ Latest
  BY DEF Opening, Early, Waiting, Line, Before, Served, Ahead, Written, Resurrected, Latest
<1>3. Held /\ Separate
  BY DEF Held, Separate, Holds, Rising, Below, Apart
<1>4. Shown
  BY DEF Shown, MostRecent
<1> QED
  BY <1>1, <1>2, <1>3, <1>4 DEF IInv

THEOREM InductiveInvariant == Spec => []IInv
<1>1. IInv /\ [Next]_vars => IInv'
  BY ChatsAssumption, ShapesStep, OpeningStep, EarlyStep, WaitingStep, HeldStep, SeparateStep,
     LineStep, AheadStep, WrittenStep, ResurrectedStep, LatestStep, ShownStep DEF IInv
<1>2. QED
  BY <1>1, InitIInv, PTL DEF Spec

(* Variables keep their types, files bear ids that were given out, and the *)
(* worker has a session whenever it may need one (worker.rs:68-74).        *)
THEOREM TypeCorrect == Spec => []TypeOK
<1>1. IInv => TypeOK
  <2> SUFFICES ASSUME IInv PROVE TypeOK
    OBVIOUS
  <2>1. \A c \in Stored : /\ TurnsOf(c) \in Seq(Prompts) /\ files[c].covered \in Nat
                          /\ files[c].at \in 0 .. clock
    BY DEF IInv, Shapes, TurnsOf
  <2>2. ASSUME NEW i \in DOMAIN queue PROVE queue[i].kind \in {"prompt", "open", "new"}
    <3>1. queue[i] \in Commands
      BY DEF IInv, Shapes
    <3> QED
      BY <3>1 DEF Commands
  <2> QED
    BY <2>1, <2>2 DEF IInv, Shapes, TypeOK, Given, NoChat
<1>2. QED
  BY <1>1, InductiveInvariant, PTL

(* A prompt is answered in the chat of the last press before it, and none  *)
(* is in two chats, or twice in one, whatever was switched, deleted, lost  *)
(* or adopted (chat.rs:267-270 of mc-core).                                *)
THEOREM PromptsLandInTheirChat == Spec => PromptsLandWhereAimed
<1>1. IInv => OneChatPerPrompt
  <2> SUFFICES ASSUME IInv PROVE OneChatPerPrompt
    OBVIOUS
  <2>1. ASSUME NEW c \in Stored PROVE IsInjective(TurnsOf(c))
    <3>1. /\ Rising(TurnsOf(c)) /\ Len(TurnsOf(c)) \in Nat
          /\ DOMAIN TurnsOf(c) = 1 .. Len(TurnsOf(c))
          /\ \A i \in DOMAIN TurnsOf(c) : TurnsOf(c)[i] \in Nat
      <4>1. TurnsOf(c) \in Seq(Prompts)
        BY DEF IInv, Shapes, TurnsOf
      <4>2. \A i \in DOMAIN TurnsOf(c) : TurnsOf(c)[i] \in Nat
        <5>1. Prompts \subseteq Nat
          BY DEF Prompts, LegacyPrompt
        <5>2. \A i \in DOMAIN TurnsOf(c) : TurnsOf(c)[i] \in Prompts
          BY <4>1, ElementOfSeq
        <5> QED
          BY <5>1, <5>2
      <4>3. Len(TurnsOf(c)) \in Nat /\ DOMAIN TurnsOf(c) = 1 .. Len(TurnsOf(c))
        BY <4>1
      <4> QED
        BY <4>2, <4>3 DEF IInv, Held, Holds
    <3>2. ASSUME NEW i \in DOMAIN TurnsOf(c), NEW j \in DOMAIN TurnsOf(c),
                 TurnsOf(c)[i] = TurnsOf(c)[j]
          PROVE  i = j
      <4>1. ~(i < j) /\ ~(j < i)
        BY <3>1, <3>2 DEF Rising
      <4> QED
        BY <3>1, <4>1
    <3> QED
      BY <3>2 DEF IsInjective
  <2>2. ASSUME NEW c \in Stored, NEW d \in Stored, c # d
        PROVE  Range(TurnsOf(c)) \cap Range(TurnsOf(d)) = {}
    <3>1. Apart(TurnsOf(c), TurnsOf(d))
      BY <2>2 DEF IInv, Separate
    <3> QED
      BY <3>1 DEF Range, Apart
  <2> QED
    BY <2>1, <2>2 DEF OneChatPerPrompt
<1>2. ASSUME IInv, [Next]_vars, pc = "idle", pc' = "turn"
      PROVE  \E i \in DOMAIN queue :
               /\ queue[i].kind = "prompt" /\ queue[i].press = entered
               /\ session' = [session EXCEPT !.turns = Append(@, queue[i].what)]
  <2>1. TurnStarts
    BY <1>2, TurnsEndSaved
  <2>2. 1 \in DOMAIN queue /\ queue[1] = Head(queue) /\ queue[1].kind = "prompt"
    BY <1>2, <2>1, Received DEF TurnStarts, Receives, IInv
  <2>3. queue[1].press = entered
    BY <1>2, <2>2 DEF IInv, Line, IsPrompt, Before, Served
  <2> QED
    BY <2>1, <2>2, <2>3 DEF TurnStarts
<1>3. QED
  BY <1>1, <1>2, InductiveInvariant, PTL DEF Spec, PromptsLandWhereAimed

(* What the worker has in memory is on the disk but for the turn in flight *)
(* (worker.rs:25-27, 144-146).                                             *)
THEOREM OnlyTheTurnInFlightIsLost == Spec => []AtMostTheTurnInFlight
<1>1. IInv => AtMostTheTurnInFlight
  <2> SUFFICES ASSUME IInv, Alive, ~failed, ~readopted, session.turns # <<>>,
                      session.id \notin deleted
               PROVE  \/ session.id \in Stored /\ Loaded(session.id) = session
                      \/ /\ pc = "turn"
                         /\ LET before == SubSeq(session.turns, 1, Len(session.turns) - 1) IN
                              IF session.id \in Stored THEN TurnsOf(session.id) = before
                                                       ELSE before = <<>>
    BY DEF AtMostTheTurnInFlight
  <2>1. CASE pc = "turn"
    BY <2>1 DEF IInv, Written
  <2>2. CASE pc # "turn"
    BY <2>2 DEF IInv, Written, Shapes, Loaded
  <2> QED
    BY <2>1, <2>2
<1>2. QED
  BY <1>1, InductiveInvariant, PTL

(* Only a chat that was open when it was deleted can come back             *)
(* (library.rs:112-118).                                                   *)
THEOREM DeletedChatsStayAway == Spec => []OnlyTheOpenChatComesBack
<1>1. IInv => OnlyTheOpenChatComesBack
  BY DEF IInv, Resurrected, OnlyTheOpenChatComesBack
<1>2. QED
  BY <1>1, InductiveInvariant, PTL

(* The chat the window restores is the one the worker resumes, whichever   *)
(* of the two threads is first (android's lib.rs:58, desktop's main.rs:50).*)
THEOREM ShownIsResumed == Spec => []ResumesWhatIsShown
<1>1. IInv => ResumesWhatIsShown
  BY DEF IInv, Shown, ResumesWhatIsShown
<1>2. QED
  BY <1>1, InductiveInvariant, PTL

(* A restart opens the chat that was opened last, or one written in the    *)
(* same tick of the clock (worker.rs:92-97).                               *)
THEOREM TheLastIsReopened == Spec => ReopensTheLast
<1>1. ASSUME IInv, [Next]_vars
      PROVE  pc = "booting" /\ pc' = "idle" /\ lastOpen \in Stored /\ ~failed /\ ~readopted =>
               files[session'.id].at = files[lastOpen].at
  <2> SUFFICES ASSUME pc = "booting", pc' = "idle", lastOpen \in Stored, ~failed, ~readopted
               PROVE  files[session'.id].at = files[lastOpen].at
    OBVIOUS
  <2>1. Boot
    BY <1>1 DEF Next, Worker, Window, User, vars, Launch, Adopt, AdoptRemoves, Restore, SetupFails,
       TurnStarts, Summarize, TurnSaved, Leave, Switch, Enter, Receives, Send, PressSwitch, Delete,
       Crash
  <2>2. lastOpen \in MostRecent
    BY <1>1 DEF IInv, Latest, MostRecent
  <2>3. session'.id \in MostRecent
    BY <2>1, <2>2 DEF Boot, Loaded
  <2>4. files[session'.id].at \in Nat /\ files[lastOpen].at \in Nat
    BY <1>1, <2>3 DEF IInv, Shapes, MostRecent
  <2> QED
    BY <2>2, <2>3, <2>4 DEF MostRecent
<1>2. QED
  BY <1>1, InductiveInvariant, PTL DEF Spec, ReopensTheLast

(* Only a deletion loses a chat, and no write takes a prompt out of one    *)
(* but for those its summary stands for (library.rs:57-72, store.rs:44-51, *)
(* session.rs:197-202).                                                    *)
THEOREM NothingIsEverForgotten == Spec => NothingIsForgotten
<1>1. ASSUME IInv, [Next]_vars, NEW c \in 1 .. used, Kept(c) PROVE Kept(c)'
  <2>1. deleted \subseteq deleted' /\ (Stored \subseteq Stored' \/ \E d \in Stored : Delete(d))
    BY <1>1, DirectorySteps, SessionSaved, LegacySaved, ChatsAssumption
       DEF IInv, SavesSession, Adopts, Delete, Stored
  <2>2. CASE \E d \in Stored : Delete(d)
    BY <1>1, <2>2 DEF Delete, Restrict, Kept, Stored
  <2>3. CASE Stored \subseteq Stored'
    <3>1. legacy' = legacy \/ legacy \in Stored
      BY <1>1 DEF Next, Worker, Window, User, vars, Launch, Boot, Adopt, AdoptRemoves, Restore,
         SetupFails, TurnStarts, Summarize, TurnSaved, Leave, Switch, Enter, Send, PressSwitch,
         Delete, Crash, IInv, Opening
    <3> QED
      BY <1>1, <2>1, <2>3, <3>1 DEF Kept
  <2> QED
    BY <2>1, <2>2, <2>3
<1>2. ASSUME IInv, [Next]_vars, ~readopted', NEW c \in Stored \ deleted'
      PROVE  IsPrefix(TurnsOf(c), TurnsOf(c)') /\ files[c].covered <= files'[c].covered
  <2>1. files[c].turns \in Seq(Prompts) /\ files[c].covered \in Nat
    BY <1>2 DEF IInv, Shapes
  <2>2. IsPrefix(files[c].turns, files[c].turns) /\ files[c].covered <= files[c].covered
    BY <2>1, PrefixLaws
  <2>3. CASE files'[c] = files[c]
    BY <2>2, <2>3 DEF TurnsOf
  <2>4. CASE SavesSession /\ c = session.id
    <3>1. files'[c].turns = session.turns /\ files'[c].covered = session.covered
      BY <1>2, <2>4, SessionSaved DEF SavesSession, IInv
    <3>2. IsPrefix(files[c].turns, session.turns) /\ files[c].covered <= session.covered
      BY <1>2, <2>4, NeverTakenBack DEF SavesSession, IInv, Ahead, TurnsOf
    <3> QED
      BY <3>1, <3>2 DEF TurnsOf
  <2>5. CASE Adopts
    <3>1. /\ c = 1 /\ TurnsOf(1) = <<LegacyPrompt>> /\ TurnsOf(1)' = <<LegacyPrompt>>
          /\ files[1].covered = 0 /\ files'[1].covered = 0
      BY <1>2, <2>5, FirstAdoption, ChatsAssumption DEF IInv
    <3> QED
      BY <2>2, <3>1 DEF TurnsOf
  <2>6. CASE \E d \in Stored : Delete(d)
    BY <1>2, <2>2, <2>6 DEF Delete, Restrict, TurnsOf, Stored
  <2> QED
    BY <1>2, <2>3, <2>4, <2>5, <2>6, DirectorySteps, SessionSaved DEF IInv, SavesSession
<1>3. ASSUME IInv, [Next]_vars
      PROVE  /\ \A c \in 1 .. used : Kept(c) => Kept(c)'
             /\ ~readopted' => \A c \in Stored \ deleted' :
                  /\ IsPrefix(TurnsOf(c), TurnsOf(c)')
                  /\ files[c].covered <= files'[c].covered
  BY <1>1, <1>2, <1>3
<1>4. QED
  BY <1>3, InductiveInvariant, PTL DEF Spec, NothingIsForgotten
=============================================================================
