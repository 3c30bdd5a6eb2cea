---------------------------- MODULE Screen_proofs ----------------------------
(***************************************************************************)
(* What Screen guarantees for any number of prompts, chats and fragments,  *)
(* and any capacity of the bus.                                            *)
(*                                                                         *)
(* What is on the screen and what is still to be read off the bus make up  *)
(* the worker's conversation, from the moment both tasks of the window are *)
(* past the last chat that was opened.  Before that moment the screen may  *)
(* hold anything: what clears it, and what loads it, is yet to be read.    *)
(***************************************************************************)
EXTENDS Screen, SequenceTheorems, TLAPS

IsStart(i) == sent[i].kind = "TurnStarted"
IsOpen(i)  == sent[i].kind = "SessionOpened"
IsEnd(i)   == sent[i].kind \in {"TurnEnded", "Failed"}

(* A turn has ended, or failed, after event m.                             *)
Ends(m) == \E k \in m + 1 .. Len(sent) : IsEnd(k)

(* Event m opened the chat the worker has; 0 for the one it began with.    *)
Since(m) ==
  /\ m \in 0 .. Len(sent)
  /\ m # 0 => IsOpen(m)
  /\ \A i \in m + 1 .. Len(sent) : ~IsOpen(i)

(* The prompts announced after event m.                                    *)
Announced(m) == {sent[i].what : i \in {k \in m + 1 .. Len(sent) : IsStart(k)}}

Below(turns, p) == \A i \in DOMAIN turns : turns[i] < p

-----------------------------------------------------------------------------
(* What waits in the queue is newer than all there is.                     *)
Asks(i) == queue[i].kind = "prompt"

Newer(p) ==
  /\ \A c \in Opened : Below(files[c], p)
  /\ Below(session.turns, p)
  /\ Below(log.items, p)
  /\ \A q \in refused : q < p
  /\ \A k \in 1 .. Len(sent) : IsStart(k) => sent[k].what < p

Waiting ==
  \A i \in 1 .. Len(queue) :
    /\ ~Asks(i) => queue[i].what \in Chat
    /\ Asks(i) =>
         /\ queue[i].what \in 1 .. asked /\ Newer(queue[i].what)
         /\ \A k \in 1 .. Len(queue) : i < k /\ Asks(k) => queue[i].what < queue[k].what

(* What the events are about.                                              *)
Meant ==
  \A i \in 1 .. Len(sent) :
    /\ IsOpen(i) => sent[i].what \in Opened
    /\ IsStart(i) =>
         /\ sent[i].what \in 1 .. asked
         /\ \A k \in 1 .. Len(sent) : i < k /\ IsStart(k) => sent[i].what < sent[k].what

Sorted ==
  /\ \A c \in Opened : InOrder(files[c]) /\ Range(files[c]) \cap refused = {}
  /\ InOrder(session.turns)

-----------------------------------------------------------------------------
(* The worker's chat is the one last opened, and its conversation is what  *)
(* is saved of it and what was announced since.                            *)
Opening ==
  /\ \E m \in 0 .. Len(sent) : Since(m)
  /\ \A m \in 1 .. Len(sent) : Since(m) => sent[m].what = session.id

Current ==
  \A m \in 0 .. Len(sent) : Since(m) =>
    (Range(files[session.id]) \cup Announced(m)) \ refused = Range(session.turns)

(* Every turn that is over was announced to be.                            *)
Ended ==
  /\ \A i \in 1 .. Len(sent) : IsStart(i) => pc = "turn" \/ Ends(i)
  /\ pc = "settling" => \A m \in 0 .. Len(sent) : Since(m) => Ends(m)

(* What was announced since is not saved before it has ended.              *)
Unsaved ==
  \A m \in 0 .. Len(sent) : Since(m) =>
    \/ Ends(m)
    \/ \A i \in m + 1 .. Len(sent) : IsStart(i) => Below(files[session.id], sent[i].what)

-----------------------------------------------------------------------------
(* Both tasks are past the last chat that was opened.                      *)
Past(m) == Since(m) /\ m <= collected /\ m <= followed

Freed == ~lost /\ log.busy => pc = "turn" \/ Ends(collected)

Clean ==
  ~lost => \A m \in 0 .. Len(sent) :
             Past(m) => Range(log.items) \ refused \subseteq Range(session.turns)

InStep == ~lost /\ ~overtaken => \A i \in 1 .. followed : IsOpen(i) => i <= collected

Complete ==
  /\ (Range(log.items) \cup Announced(collected)) \ refused = Range(session.turns)
  /\ InOrder(log.items)
  /\ \A i \in collected + 1 .. Len(sent) : IsStart(i) => Below(log.items, sent[i].what)

Shown == ~lost /\ ~overtaken => \A m \in 0 .. Len(sent) : Past(m) => Complete

IInv ==
  /\ TypeOK
  /\ Waiting /\ Meant /\ Sorted
  /\ Opening /\ Current /\ Ended /\ Unsaved
  /\ Freed /\ Clean /\ InStep /\ Shown

-----------------------------------------------------------------------------
LEMMA RangeOfAppend ==
  ASSUME NEW S, NEW s \in Seq(S), NEW x \in S
  PROVE  Range(Append(s, x)) = Range(s) \cup {x}
<1>1. /\ Append(s, x) \in Seq(S) /\ Len(Append(s, x)) = Len(s) + 1
      /\ \A i \in 1 .. Len(s) : Append(s, x)[i] = s[i]
      /\ Append(s, x)[Len(s) + 1] = x
  BY AppendProperties
<1>2. /\ Len(s) \in Nat /\ DOMAIN s = 1 .. Len(s)
      /\ DOMAIN Append(s, x) = 1 .. Len(s) + 1
  BY <1>1, LenProperties
<1>3. ASSUME NEW i \in 1 .. Len(s) + 1
      PROVE  Append(s, x)[i] = IF i = Len(s) + 1 THEN x ELSE s[i]
  BY <1>1, <1>2
<1>4. QED
  BY <1>2, <1>3 DEF Range

(* A later and larger prompt keeps a conversation in order.                *)
LEMMA OrderOfAppend ==
  ASSUME NEW s \in Seq(Nat), NEW x \in Nat, InOrder(s), Below(s, x)
  PROVE  InOrder(Append(s, x))
<1>1. /\ Append(s, x) \in Seq(Nat) /\ Len(Append(s, x)) = Len(s) + 1
      /\ \A i \in 1 .. Len(s) : Append(s, x)[i] = s[i]
      /\ Append(s, x)[Len(s) + 1] = x
  BY AppendProperties
<1>2. /\ Len(s) \in Nat /\ DOMAIN s = 1 .. Len(s)
      /\ DOMAIN Append(s, x) = 1 .. Len(s) + 1
  BY <1>1, LenProperties
<1>3. QED
  BY <1>1, <1>2 DEF InOrder, Below

LEMMA BelowOfAppend ==
  ASSUME NEW s \in Seq(Nat), NEW x \in Nat, NEW p \in Nat, Below(s, p), x < p
  PROVE  Below(Append(s, x), p)
<1>1. /\ Append(s, x) \in Seq(Nat) /\ Len(Append(s, x)) = Len(s) + 1
      /\ \A i \in 1 .. Len(s) : Append(s, x)[i] = s[i]
      /\ Append(s, x)[Len(s) + 1] = x
  BY AppendProperties
<1>2. Len(s) \in Nat /\ DOMAIN s = 1 .. Len(s) /\ DOMAIN Append(s, x) = 1 .. Len(s) + 1
  BY <1>1, LenProperties
<1>3. QED
  BY <1>1, <1>2 DEF Below

LEMMA NotAmong ==
  ASSUME NEW s \in Seq(Nat), NEW p \in Nat, Below(s, p)
  PROVE  p \notin Range(s)
BY DEF Below, Range

-----------------------------------------------------------------------------
(***************************************************************************)
(* What the worker's steps add to the bus.                                 *)
(***************************************************************************)
Kept ==
  /\ Len(sent') \in Nat /\ Len(sent) \in Nat /\ Len(sent) <= Len(sent')
  /\ \A i \in 1 .. Len(sent) : sent'[i] = sent[i]

Fresh == Len(sent) + 1 .. Len(sent')

Plain == Kept /\ \A i \in Fresh : ~IsStart(i)' /\ ~IsOpen(i)'

Announces(p) ==
  /\ Kept /\ Len(sent) < Len(sent')
  /\ sent'[Len(sent) + 1].kind = "TurnStarted" /\ sent'[Len(sent) + 1].what = p
  /\ \A i \in Fresh : ~IsOpen(i)' /\ (IsStart(i)' => i = Len(sent) + 1)

Opens(c) ==
  /\ Kept /\ Len(sent') = Len(sent) + 1
  /\ sent'[Len(sent) + 1].kind = "SessionOpened" /\ sent'[Len(sent) + 1].what = c

LEMMA Emitted ==
  ASSUME TypeOK, NEW es \in Seq(Events), Emit(es)
  PROVE  /\ sent' \in Seq(Events)
         /\ Kept /\ Len(sent') = Len(sent) + Len(es)
         /\ \A i \in Fresh : sent'[i] = es[i - Len(sent)]
<1>1. sent \in Seq(Events) /\ sent' = sent \o es
  BY DEF TypeOK, Emit
<1>2. /\ sent' \in Seq(Events)
      /\ Len(sent') = Len(sent) + Len(es)
      /\ \A i \in 1 .. Len(sent) + Len(es) : sent'[i] =
           IF i <= Len(sent) THEN sent[i] ELSE es[i - Len(sent)]
  BY <1>1, ConcatProperties
<1>3. Len(sent) \in Nat /\ Len(es) \in Nat
  BY <1>1, LenProperties
<1>4. QED
  BY <1>2, <1>3 DEF Kept, Fresh

LEMMA EmittedOne ==
  ASSUME TypeOK, NEW e \in Events, Emit(<<e>>)
  PROVE  /\ sent' \in Seq(Events)
         /\ Kept /\ Len(sent') = Len(sent) + 1 /\ sent'[Len(sent) + 1] = e
<1>1. <<e>> \in Seq(Events) /\ Len(<<e>>) = 1 /\ <<e>>[1] = e
  OBVIOUS
<1>2. /\ sent' \in Seq(Events) /\ Kept /\ Len(sent') = Len(sent) + 1
      /\ \A i \in Fresh : sent'[i] = <<e>>[i - Len(sent)]
  BY <1>1, Emitted
<1>3. Len(sent) + 1 \in Fresh /\ Len(sent) + 1 - Len(sent) = 1
  BY <1>2 DEF Kept, Fresh
<1>4. QED
  BY <1>1, <1>2, <1>3

(* The command that is received was the first in the queue.                *)
LEMMA Received ==
  ASSUME TypeOK, NEW kind, Receives(kind), queue' = Tail(queue)
  PROVE  /\ queue # <<>> /\ Head(queue) = queue[1] /\ 1 \in 1 .. Len(queue)
         /\ queue[1] \in Commands /\ queue[1].kind = kind
         /\ queue' \in Seq(Commands)
         /\ \A i \in 1 .. Len(queue') :
              i + 1 \in 1 .. Len(queue) /\ queue'[i] = queue[i + 1]
<1>1. queue \in Seq(Commands) /\ queue # <<>> /\ Head(queue).kind = kind
  BY DEF TypeOK, Receives
<1>2. /\ Len(queue) \in Nat \ {0}
      /\ Head(queue) = queue[1] /\ 1 \in 1 .. Len(queue)
  BY <1>1, EmptySeq
<1>3. /\ Head(queue) \in Commands /\ Tail(queue) \in Seq(Commands)
      /\ Len(Tail(queue)) = Len(queue) - 1
      /\ \A i \in 1 .. Len(Tail(queue)) : Tail(queue)[i] = queue[i + 1]
  BY <1>1, HeadTailProperties
<1>4. QED
  BY <1>1, <1>2, <1>3

LEMMA SetupFailsEmits ==
  ASSUME IInv, SetupFails
  PROVE  /\ sent' \in Seq(Events) /\ Announces(queue[1].what)
         /\ Len(sent') = Len(sent) + 2 /\ sent'[Len(sent) + 2].kind = "Failed"
<1>. DEFINE p == queue[1].what
            es == <<Event("TurnStarted", p), Event("Failed", 0)>>
<1>1. TypeOK /\ Head(queue) = queue[1] /\ queue[1] \in Commands
  BY Received DEF IInv, SetupFails
<1>2. Event("TurnStarted", p) \in Events /\ Event("Failed", 0) \in Events
  BY <1>1 DEF Event, Events, Kinds, Commands
<1>3. es \in Seq(Events) /\ Len(es) = 2
  BY <1>2
<1>4. Emit(es)
  BY <1>1 DEF SetupFails
<1>5. /\ sent' \in Seq(Events) /\ Kept /\ Len(sent') = Len(sent) + 2
      /\ \A i \in Fresh : sent'[i] = es[i - Len(sent)]
  BY <1>1, <1>3, <1>4, Emitted
<1>6. Fresh = {Len(sent) + 1, Len(sent) + 2}
  BY <1>5 DEF Kept, Fresh
<1>7. /\ sent'[Len(sent) + 1] = Event("TurnStarted", p)
      /\ sent'[Len(sent) + 2] = Event("Failed", 0)
  BY <1>5, <1>6 DEF Kept
<1>8. QED
  BY <1>5, <1>6, <1>7 DEF Announces, Kept, Event, IsStart, IsOpen, IsEnd

LEMMA TurnStartsEmits ==
  ASSUME IInv, TurnStarts
  PROVE  sent' \in Seq(Events) /\ Announces(queue[1].what) /\ Len(sent') = Len(sent) + 1
<1>. DEFINE e == Event("TurnStarted", queue[1].what)
<1>1. TypeOK /\ Head(queue) = queue[1] /\ queue[1] \in Commands
  BY Received DEF IInv, TurnStarts
<1>2. e \in Events
  BY <1>1 DEF Event, Events, Kinds, Commands
<1>3. Emit(<<e>>)
  BY <1>1 DEF TurnStarts
<1>4. sent' \in Seq(Events) /\ Kept /\ Len(sent') = Len(sent) + 1 /\ sent'[Len(sent) + 1] = e
  <2>. HIDE DEF e
  <2>. QED
    BY <1>1, <1>2, <1>3, EmittedOne
<1>5. QED
  BY <1>4 DEF Announces, Kept, Fresh, Event, IsStart, IsOpen

LEMMA PlainEmits ==
  ASSUME IInv, Streams \/ TurnEnds \/ TurnSaved
  PROVE  /\ sent' \in Seq(Events) /\ Plain
         /\ TurnEnds => /\ Len(sent') = Len(sent) + 1
                        /\ sent'[Len(sent) + 1].kind \in {"TurnEnded", "Failed"}
<1>1. CASE Emit(<<>>) /\ TurnSaved
  <2>1. sent' \in Seq(Events) /\ sent' = sent /\ Len(sent) \in Nat
    BY <1>1 DEF Emit, IInv, TypeOK
  <2>2. ~TurnEnds
    BY <1>1 DEF TurnEnds, TurnSaved
  <2>3. QED
    BY <2>1, <2>2 DEF Plain, Kept, Fresh
<1>2. ASSUME NEW kind \in {"TextDelta", "TurnEnded", "Failed", "Compacted"},
             Emit(<<Event(kind, 0)>>),
             TurnEnds => kind \in {"TurnEnded", "Failed"}
      PROVE  /\ sent' \in Seq(Events) /\ Plain
             /\ TurnEnds => /\ Len(sent') = Len(sent) + 1
                            /\ sent'[Len(sent) + 1].kind \in {"TurnEnded", "Failed"}
  <2>. DEFINE e == Event(kind, 0)
  <2>1. e \in Events
    BY DEF Event, Events, Kinds
  <2>2. sent' \in Seq(Events) /\ Kept /\ Len(sent') = Len(sent) + 1
        /\ sent'[Len(sent) + 1] = e
    <3>. HIDE DEF e
    <3>1. Emit(<<e>>) /\ TypeOK
      BY <1>2 DEF IInv, e
    <3>. QED
      BY <2>1, <3>1, EmittedOne
  <2>3. Fresh = {Len(sent) + 1}
    BY <2>2 DEF Fresh, Kept
  <2>4. QED
    BY <1>2, <2>2, <2>3 DEF Plain, Event, IsStart, IsOpen, IsEnd
<1>3. CASE TurnEnds
  <2>1. PICK kind \in {"TurnEnded", "Failed"} : Emit(<<Event(kind, 0)>>)
    BY <1>3 DEF TurnEnds
  <2>2. QED
    BY <1>2, <2>1
<1>4. CASE Streams
  <2>1. ~TurnEnds /\ Emit(<<Event("TextDelta", 0)>>)
    BY <1>4 DEF Streams, TurnEnds, IInv, TypeOK
  <2>2. QED
    BY <1>2, <2>1
<1>5. CASE TurnSaved /\ Emit(<<Event("Compacted", 0)>>)
  <2>1. ~TurnEnds
    BY <1>5 DEF TurnSaved, TurnEnds
  <2>2. QED
    BY <1>2, <1>5, <2>1
<1>6. QED
  BY <1>1, <1>3, <1>4, <1>5 DEF TurnSaved

LEMMA SwitchEmits ==
  ASSUME IInv, Switch
  PROVE  sent' \in Seq(Events) /\ Opens(queue[1].what) /\ queue[1].what \in Chat
<1>. DEFINE c == queue[1].what
            e == Event("SessionOpened", c)
<1>1. /\ TypeOK /\ Head(queue) = queue[1] /\ queue[1].kind = "open"
      /\ 1 \in 1 .. Len(queue)
  BY Received DEF IInv, Switch
<1>2. c \in Chat
  BY <1>1 DEF IInv, Waiting, Asks
<1>3. e \in Events
  BY <1>2 DEF Event, Events, Kinds
<1>4. Emit(<<e>>)
  BY <1>1 DEF Switch
<1>5. sent' \in Seq(Events) /\ Kept /\ Len(sent') = Len(sent) + 1 /\ sent'[Len(sent) + 1] = e
  <2>. HIDE DEF e
  <2>. QED
    BY <1>1, <1>3, <1>4, EmittedOne
<1>6. QED
  BY <1>2, <1>5 DEF Opens, Event, IsStart, IsOpen

-----------------------------------------------------------------------------
(* A step that opens no chat leaves what was opened last where it is, and  *)
(* what was announced grows by what it announces.                          *)
LEMMA SinceKept ==
  ASSUME Kept, \A i \in Fresh : ~IsOpen(i)', NEW m
  PROVE  Since(m)' <=> Since(m)
BY DEF Kept, Fresh, IsOpen, Since

LEMMA SinceOpens ==
  ASSUME NEW c, Opens(c), NEW m
  PROVE  Since(m)' <=> m = Len(sent) + 1
BY DEF Opens, Kept, IsOpen, Since

LEMMA EndsKept ==
  ASSUME Kept, NEW m \in Nat, Ends(m)
  PROVE  Ends(m)'
BY DEF Kept, Ends, IsEnd

LEMMA AnnouncedKept ==
  ASSUME Kept, \A i \in Fresh : ~IsStart(i)', NEW m \in 0 .. Len(sent)
  PROVE  Announced(m)' = Announced(m)
<1>1. \A i \in m + 1 .. Len(sent) : sent'[i] = sent[i] /\ i \in 1 .. Len(sent)
  BY DEF Kept
<1>2. {k \in m + 1 .. Len(sent') : sent'[k].kind = "TurnStarted"}
        = {k \in m + 1 .. Len(sent) : sent[k].kind = "TurnStarted"}
  BY <1>1 DEF Kept, Fresh, IsStart
<1>3. QED
  BY <1>1, <1>2 DEF Announced, IsStart

LEMMA AnnouncedGrows ==
  ASSUME NEW p, Announces(p), NEW m \in 0 .. Len(sent)
  PROVE  Announced(m)' = Announced(m) \cup {p}
<1>1. \A i \in m + 1 .. Len(sent) : sent'[i] = sent[i] /\ i \in 1 .. Len(sent)
  BY DEF Announces, Kept
<1>2. {k \in m + 1 .. Len(sent') : sent'[k].kind = "TurnStarted"}
        = {k \in m + 1 .. Len(sent) : sent[k].kind = "TurnStarted"} \cup {Len(sent) + 1}
  BY <1>1 DEF Announces, Kept, Fresh, IsStart
<1>3. ASSUME NEW x
      PROVE  x \in Announced(m)' <=> x \in Announced(m) \cup {p}
  BY <1>1, <1>2 DEF Announced, IsStart, Announces
<1>4. QED
  BY <1>3

(* What is read next of what was announced.                                *)
LEMMA AnnouncedNext ==
  ASSUME NEW m \in Nat, Len(sent) \in Nat, m < Len(sent)
  PROVE  Announced(m) = IF IsStart(m + 1) THEN {sent[m + 1].what} \cup Announced(m + 1)
                                          ELSE Announced(m + 1)
<1>1. m + 1 .. Len(sent) = {m + 1} \cup (m + 1 + 1 .. Len(sent))
  OBVIOUS
<1>2. ASSUME NEW x
      PROVE  x \in Announced(m) <=>
               (IsStart(m + 1) /\ x = sent[m + 1].what) \/ x \in Announced(m + 1)
  BY <1>1 DEF Announced
<1>3. QED
  BY <1>2

(* The prompt that is received is newer than everything.                   *)
LEMMA PromptIsNewer ==
  ASSUME IInv, Receives("prompt"), queue' = Tail(queue)
  PROVE  queue[1].what \in 1 .. asked /\ Newer(queue[1].what)
BY Received DEF IInv, Waiting, Asks

LEMMA Numbers ==
  ASSUME IInv
  PROVE  /\ Len(sent) \in Nat /\ asked \in Nat
         /\ session.id \in Opened /\ session.turns \in Seq(1 .. asked)
         /\ session.turns \in Seq(Nat) /\ log.items \in Seq(Nat)
         /\ \A c \in Opened : files[c] \in Seq(1 .. asked) /\ files[c] \in Seq(Nat)
         /\ collected \in 0 .. Len(sent) /\ followed \in 0 .. Len(sent)
<1>1. /\ asked \in Nat /\ sent \in Seq(Events)
      /\ session.id \in Opened /\ session.turns \in Seq(1 .. asked)
      /\ log.items \in Seq(1 .. asked)
      /\ \A c \in Opened : files[c] \in Seq(1 .. asked)
  BY DEF IInv, TypeOK
<1>2. 1 .. asked \subseteq Nat
  BY <1>1
<1>3. \A s \in Seq(1 .. asked) : s \in Seq(Nat)
  BY <1>2, SeqMonotonic
<1>4. QED
  BY <1>1, <1>3, LenProperties DEF IInv, TypeOK

-----------------------------------------------------------------------------
(***************************************************************************)
(* The initial state, and the types.                                       *)
(***************************************************************************)
LEMMA InitIInv == Init => IInv
<1>. SUFFICES ASSUME Init PROVE IInv
  OBVIOUS
<1>1. PICK c \in Chat : session = [id |-> c, turns |-> <<>>] /\ files = [d \in {c} |-> <<>>]
  BY DEF Init
<1>2. Opened = {c} /\ files[c] = <<>> /\ session.id = c /\ session.turns = <<>>
  BY <1>1 DEF Opened
<1>3. log.items = <<>> /\ ~log.busy /\ log = [items |-> <<>>, busy |-> FALSE]
  BY DEF Init, EmptyLog, Restored
<1>4. /\ sent = <<>> /\ Len(sent) = 0 /\ queue = <<>> /\ Len(queue) = 0
      /\ collected = 0 /\ followed = 0 /\ refused = {} /\ pc = "idle"
  BY DEF Init
<1>5. Range(<<>>) = {} /\ InOrder(<<>>) /\ DOMAIN <<>> = {}
  BY DEF Range, InOrder
<1>6. TypeOK
  <2>1. <<>> \in Seq(1 .. asked) /\ <<>> \in Seq(Commands) /\ <<>> \in Seq(Events)
    OBVIOUS
  <2>2. session \in [id : Opened, turns : Seq(1 .. asked)]
    BY <1>1, <1>2, <2>1
  <2>3. files \in [Opened -> Seq(1 .. asked)]
    BY <1>1, <1>2, <2>1
  <2>4. log \in [items : Seq(1 .. asked), busy : BOOLEAN]
    BY <1>3, <2>1
  <2>5. /\ fragments \in 0 .. MaxFragments
        /\ asked \in 0 .. MaxPrompts /\ switches \in 0 .. MaxSwitches
    BY ScreenAssumption DEF Init
  <2>6. queue \in Seq(Commands) /\ sent \in Seq(Events)
    BY <1>4, <2>1
  <2>7. collected \in 0 .. Len(sent) /\ followed \in 0 .. Len(sent)
    BY <1>4
  <2>8. QED
    BY <1>2, <1>4, <2>2, <2>3, <2>4, <2>5, <2>6, <2>7 DEF Init, TypeOK
<1>7. \A m \in 0 .. Len(sent) : m = 0 /\ Since(m) /\ Announced(m) = {}
  BY <1>4 DEF Since, Announced
<1>8. Waiting /\ Meant
  BY <1>4 DEF Waiting, Meant
<1>9. Sorted
  BY <1>2, <1>4, <1>5 DEF Sorted
<1>10. Opening /\ Ended /\ Unsaved
  BY <1>4, <1>7 DEF Opening, Ended, Unsaved
<1>11. Current /\ Clean /\ Shown
  BY <1>2, <1>3, <1>4, <1>5, <1>7 DEF Current, Clean, Shown, Complete
<1>12. Freed /\ InStep
  BY <1>3, <1>4 DEF Freed, InStep
<1>13. QED
  BY <1>6, <1>8, <1>9, <1>10, <1>11, <1>12 DEF IInv

LEMMA SessionAppended ==
  ASSUME IInv, TurnStarts
  PROVE  /\ session' \in [id : Opened, turns : Seq(1 .. asked)]
         /\ session'.id = session.id
         /\ session'.turns = Append(session.turns, queue[1].what)
         /\ Range(session'.turns) = Range(session.turns) \cup {queue[1].what}
         /\ queue[1].what \in 1 .. asked /\ Newer(queue[1].what)
<1>1. /\ queue[1].what \in 1 .. asked /\ Newer(queue[1].what)
      /\ Head(queue) = queue[1]
  BY PromptIsNewer, Received DEF TurnStarts, IInv
<1>2. session \in [id : Opened, turns : Seq(1 .. asked)]
  BY DEF IInv, TypeOK
<1>3. session' = [session EXCEPT !.turns = Append(@, queue[1].what)]
  BY <1>1 DEF TurnStarts
<1>4. Append(session.turns, queue[1].what) \in Seq(1 .. asked)
  BY <1>1, <1>2, AppendProperties
<1>5. session'.turns = Append(session.turns, queue[1].what)
  BY <1>2, <1>3
<1>6. session.turns \in Seq(1 .. asked)
  BY <1>2
<1>7. Range(Append(session.turns, queue[1].what)) = Range(session.turns) \cup {queue[1].what}
  <2>. DEFINE S == 1 .. asked
              s == session.turns
              q == queue[1].what
  <2>1. s \in Seq(S) /\ q \in S
    BY <1>1, <1>6
  <2>. HIDE DEF S, s, q
  <2>2. Range(Append(s, q)) = Range(s) \cup {q}
    BY <2>1, RangeOfAppend
  <2>3. QED
    BY <2>2 DEF s, q
<1>8. QED
  BY <1>1, <1>2, <1>3, <1>4, <1>5, <1>7

LEMMA Switched ==
  ASSUME IInv, Switch
  PROVE  LET c == queue[1].what IN
         /\ c \in Chat /\ Opened' = Opened \cup {c}
         /\ session'.id = c /\ session'.turns = IF c \in Opened THEN files[c] ELSE <<>>
         /\ \A d \in Opened' : files'[d] = IF d \in Opened THEN files[d] ELSE <<>>
         /\ files' \in [Opened' -> Seq(1 .. asked)]
         /\ session' \in [id : Opened', turns : Seq(1 .. asked)]
<1>. DEFINE c == queue[1].what
<1>1. Head(queue) = queue[1] /\ c \in Chat
  BY Received, SwitchEmits DEF Switch, IInv
<1>2. /\ session' = [id |-> c, turns |-> IF c \in Opened THEN files[c] ELSE <<>>]
      /\ files' = [d \in Opened \cup {c} |-> IF d \in Opened THEN files[d] ELSE <<>>]
  BY <1>1 DEF Switch
<1>3. Opened' = Opened \cup {c}
  BY <1>2 DEF Opened
<1>4. files \in [Opened -> Seq(1 .. asked)] /\ <<>> \in Seq(1 .. asked)
  BY DEF IInv, TypeOK
<1>5. (IF c \in Opened THEN files[c] ELSE <<>>) \in Seq(1 .. asked)
  BY <1>4
<1>6. session' \in [id : Opened', turns : Seq(1 .. asked)]
  BY <1>2, <1>3, <1>5
<1>7. files' \in [Opened' -> Seq(1 .. asked)]
  BY <1>2, <1>3, <1>4
<1>8. \A d \in Opened' : files'[d] = IF d \in Opened THEN files[d] ELSE <<>>
  BY <1>2, <1>3
<1>9. QED
  BY <1>1, <1>2, <1>3, <1>6, <1>7, <1>8

LEMMA Saved ==
  ASSUME IInv, TurnSaved
  PROVE  /\ Opened' = Opened /\ files' \in [Opened -> Seq(1 .. asked)]
         /\ files'[session.id] = session.turns
         /\ \A d \in Opened \ {session.id} : files'[d] = files[d]
         /\ session' = session /\ pc = "settling" /\ pc' = "idle" /\ queue' = queue
         /\ asked' = asked /\ refused' = refused
<1>1. files \in [Opened -> Seq(1 .. asked)] /\ session.id \in Opened
      /\ session.turns \in Seq(1 .. asked)
  BY DEF IInv, TypeOK
<1>2. files' = [files EXCEPT ![session.id] = session.turns]
  BY DEF TurnSaved
<1>3. QED
  BY <1>1, <1>2 DEF TurnSaved, Opened

(* What collect_events makes of each event.                                *)
LEMMA Applied ==
  ASSUME IInv, Collect
  PROVE  /\ collected' = collected + 1 /\ collected < Len(sent)
         /\ collected' \in 1 .. Len(sent) /\ collected \in Nat
         /\ LET i == collected + 1 IN
            /\ IsStart(i) =>
                 /\ sent[i].what \in 1 .. asked
                 /\ log'.items = Append(log.items, sent[i].what) /\ log'.busy
            /\ IsEnd(i) => log'.items = log.items /\ ~log'.busy
            /\ IsOpen(i) => log'.items = <<>> /\ ~log'.busy
            /\ ~IsStart(i) /\ ~IsOpen(i) => log'.items = log.items
            /\ ~IsStart(i) /\ ~IsOpen(i) /\ ~IsEnd(i) => log' = log
         /\ log' \in [items : Seq(1 .. asked), busy : BOOLEAN]
<1>. DEFINE i == collected + 1
<1>1. /\ collected' = i /\ collected < Len(sent) /\ collected \in Nat /\ Len(sent) \in Nat
      /\ i \in 1 .. Len(sent)
  BY Numbers DEF Collect
<1>2. log' = Apply(sent[i]) /\ log \in [items : Seq(1 .. asked), busy : BOOLEAN]
  BY <1>1 DEF Collect, IInv, TypeOK
<1>3. CASE IsStart(i)
  <2>1. sent[i].what \in 1 .. asked
    BY <1>1, <1>3 DEF IInv, Meant
  <2>2. log' = [items |-> Append(log.items, sent[i].what), busy |-> TRUE]
    BY <1>2, <1>3 DEF Apply, IsStart
  <2>3. Append(log.items, sent[i].what) \in Seq(1 .. asked)
    BY <1>2, <2>1, AppendProperties
  <2>4. QED
    BY <1>1, <1>3, <2>1, <2>2, <2>3 DEF IsStart, IsEnd, IsOpen
<1>4. CASE IsEnd(i)
  <2>1. log' = [log EXCEPT !.busy = FALSE]
    BY <1>2, <1>4 DEF Apply, IsEnd
  <2>2. QED
    BY <1>1, <1>2, <1>4, <2>1 DEF IsStart, IsEnd, IsOpen
<1>5. CASE IsOpen(i)
  <2>1. log' = [items |-> <<>>, busy |-> FALSE] /\ <<>> \in Seq(1 .. asked)
    BY <1>2, <1>5 DEF Apply, IsOpen, EmptyLog, Restored
  <2>2. QED
    BY <1>1, <1>5, <2>1 DEF IsStart, IsEnd, IsOpen
<1>6. CASE ~IsStart(i) /\ ~IsEnd(i) /\ ~IsOpen(i)
  <2>1. log' = log
    BY <1>2, <1>6 DEF Apply, IsStart, IsEnd, IsOpen
  <2>2. QED
    BY <1>1, <1>2, <1>6, <2>1
<1>7. QED
  BY <1>3, <1>4, <1>5, <1>6

(* And what follow_open_chats does.                                        *)
LEMMA Loaded ==
  ASSUME IInv, Follow
  PROVE  /\ followed' = followed + 1 /\ followed < Len(sent)
         /\ followed' \in 1 .. Len(sent) /\ followed \in Nat
         /\ LET i == followed + 1 IN
            /\ IsOpen(i) =>
                 /\ sent[i].what \in Opened
                 /\ log'.items = files[sent[i].what] /\ ~log'.busy
                 /\ ~overtaken' =>
                      i = collected /\ \A k \in i + 1 .. Len(sent) : ~IsEnd(k)
            /\ ~IsOpen(i) => log' = log
         /\ overtaken => overtaken'
         /\ log' \in [items : Seq(1 .. asked), busy : BOOLEAN] /\ overtaken' \in BOOLEAN
<1>. DEFINE i == followed + 1
<1>1. /\ followed' = i /\ followed < Len(sent) /\ followed \in Nat /\ Len(sent) \in Nat
      /\ i \in 1 .. Len(sent)
  BY Numbers DEF Follow
<1>2. overtaken' = (overtaken \/ (sent[i].kind = "SessionOpened" /\ OutOfStep(i)))
  BY <1>1 DEF Follow
<1>3. CASE IsOpen(i)
  <2>1. sent[i].what \in Opened
    BY <1>1, <1>3 DEF IInv, Meant
  <2>2. log' = [items |-> files[sent[i].what], busy |-> FALSE]
    BY <1>1, <1>3 DEF Follow, IsOpen, Restored
  <2>3. files[sent[i].what] \in Seq(1 .. asked)
    BY <2>1, Numbers
  <2>4. ~overtaken' => i = collected /\ \A k \in i + 1 .. Len(sent) : ~IsEnd(k)
    BY <1>2, <1>3 DEF IsOpen, OutOfStep, IsEnd
  <2>5. QED
    BY <1>1, <1>2, <1>3, <2>1, <2>2, <2>3, <2>4 DEF IInv, TypeOK
<1>4. CASE ~IsOpen(i)
  <2>1. log' = log
    BY <1>1, <1>4 DEF Follow, IsOpen
  <2>2. QED
    BY <1>1, <1>2, <1>4, <2>1 DEF IInv, TypeOK
<1>5. QED
  BY <1>3, <1>4

(* A task that lags goes on later; if nothing but fragments is lost, what  *)
(* it skips is fragments.                                                  *)
LEMMA Skipped ==
  ASSUME IInv, NEW at \in 0 .. Len(sent), Lagging(at)
  PROVE  /\ Oldest \in 0 .. Len(sent) /\ at < Oldest
         /\ ~LosesMore(at) =>
              \A k \in at + 1 .. Oldest : ~IsStart(k) /\ ~IsOpen(k) /\ ~IsEnd(k)
BY Numbers, ScreenAssumption DEF Lagging, Oldest, LosesMore, IsStart, IsOpen, IsEnd

-----------------------------------------------------------------------------
LEMMA UserAsks ==
  ASSUME IInv, User
  PROVE  /\ UNCHANGED <<files, session, pc, fragments, sent, collected, followed, log,
                        refused, lost, overtaken>>
         /\ asked' \in 0 .. MaxPrompts /\ switches' \in 0 .. MaxSwitches /\ asked <= asked'
         /\ \E e \in Commands :
              /\ queue' \in Seq(Commands) /\ Len(queue') = Len(queue) + 1
              /\ Len(queue) \in Nat
              /\ \A i \in 1 .. Len(queue) : queue'[i] = queue[i]
              /\ queue'[Len(queue) + 1] = e
              /\ e.kind = "prompt" => e.what = asked + 1 /\ asked' = asked + 1
              /\ e.kind # "prompt" => e.what \in Chat
<1>1. /\ queue \in Seq(Commands) /\ Len(queue) \in Nat
      /\ asked \in 0 .. MaxPrompts /\ switches \in 0 .. MaxSwitches
      /\ MaxPrompts \in Nat /\ MaxSwitches \in Nat
  BY LenProperties, ScreenAssumption DEF IInv, TypeOK
<1>2. CASE Send
  <2>. DEFINE e == [kind |-> "prompt", what |-> asked + 1]
  <2>1. e \in Commands /\ queue' = Append(queue, e)
    BY <1>1, <1>2 DEF Send, Commands
  <2>2. /\ queue' \in Seq(Commands) /\ Len(queue') = Len(queue) + 1
        /\ \A i \in 1 .. Len(queue) : queue'[i] = queue[i]
        /\ queue'[Len(queue) + 1] = e
    BY <1>1, <2>1, AppendProperties
  <2>3. QED
    BY <1>1, <1>2, <2>1, <2>2 DEF Send, seen
<1>3. ASSUME NEW c \in Chat, PressSwitch(c)
      PROVE  \E e \in Commands :
               /\ queue' \in Seq(Commands) /\ Len(queue') = Len(queue) + 1
               /\ \A i \in 1 .. Len(queue) : queue'[i] = queue[i]
               /\ queue'[Len(queue) + 1] = e
               /\ e.kind # "prompt" /\ e.what \in Chat
  <2>. DEFINE e == [kind |-> "open", what |-> c]
  <2>1. e \in Commands /\ queue' = Append(queue, e)
    BY <1>3 DEF PressSwitch, Commands
  <2>2. /\ queue' \in Seq(Commands) /\ Len(queue') = Len(queue) + 1
        /\ \A i \in 1 .. Len(queue) : queue'[i] = queue[i]
        /\ queue'[Len(queue) + 1] = e
    BY <1>1, <2>1, AppendProperties
  <2>3. QED
    BY <2>1, <2>2
<1>4. CASE \E c \in Chat : PressSwitch(c)
  <2>1. PICK c \in Chat : PressSwitch(c)
    BY <1>4
  <2>2. /\ asked' = asked /\ switches' \in 0 .. MaxSwitches
        /\ UNCHANGED <<files, session, pc, fragments, sent, collected, followed, log,
                       refused, lost, overtaken>>
    BY <1>1, <2>1 DEF PressSwitch, seen
  <2>3. QED
    BY <1>1, <1>3, <2>1, <2>2
<1>5. QED
  BY <1>2, <1>4 DEF User

LEMMA TypeStep ==
  ASSUME IInv, Next
  PROVE  TypeOK'
<1>. TypeOK
  BY DEF IInv
<1>1. ASSUME Kept PROVE collected \in 0 .. Len(sent') /\ followed \in 0 .. Len(sent')
  BY <1>1, Numbers DEF Kept
<1>2. CASE SetupFails
  <2>1. queue' \in Seq(Commands) /\ sent' \in Seq(Events) /\ Kept
        /\ refused' \subseteq 1 .. asked
    BY <1>2, SetupFailsEmits, PromptIsNewer, Received DEF SetupFails, TypeOK, Announces
  <2>2. QED
    BY <1>1, <1>2, <2>1 DEF SetupFails, TypeOK, Opened, seen
<1>3. CASE TurnStarts
  <2>1. queue' \in Seq(Commands) /\ sent' \in Seq(Events) /\ Kept
    BY <1>3, TurnStartsEmits, Received DEF TurnStarts, Announces
  <2>2. fragments' \in 0 .. MaxFragments /\ pc' = "turn"
    BY <1>3, ScreenAssumption DEF TurnStarts
  <2>3. QED
    BY <1>1, <1>3, <2>1, <2>2, SessionAppended DEF TurnStarts, TypeOK, Opened, seen
<1>4. CASE Streams
  <2>1. sent' \in Seq(Events) /\ Kept
    BY <1>4, PlainEmits DEF Plain
  <2>2. fragments' \in 0 .. MaxFragments
    BY <1>4, ScreenAssumption DEF Streams, TypeOK
  <2>3. QED
    BY <1>1, <1>4, <2>1, <2>2 DEF Streams, TypeOK, Opened, seen
<1>5. CASE TurnEnds
  <2>1. sent' \in Seq(Events) /\ Kept
    BY <1>5, PlainEmits DEF Plain
  <2>2. QED
    BY <1>1, <1>5, <2>1 DEF TurnEnds, TypeOK, Opened, seen
<1>6. CASE TurnSaved
  <2>1. sent' \in Seq(Events) /\ Kept
    BY <1>6, PlainEmits DEF Plain
  <2>2. Opened' = Opened /\ files' \in [Opened -> Seq(1 .. asked)]
    BY <1>6, Saved
  <2>3. QED
    BY <1>1, <1>6, <2>1, <2>2 DEF TurnSaved, TypeOK, seen
<1>7. CASE Switch
  <2>1. queue' \in Seq(Commands) /\ sent' \in Seq(Events) /\ Kept
    BY <1>7, SwitchEmits, Received DEF Switch, Opens
  <2>2. /\ Opened' \subseteq Chat /\ files' \in [Opened' -> Seq(1 .. asked)]
        /\ session' \in [id : Opened', turns : Seq(1 .. asked)]
    BY <1>7, Switched DEF TypeOK
  <2>3. QED
    BY <1>1, <1>7, <2>1, <2>2 DEF Switch, TypeOK, seen
<1>8. CASE Collect
  <2>1. collected' \in 0 .. Len(sent)
    BY <1>8, Applied, Numbers
  <2>2. QED
    BY <1>8, <2>1, Applied DEF Collect, TypeOK, Opened, seen
<1>9. CASE CollectLags
  <2>1. collected' \in 0 .. Len(sent)
    BY <1>9, Skipped, Numbers DEF CollectLags
  <2>2. lost' \in BOOLEAN
    BY <1>9 DEF CollectLags, TypeOK, LosesMore
  <2>3. QED
    BY <1>9, <2>1, <2>2 DEF CollectLags, TypeOK, Opened
<1>10. CASE Follow
  <2>1. followed' \in 0 .. Len(sent)
    BY <1>10, Loaded, Numbers
  <2>2. QED
    BY <1>10, <2>1, Loaded DEF Follow, TypeOK, Opened
<1>11. CASE FollowLags
  <2>1. followed' \in 0 .. Len(sent)
    BY <1>11, Skipped, Numbers DEF FollowLags
  <2>2. lost' \in BOOLEAN
    BY <1>11 DEF FollowLags, TypeOK, LosesMore
  <2>3. QED
    BY <1>11, <2>1, <2>2 DEF FollowLags, TypeOK, Opened
<1>12. CASE User
  <2>1. 1 .. asked \subseteq 1 .. asked'
    BY <1>12, UserAsks, Numbers, ScreenAssumption
  <2>2. \A s \in Seq(1 .. asked) : s \in Seq(1 .. asked')
    BY <2>1, SeqMonotonic
  <2>3. /\ session' \in [id : Opened', turns : Seq(1 .. asked')] /\ Opened' = Opened
        /\ files' \in [Opened' -> Seq(1 .. asked')]
        /\ log' \in [items : Seq(1 .. asked'), busy : BOOLEAN]
    <3>1. UNCHANGED <<session, files, log>>
      BY <1>12, UserAsks
    <3>2. /\ session \in [id : Opened, turns : Seq(1 .. asked)]
          /\ files \in [Opened -> Seq(1 .. asked)]
          /\ log \in [items : Seq(1 .. asked), busy : BOOLEAN]
      BY DEF TypeOK
    <3>3. QED
      BY <2>2, <3>1, <3>2 DEF Opened
  <2>4. queue' \in Seq(Commands)
    BY <1>12, UserAsks
  <2>5. QED
    BY <1>12, <2>1, <2>3, <2>4, UserAsks DEF TypeOK
<1>13. QED
  BY <1>2, <1>3, <1>4, <1>5, <1>6, <1>7, <1>8, <1>9, <1>10, <1>11, <1>12 DEF Next, Worker

-----------------------------------------------------------------------------
(* What was newer than everything stays so unless it is itself used.       *)
LEMMA NewerKept ==
  ASSUME IInv, Next, NEW p \in Nat, Newer(p),
         Receives("prompt") /\ queue' = Tail(queue) => queue[1].what < p
  PROVE  Newer(p)'
<1>. DEFINE q == queue[1].what
<1>1. /\ \A c \in Opened : Below(files[c], p)
      /\ Below(session.turns, p) /\ Below(log.items, p)
      /\ \A r \in refused : r < p
      /\ \A k \in 1 .. Len(sent) : IsStart(k) => sent[k].what < p
  BY DEF Newer
<1>2. Below(<<>>, p)
  BY DEF Below
<1>3. ASSUME Plain PROVE \A k \in 1 .. Len(sent') : IsStart(k)' => sent'[k].what < p
  <2>1. ASSUME NEW k \in 1 .. Len(sent'), IsStart(k)' PROVE sent'[k].what < p
    <3>1. k \in 1 .. Len(sent) /\ sent'[k] = sent[k]
      BY <1>3, <2>1 DEF Plain, Kept, Fresh
    <3>2. QED
      BY <1>1, <2>1, <3>1 DEF IsStart
  <2>2. QED
    BY <2>1
<1>4. ASSUME Announces(q), q < p
      PROVE  \A k \in 1 .. Len(sent') : IsStart(k)' => sent'[k].what < p
  <2>1. ASSUME NEW k \in 1 .. Len(sent'), IsStart(k)' PROVE sent'[k].what < p
    <3>1. CASE k \in 1 .. Len(sent)
      BY <1>1, <1>4, <2>1, <3>1 DEF Announces, Kept, IsStart
    <3>2. CASE k \in Fresh
      BY <1>4, <2>1, <3>2 DEF Announces
    <3>3. QED
      BY <1>4, <3>1, <3>2 DEF Announces, Kept, Fresh
  <2>2. QED
    BY <2>1
<1>5. CASE SetupFails
  <2>1. q < p /\ Announces(q) /\ refused' = refused \cup {q}
    BY <1>5, SetupFailsEmits, Received DEF SetupFails, IInv
  <2>2. QED
    BY <1>1, <1>4, <1>5, <2>1 DEF SetupFails, Newer, Opened
<1>6. CASE TurnStarts
  <2>1. q < p /\ Announces(q) /\ q \in Nat
    BY <1>6, TurnStartsEmits, PromptIsNewer DEF TurnStarts
  <2>2. Below(session'.turns, p)
    <3>1. session'.turns = Append(session.turns, q) /\ session.turns \in Seq(Nat)
      BY <1>6, SessionAppended, Numbers
    <3>2. QED
      BY <1>1, <2>1, <3>1, BelowOfAppend
  <2>3. QED
    BY <1>1, <1>4, <1>6, <2>1, <2>2 DEF TurnStarts, Newer, Opened
<1>7. CASE Streams \/ TurnEnds
  BY <1>1, <1>3, <1>7, PlainEmits DEF Streams, TurnEnds, Newer, Opened
<1>8. CASE TurnSaved
  <2>1. \A c \in Opened' : Below(files'[c], p)
    BY <1>1, <1>8, Saved
  <2>2. QED
    BY <1>1, <1>3, <1>8, <2>1, PlainEmits DEF TurnSaved, Newer
<1>9. CASE Switch
  <2>1. \A c \in Opened' : Below(files'[c], p)
    BY <1>1, <1>2, <1>9, Switched
  <2>2. Below(session'.turns, p)
    BY <1>1, <1>2, <1>9, Switched
  <2>3. \A k \in 1 .. Len(sent') : IsStart(k)' => sent'[k].what < p
    <3>1. ASSUME NEW k \in 1 .. Len(sent'), IsStart(k)' PROVE sent'[k].what < p
      <4>1. k \in 1 .. Len(sent) /\ sent'[k] = sent[k]
        BY <1>9, <3>1, SwitchEmits DEF Opens, Kept, IsStart
      <4>2. QED
        BY <1>1, <3>1, <4>1 DEF IsStart
    <3>2. QED
      BY <3>1
  <2>4. QED
    BY <1>1, <1>9, <2>1, <2>2, <2>3 DEF Switch, Newer
<1>10. CASE Collect
  <2>1. Below(log'.items, p)
    <3>1. CASE IsStart(collected + 1)
      <4>1. /\ sent[collected + 1].what \in Nat /\ sent[collected + 1].what < p
            /\ log'.items = Append(log.items, sent[collected + 1].what)
        BY <1>1, <1>10, <3>1, Applied
      <4>2. QED
        BY <1>1, <4>1, BelowOfAppend, Numbers
    <3>2. CASE ~IsStart(collected + 1)
      BY <1>1, <1>2, <1>10, <3>2, Applied
    <3>3. QED
      BY <3>1, <3>2
  <2>2. QED
    BY <1>1, <1>10, <2>1 DEF Collect, Newer, Opened, IsStart
<1>11. CASE Follow
  <2>1. Below(log'.items, p)
    BY <1>1, <1>11, Loaded
  <2>2. QED
    BY <1>1, <1>11, <2>1 DEF Follow, Newer, Opened, IsStart
<1>12. CASE CollectLags \/ FollowLags
  BY <1>1, <1>12 DEF CollectLags, FollowLags, Newer, Opened, IsStart
<1>13. CASE User
  BY <1>1, <1>13, UserAsks DEF Newer, Opened, IsStart
<1>14. QED
  BY <1>5, <1>6, <1>7, <1>8, <1>9, <1>10, <1>11, <1>12, <1>13 DEF Next, Worker

LEMMA WaitingStep ==
  ASSUME IInv, Next
  PROVE  Waiting'
<1>1. ASSUME NEW i \in 1 .. Len(queue'), NEW p, p = queue'[i].what
      PROVE  /\ queue'[i].kind # "prompt" => p \in Chat
             /\ queue'[i].kind = "prompt" =>
                  /\ p \in 1 .. asked' /\ Newer(p)'
                  /\ \A k \in 1 .. Len(queue') :
                       i < k /\ queue'[k].kind = "prompt" => p < queue'[k].what
  <2>1. ASSUME NEW j \in 1 .. Len(queue)
        PROVE  /\ queue[j].kind # "prompt" => queue[j].what \in Chat
               /\ queue[j].kind = "prompt" =>
                    /\ queue[j].what \in 1 .. asked /\ Newer(queue[j].what)
                    /\ \A k \in 1 .. Len(queue) :
                         j < k /\ queue[k].kind = "prompt" => queue[j].what < queue[k].what
    BY DEF IInv, Waiting, Asks
  <2>2. CASE queue' = queue /\ asked' = asked
    <3>1. ASSUME queue[i].kind = "prompt" PROVE Newer(p)'
      <4>1. ~(Receives("prompt") /\ queue' = Tail(queue))
        <5>1. queue \in Seq(Commands)
          BY DEF IInv, TypeOK
        <5>2. ASSUME queue # <<>>, queue = Tail(queue) PROVE FALSE
          BY <5>1, <5>2, HeadTailProperties, LenProperties
        <5>3. QED
          BY <2>2, <5>2 DEF Receives
      <4>2. p \in Nat /\ Newer(p)
        BY <1>1, <2>1, <2>2, <3>1
      <4>3. QED
        BY <4>1, <4>2, NewerKept
    <3>2. QED
      BY <1>1, <2>1, <2>2, <3>1
  <2>3. ASSUME NEW kind, Receives(kind), queue' = Tail(queue), asked' = asked,
               kind = "prompt" \/ ~Receives("prompt")
        PROVE  /\ queue'[i].kind # "prompt" => p \in Chat
               /\ queue'[i].kind = "prompt" =>
                    /\ p \in 1 .. asked' /\ Newer(p)'
                    /\ \A k \in 1 .. Len(queue') :
                         i < k /\ queue'[k].kind = "prompt" => p < queue'[k].what
    <3>1. /\ 1 \in 1 .. Len(queue) /\ queue[1].kind = kind
          /\ \A k \in 1 .. Len(queue') : k + 1 \in 1 .. Len(queue) /\ queue'[k] = queue[k + 1]
      BY <2>3, Received DEF IInv
    <3>2. i + 1 \in 1 .. Len(queue) /\ p = queue[i + 1].what
      BY <1>1, <3>1
    <3>3. ASSUME queue'[i].kind = "prompt" PROVE Newer(p)'
      <4>1. p \in Nat /\ Newer(p)
        BY <2>1, <3>1, <3>2, <3>3
      <4>2. Receives("prompt") => queue[1].what < p
        <5>1. 1 < i + 1
          OBVIOUS
        <5>2. queue[i + 1].kind = "prompt"
          BY <3>1, <3>3
        <5>3. Receives("prompt") => queue[1].kind = "prompt"
          BY <2>3, <3>1
        <5>4. QED
          BY <2>1, <3>1, <3>2, <5>1, <5>2, <5>3
      <4>3. QED
        BY <4>1, <4>2, NewerKept
    <3>4. ASSUME queue'[i].kind = "prompt", NEW k \in 1 .. Len(queue'), i < k,
                 queue'[k].kind = "prompt"
          PROVE  p < queue'[k].what
      <4>1. k + 1 \in 1 .. Len(queue) /\ queue'[k] = queue[k + 1] /\ i + 1 < k + 1
        BY <3>1, <3>4
      <4>2. QED
        BY <2>1, <3>1, <3>2, <3>4, <4>1
    <3>5. QED
      BY <2>1, <2>3, <3>1, <3>2, <3>3, <3>4
  <2>4. CASE User
    <3>1. PICK e \in Commands :
            /\ queue' \in Seq(Commands) /\ Len(queue') = Len(queue) + 1
            /\ Len(queue) \in Nat
            /\ \A k \in 1 .. Len(queue) : queue'[k] = queue[k]
            /\ queue'[Len(queue) + 1] = e
            /\ e.kind = "prompt" => e.what = asked + 1 /\ asked' = asked + 1
            /\ e.kind # "prompt" => e.what \in Chat
      BY <2>4, UserAsks
    <3>2. asked <= asked' /\ asked \in Nat /\ asked' \in Nat
      BY <2>4, UserAsks, Numbers, ScreenAssumption
    <3>3. ~(Receives("prompt") /\ queue' = Tail(queue))
      <4>1. queue \in Seq(Commands)
        BY DEF IInv, TypeOK
      <4>2. ASSUME queue # <<>>, queue' = Tail(queue) PROVE FALSE
        BY <3>1, <4>1, <4>2, HeadTailProperties, LenProperties
      <4>3. QED
        BY <4>2 DEF Receives
    <3>4. CASE i \in 1 .. Len(queue)
      <4>1. p = queue[i].what /\ queue'[i] = queue[i]
        BY <1>1, <3>1, <3>4
      <4>2. ASSUME queue[i].kind = "prompt" PROVE Newer(p)'
        <5>1. p \in Nat /\ Newer(p)
          BY <2>1, <3>4, <4>1, <4>2
        <5>2. QED
          BY <3>3, <5>1, NewerKept
      <4>3. ASSUME queue[i].kind = "prompt", NEW k \in 1 .. Len(queue'), i < k,
                   queue'[k].kind = "prompt"
            PROVE  p < queue'[k].what
        <5>1. CASE k \in 1 .. Len(queue)
          BY <2>1, <3>1, <3>4, <4>1, <4>3, <5>1
        <5>2. CASE k = Len(queue) + 1
          <6>1. queue'[k].what = asked + 1 /\ p \in 1 .. asked
            BY <2>1, <3>1, <3>4, <4>1, <4>3, <5>2
          <6>2. QED
            BY <3>2, <6>1
        <5>3. QED
          BY <3>1, <5>1, <5>2
      <4>4. QED
        BY <2>1, <3>2, <3>4, <4>1, <4>2, <4>3
    <3>5. CASE i = Len(queue) + 1
      <4>1. p = e.what /\ queue'[i] = e
        BY <1>1, <3>1, <3>5
      <4>2. ASSUME e.kind = "prompt" PROVE p \in 1 .. asked' /\ Newer(p)'
        <5>1. p = asked + 1 /\ p \in Nat /\ p \in 1 .. asked'
          BY <3>1, <3>2, <4>1, <4>2
        <5>2. \A s \in Seq(1 .. asked) : Below(s, p)
          <6>1. ASSUME NEW s \in Seq(1 .. asked), NEW n \in DOMAIN s PROVE s[n] < p
            <7>1. s[n] \in 1 .. asked
              BY LenProperties
            <7>2. QED
              BY <3>2, <5>1, <7>1
          <6>2. QED
            BY <6>1 DEF Below
        <5>3. /\ \A c \in Opened : Below(files[c], p)
              /\ Below(session.turns, p) /\ Below(log.items, p)
          BY <5>2, Numbers DEF IInv, TypeOK
        <5>4. /\ \A r \in refused : r < p
              /\ \A k \in 1 .. Len(sent) : IsStart(k) => sent[k].what < p
          <6>1. refused \subseteq 1 .. asked
            BY DEF IInv, TypeOK
          <6>2. \A k \in 1 .. Len(sent) : IsStart(k) => sent[k].what \in 1 .. asked
            BY DEF IInv, Meant
          <6>3. \A r \in 1 .. asked : r < p
            BY <3>2, <5>1
          <6>4. QED
            BY <6>1, <6>2, <6>3
        <5>5. Newer(p)
          BY <5>3, <5>4 DEF Newer
        <5>6. QED
          BY <3>3, <5>1, <5>5, NewerKept
      <4>3. QED
        BY <3>1, <3>5, <4>1, <4>2
    <3>6. QED
      BY <3>1, <3>4, <3>5
  <2>5. CASE SetupFails \/ TurnStarts
    BY <2>3, <2>5 DEF SetupFails, TurnStarts
  <2>6. CASE Switch
    <3>1. ~Receives("prompt")
      BY <2>6 DEF Switch, Receives
    <3>2. QED
      BY <2>3, <2>6, <3>1 DEF Switch
  <2>7. QED
    BY <2>2, <2>4, <2>5, <2>6
    DEF Next, Worker, Streams, TurnEnds, TurnSaved, Collect, CollectLags, Follow, FollowLags
<1>2. QED
  BY <1>1 DEF Waiting, Asks, Newer

-----------------------------------------------------------------------------
LEMMA MeantStep ==
  ASSUME IInv, Next
  PROVE  Meant'
<1>. DEFINE q == queue[1].what
            Fits(i) ==
              /\ sent'[i].kind = "SessionOpened" => sent'[i].what \in Opened'
              /\ sent'[i].kind = "TurnStarted" =>
                   /\ sent'[i].what \in 1 .. asked'
                   /\ \A k \in 1 .. Len(sent') :
                        i < k /\ sent'[k].kind = "TurnStarted" => sent'[i].what < sent'[k].what
<1>. SUFFICES \A i \in 1 .. Len(sent') : Fits(i)
  BY DEF Meant, IsOpen, IsStart
<1>1. \A i \in 1 .. Len(sent) :
        /\ sent[i].kind = "SessionOpened" => sent[i].what \in Opened
        /\ sent[i].kind = "TurnStarted" =>
             /\ sent[i].what \in 1 .. asked
             /\ \A k \in 1 .. Len(sent) :
                  i < k /\ sent[k].kind = "TurnStarted" => sent[i].what < sent[k].what
  BY DEF IInv, Meant, IsOpen, IsStart
<1>2. ASSUME sent' = sent, Opened' = Opened, asked \in Nat, asked' \in Nat, asked <= asked'
      PROVE  \A i \in 1 .. Len(sent') : Fits(i)
  BY <1>1, <1>2
<1>3. ASSUME Plain, Opened' = Opened, asked' = asked
      PROVE  \A i \in 1 .. Len(sent') : Fits(i)
  <2>1. ASSUME NEW i \in 1 .. Len(sent'), sent'[i].kind \in {"SessionOpened", "TurnStarted"}
        PROVE  i \in 1 .. Len(sent) /\ sent'[i] = sent[i]
    BY <1>3, <2>1 DEF Plain, Kept, Fresh, IsStart, IsOpen
  <2>2. QED
    BY <1>1, <1>3, <2>1
<1>4. ASSUME Announces(q), q \in 1 .. asked, Newer(q), Opened' = Opened, asked' = asked
      PROVE  \A i \in 1 .. Len(sent') : Fits(i)
  <2>1. ASSUME NEW i \in 1 .. Len(sent'), sent'[i].kind \in {"SessionOpened", "TurnStarted"}
        PROVE  \/ i \in 1 .. Len(sent) /\ sent'[i] = sent[i]
               \/ i = Len(sent) + 1 /\ sent'[i].what = q /\ sent'[i].kind = "TurnStarted"
    BY <1>4, <2>1 DEF Announces, Kept, Fresh, IsStart, IsOpen
  <2>2. \A i \in 1 .. Len(sent) : sent[i].kind = "TurnStarted" => sent[i].what < q
    BY <1>4 DEF Newer, IsStart
  <2>3. Len(sent) \in Nat
    BY Numbers
  <2>4. QED
    BY <1>1, <1>4, <2>1, <2>2, <2>3
<1>5. ASSUME Opens(q), Opened' = Opened \cup {q}, asked' = asked
      PROVE  \A i \in 1 .. Len(sent') : Fits(i)
  <2>1. ASSUME NEW i \in 1 .. Len(sent')
        PROVE  \/ i \in 1 .. Len(sent) /\ sent'[i] = sent[i]
               \/ i = Len(sent) + 1 /\ sent'[i].what = q /\ sent'[i].kind = "SessionOpened"
    BY <1>5 DEF Opens, Kept
  <2>2. QED
    BY <1>1, <1>5, <2>1
<1>6. CASE SetupFails
  BY <1>4, <1>6, SetupFailsEmits, PromptIsNewer DEF SetupFails, Opened
<1>7. CASE TurnStarts
  BY <1>4, <1>7, TurnStartsEmits, PromptIsNewer DEF TurnStarts, Opened
<1>8. CASE Streams \/ TurnEnds
  BY <1>3, <1>8, PlainEmits DEF Streams, TurnEnds, Opened
<1>9. CASE TurnSaved
  BY <1>3, <1>9, PlainEmits, Saved
<1>10. CASE Switch
  BY <1>5, <1>10, SwitchEmits, Switched DEF Switch
<1>11. CASE Collect \/ CollectLags \/ Follow \/ FollowLags
  <2>1. sent' = sent /\ files' = files /\ asked' = asked
    BY <1>11 DEF Collect, CollectLags, Follow, FollowLags
  <2>2. QED
    BY <1>2, <2>1, Numbers DEF Opened
<1>12. CASE User
  <2>1. sent' = sent /\ files' = files /\ asked <= asked' /\ asked' \in Nat
    BY <1>12, UserAsks, ScreenAssumption
  <2>2. QED
    BY <1>2, <2>1, Numbers DEF Opened
<1>13. QED
  BY <1>6, <1>7, <1>8, <1>9, <1>10, <1>11, <1>12 DEF Next, Worker

LEMMA SortedStep ==
  ASSUME IInv, Next
  PROVE  Sorted'
<1>. DEFINE q == queue[1].what
<1>1. /\ \A c \in Opened : InOrder(files[c]) /\ Range(files[c]) \cap refused = {}
      /\ InOrder(session.turns)
  BY DEF IInv, Sorted
<1>2. InOrder(<<>>) /\ Range(<<>>) = {}
  BY DEF InOrder, Range
<1>3. CASE SetupFails
  <2>1. refused' = refused \cup {q} /\ Newer(q) /\ q \in Nat
    BY <1>3, PromptIsNewer, Received DEF SetupFails, IInv
  <2>2. \A c \in Opened : q \notin Range(files[c])
    BY <2>1, NotAmong, Numbers DEF Newer
  <2>3. QED
    BY <1>1, <1>3, <2>1, <2>2 DEF SetupFails, Sorted, Opened
<1>4. CASE TurnStarts
  <2>1. session'.turns = Append(session.turns, q) /\ q \in Nat /\ Below(session.turns, q)
    BY <1>4, SessionAppended DEF Newer
  <2>2. InOrder(session'.turns)
    BY <1>1, <2>1, OrderOfAppend, Numbers
  <2>3. QED
    BY <1>1, <1>4, <2>2 DEF TurnStarts, Sorted, Opened
<1>5. CASE TurnSaved
  <2>1. Range(session.turns) \cap refused = {}
    BY DEF IInv, Opening, Current
  <2>2. QED
    BY <1>1, <1>5, <2>1, Saved DEF Sorted
<1>6. CASE Switch
  <2>1. refused' = refused
    BY <1>6 DEF Switch
  <2>2. QED
    BY <1>1, <1>2, <1>6, <2>1, Switched DEF Sorted
<1>7. ASSUME UNCHANGED <<files, session, refused>> PROVE Sorted'
  BY <1>1, <1>7 DEF Sorted, Opened
<1>8. QED
  BY <1>3, <1>4, <1>5, <1>6, <1>7, UserAsks
  DEF Next, Worker, Streams, TurnEnds, Collect, CollectLags, Follow, FollowLags

-----------------------------------------------------------------------------
LEMMA OpeningStep ==
  ASSUME IInv, Next
  PROVE  Opening'
<1>. DEFINE q == queue[1].what
<1>1. /\ \E m \in 0 .. Len(sent) : Since(m)
      /\ \A m \in 1 .. Len(sent) : Since(m) => sent[m].what = session.id
  BY DEF IInv, Opening
<1>2. ASSUME Kept, \A i \in Fresh : ~IsOpen(i)', session'.id = session.id
      PROVE  Opening'
  <2>1. \A m : Since(m)' <=> Since(m)
    BY <1>2, SinceKept
  <2>2. ASSUME NEW m \in 1 .. Len(sent'), Since(m)' PROVE sent'[m].what = session'.id
    <3>1. Since(m) /\ m \in 1 .. Len(sent)
      BY <2>1, <2>2 DEF Since
    <3>2. QED
      BY <1>1, <1>2, <3>1 DEF Kept
  <2>3. \E m \in 0 .. Len(sent') : Since(m)'
    <3>1. PICK m \in 0 .. Len(sent) : Since(m)
      BY <1>1
    <3>2. m \in 0 .. Len(sent') /\ Since(m)'
      BY <1>2, <2>1, <3>1 DEF Kept
    <3>3. QED
      BY <3>2
  <2>4. QED
    BY <2>2, <2>3 DEF Opening
<1>3. CASE SetupFails
  BY <1>2, <1>3, SetupFailsEmits DEF SetupFails, Announces
<1>4. CASE TurnStarts
  BY <1>2, <1>4, TurnStartsEmits, SessionAppended DEF Announces
<1>5. CASE Streams \/ TurnEnds \/ TurnSaved
  BY <1>2, <1>5, PlainEmits DEF Plain, Streams, TurnEnds, TurnSaved
<1>6. CASE Switch
  <2>1. Opens(q) /\ session'.id = q
    BY <1>6, SwitchEmits, Switched
  <2>2. \A m : Since(m)' <=> m = Len(sent) + 1
    BY <2>1, SinceOpens
  <2>3. Len(sent) + 1 \in 1 .. Len(sent') /\ Len(sent) + 1 \in 0 .. Len(sent')
    BY <2>1 DEF Opens, Kept
  <2>4. QED
    BY <2>1, <2>2, <2>3 DEF Opening, Opens
<1>7. ASSUME UNCHANGED <<sent, session>> PROVE Opening'
  BY <1>7 DEF IInv, Opening, Since, IsOpen
<1>8. QED
  BY <1>3, <1>4, <1>5, <1>6, <1>7, UserAsks
  DEF Next, Worker, Collect, CollectLags, Follow, FollowLags

LEMMA CurrentStep ==
  ASSUME IInv, Next
  PROVE  Current'
<1>. DEFINE q == queue[1].what
<1>1. /\ \A m \in 0 .. Len(sent) : Since(m) =>
            (Range(files[session.id]) \cup Announced(m)) \ refused = Range(session.turns)
      /\ \E m \in 0 .. Len(sent) : Since(m)
  BY DEF IInv, Opening, Current
<1>2. ASSUME Kept, \A i \in Fresh : ~IsOpen(i)', NEW m \in 0 .. Len(sent'), Since(m)'
      PROVE  /\ m \in 0 .. Len(sent) /\ Since(m)
             /\ (Range(files[session.id]) \cup Announced(m)) \ refused = Range(session.turns)
  BY <1>1, <1>2, SinceKept DEF Since
<1>3. CASE SetupFails
  <2>1. Announces(q) /\ refused' = refused \cup {q} /\ UNCHANGED <<files, session>>
        /\ Newer(q) /\ q \in Nat
    BY <1>3, SetupFailsEmits, PromptIsNewer, Received DEF SetupFails, IInv
  <2>2. q \notin Range(session.turns)
    BY <2>1, NotAmong, Numbers DEF Newer
  <2>3. ASSUME NEW m \in 0 .. Len(sent'), Since(m)'
        PROVE  (Range(files'[session'.id]) \cup Announced(m)') \ refused'
                 = Range(session'.turns)
    <3>1. /\ m \in 0 .. Len(sent)
          /\ (Range(files[session.id]) \cup Announced(m)) \ refused = Range(session.turns)
      BY <1>2, <2>1, <2>3 DEF Announces
    <3>2. Announced(m)' = Announced(m) \cup {q}
      BY <2>1, <3>1, AnnouncedGrows
    <3>3. QED
      BY <2>1, <2>2, <3>1, <3>2
  <2>4. QED
    BY <2>3 DEF Current
<1>4. CASE TurnStarts
  <2>1. Announces(q) /\ UNCHANGED <<files, refused>>
        /\ session'.id = session.id /\ session'.turns = Append(session.turns, q)
        /\ q \in 1 .. asked /\ Newer(q)
    BY <1>4, TurnStartsEmits, SessionAppended DEF TurnStarts
  <2>2. Range(session'.turns) = Range(session.turns) \cup {q} /\ q \notin refused
    <3>1. Range(session'.turns) = Range(session.turns) \cup {q}
      BY <1>4, SessionAppended
    <3>2. q \in Nat /\ \A r \in refused : r < q
      BY <2>1 DEF Newer
    <3>3. QED
      BY <3>1, <3>2
  <2>3. ASSUME NEW m \in 0 .. Len(sent'), Since(m)'
        PROVE  (Range(files'[session'.id]) \cup Announced(m)') \ refused'
                 = Range(session'.turns)
    <3>1. /\ m \in 0 .. Len(sent)
          /\ (Range(files[session.id]) \cup Announced(m)) \ refused = Range(session.turns)
      BY <1>2, <2>1, <2>3 DEF Announces
    <3>2. Announced(m)' = Announced(m) \cup {q}
      BY <2>1, <3>1, AnnouncedGrows
    <3>3. QED
      BY <2>1, <2>2, <3>1, <3>2
  <2>4. QED
    BY <2>3 DEF Current
<1>5. CASE Streams \/ TurnEnds
  <2>1. Plain /\ UNCHANGED <<files, session, refused>>
    BY <1>5, PlainEmits DEF Streams, TurnEnds
  <2>2. ASSUME NEW m \in 0 .. Len(sent'), Since(m)'
        PROVE  (Range(files[session.id]) \cup Announced(m)') \ refused = Range(session.turns)
    <3>1. /\ m \in 0 .. Len(sent)
          /\ (Range(files[session.id]) \cup Announced(m)) \ refused = Range(session.turns)
      BY <1>2, <2>1, <2>2 DEF Plain
    <3>2. Announced(m)' = Announced(m)
      BY <2>1, <3>1, AnnouncedKept DEF Plain
    <3>3. QED
      BY <3>1, <3>2
  <2>3. QED
    BY <2>1, <2>2 DEF Current
<1>6. CASE TurnSaved
  <2>1. /\ Plain /\ files'[session.id] = session.turns
        /\ session' = session /\ refused' = refused
    BY <1>6, PlainEmits, Saved
  <2>2. ASSUME NEW m \in 0 .. Len(sent'), Since(m)'
        PROVE  (Range(session.turns) \cup Announced(m)') \ refused = Range(session.turns)
    <3>1. /\ m \in 0 .. Len(sent)
          /\ (Range(files[session.id]) \cup Announced(m)) \ refused = Range(session.turns)
      BY <1>2, <2>1, <2>2 DEF Plain
    <3>2. Announced(m)' = Announced(m)
      BY <2>1, <3>1, AnnouncedKept DEF Plain
    <3>3. QED
      BY <3>1, <3>2
  <2>3. QED
    BY <2>1, <2>2 DEF Current
<1>7. CASE Switch
  <2>1. /\ Opens(q) /\ session'.id = q /\ refused' = refused /\ Opened' = Opened \cup {q}
        /\ files'[q] = session'.turns
        /\ session'.turns = IF q \in Opened THEN files[q] ELSE <<>>
    BY <1>7, SwitchEmits, Switched DEF Switch
  <2>2. Range(session'.turns) \cap refused = {}
    BY <2>1 DEF IInv, Sorted, Range
  <2>3. ASSUME NEW m \in 0 .. Len(sent'), Since(m)' PROVE Announced(m)' = {}
    <3>1. m = Len(sent) + 1 /\ Len(sent') = Len(sent) + 1 /\ Len(sent) \in Nat
      BY <2>1, <2>3, SinceOpens DEF Opens, Kept
    <3>2. QED
      BY <3>1 DEF Announced
  <2>4. QED
    BY <2>1, <2>2, <2>3 DEF Current
<1>8. ASSUME UNCHANGED <<sent, session, files, refused>> PROVE Current'
  BY <1>8 DEF IInv, Current, Since, IsOpen, Announced, IsStart
<1>9. QED
  BY <1>3, <1>4, <1>5, <1>6, <1>7, <1>8, UserAsks
  DEF Next, Worker, Collect, CollectLags, Follow, FollowLags

LEMMA EndedStep ==
  ASSUME IInv, Next
  PROVE  Ended'
<1>. DEFINE q == queue[1].what
<1>1. /\ \A i \in 1 .. Len(sent) : IsStart(i) => pc = "turn" \/ Ends(i)
      /\ pc = "settling" => \A m \in 0 .. Len(sent) : Since(m) => Ends(m)
  BY DEF IInv, Ended
<1>2. CASE SetupFails
  <2>1. /\ Announces(q) /\ Len(sent') = Len(sent) + 2 /\ pc' = pc /\ pc = "idle"
        /\ sent'[Len(sent) + 2].kind = "Failed"
    BY <1>2, SetupFailsEmits DEF SetupFails, Receives
  <2>2. ASSUME NEW i \in 1 .. Len(sent'), IsStart(i)' PROVE Ends(i)'
    <3>1. i \in 1 .. Len(sent) + 1
      BY <2>1, <2>2 DEF Announces, Kept, Fresh
    <3>2. Len(sent) + 2 \in i + 1 .. Len(sent')
      BY <2>1, <3>1 DEF Announces, Kept
    <3>3. QED
      BY <2>1, <3>2 DEF Ends, IsEnd
  <2>3. QED
    BY <2>1, <2>2 DEF Ended
<1>3. CASE TurnStarts
  BY <1>3 DEF TurnStarts, Ended
<1>4. CASE Streams
  BY <1>4 DEF Streams, Ended
<1>5. CASE TurnEnds
  <2>1. /\ Plain /\ Len(sent') = Len(sent) + 1 /\ pc' = "settling"
        /\ sent'[Len(sent) + 1].kind \in {"TurnEnded", "Failed"}
    BY <1>5, PlainEmits DEF TurnEnds
  <2>2. ASSUME NEW m \in 0 .. Len(sent) PROVE Ends(m)'
    <3>1. Len(sent) + 1 \in m + 1 .. Len(sent')
      BY <2>1 DEF Plain, Kept
    <3>2. QED
      BY <2>1, <3>1 DEF Ends, IsEnd
  <2>3. ASSUME NEW i \in 1 .. Len(sent'), IsStart(i)' PROVE i \in 0 .. Len(sent)
    BY <2>1, <2>3 DEF Plain, Kept, Fresh
  <2>4. ASSUME NEW m \in 0 .. Len(sent'), Since(m)' PROVE m \in 0 .. Len(sent)
    BY <2>1, <2>4, SinceKept DEF Plain, Since
  <2>5. QED
    BY <2>2, <2>3, <2>4 DEF Ended
<1>6. CASE TurnSaved
  <2>1. Plain /\ pc = "settling" /\ pc' = "idle"
    BY <1>6, PlainEmits, Saved
  <2>2. ASSUME NEW i \in 1 .. Len(sent'), IsStart(i)' PROVE Ends(i)'
    <3>1. i \in 1 .. Len(sent) /\ IsStart(i)
      BY <2>1, <2>2 DEF Plain, Kept, Fresh, IsStart
    <3>2. Ends(i)
      BY <1>1, <2>1, <3>1
    <3>3. QED
      BY <2>1, <3>1, <3>2, EndsKept DEF Plain
  <2>3. QED
    BY <2>1, <2>2 DEF Ended
<1>7. CASE Switch
  <2>1. Opens(q) /\ pc' = pc /\ pc = "idle"
    BY <1>7, SwitchEmits DEF Switch, Receives
  <2>2. ASSUME NEW i \in 1 .. Len(sent'), IsStart(i)' PROVE Ends(i)'
    <3>1. i \in 1 .. Len(sent) /\ IsStart(i)
      BY <2>1, <2>2 DEF Opens, Kept, IsStart
    <3>2. Ends(i)
      BY <1>1, <2>1, <3>1
    <3>3. QED
      BY <2>1, <3>1, <3>2, EndsKept DEF Opens
  <2>3. QED
    BY <2>1, <2>2 DEF Ended
<1>8. ASSUME UNCHANGED <<sent, pc>> PROVE Ended'
  BY <1>1, <1>8 DEF Ended, Since, IsOpen, IsStart, Ends, IsEnd
<1>9. QED
  BY <1>2, <1>3, <1>4, <1>5, <1>6, <1>7, <1>8, UserAsks
  DEF Next, Worker, Collect, CollectLags, Follow, FollowLags

LEMMA UnsavedStep ==
  ASSUME IInv, Next
  PROVE  Unsaved'
<1>. DEFINE q == queue[1].what
            Late(m) == \A i \in m + 1 .. Len(sent) :
                         IsStart(i) => Below(files[session.id], sent[i].what)
<1>1. \A m \in 0 .. Len(sent) : Since(m) => Ends(m) \/ Late(m)
  BY DEF IInv, Unsaved
<1>2. ASSUME Kept, \A i \in Fresh : ~IsOpen(i)',
             NEW m \in 0 .. Len(sent'), Since(m)'
      PROVE  m \in 0 .. Len(sent) /\ Since(m) /\ (Ends(m)' \/ Late(m))
  <2>1. m \in 0 .. Len(sent) /\ Since(m)
    BY <1>2, SinceKept DEF Since
  <2>2. QED
    BY <1>1, <1>2, <2>1, EndsKept
<1>3. ASSUME \/ Plain
             \/ Announces(q) /\ Newer(q),
             files' = files, session'.id = session.id
      PROVE  Unsaved'
  <2>1. ASSUME NEW m \in 0 .. Len(sent'), Since(m)', Late(m)
        PROVE  Late(m)'
    <3>1. m \in 0 .. Len(sent)
      BY <1>2, <1>3, <2>1 DEF Plain, Announces
    <3>2. ASSUME NEW i \in m + 1 .. Len(sent'), IsStart(i)'
          PROVE  Below(files[session.id], sent'[i].what)
      <4>1. CASE i \in 1 .. Len(sent)
        <5>1. sent'[i] = sent[i] /\ i \in m + 1 .. Len(sent)
          BY <1>3, <3>1, <3>2, <4>1 DEF Plain, Announces, Kept
        <5>2. QED
          BY <2>1, <3>2, <5>1 DEF IsStart
      <4>2. CASE i \in Fresh
        <5>1. Announces(q) /\ Newer(q) /\ sent'[i].what = q
          BY <1>3, <3>2, <4>2 DEF Plain, Announces
        <5>2. QED
          BY <5>1, Numbers DEF Newer
      <4>3. QED
        BY <1>3, <3>1, <3>2, <4>1, <4>2 DEF Plain, Announces, Kept, Fresh
    <3>3. QED
      BY <1>3, <3>2
  <2>2. QED
    BY <1>2, <1>3, <2>1 DEF Unsaved, Plain, Announces
<1>4. CASE SetupFails
  BY <1>3, <1>4, SetupFailsEmits, PromptIsNewer DEF SetupFails
<1>5. CASE TurnStarts
  BY <1>3, <1>5, TurnStartsEmits, SessionAppended DEF TurnStarts
<1>6. CASE Streams \/ TurnEnds
  BY <1>3, <1>6, PlainEmits DEF Streams, TurnEnds
<1>7. CASE TurnSaved
  <2>1. Plain /\ pc = "settling"
    BY <1>7, PlainEmits, Saved
  <2>2. ASSUME NEW m \in 0 .. Len(sent'), Since(m)' PROVE Ends(m)'
    <3>1. m \in 0 .. Len(sent) /\ Since(m)
      BY <2>1, <2>2, <1>2 DEF Plain
    <3>2. Ends(m)
      BY <2>1, <3>1 DEF IInv, Ended
    <3>3. QED
      BY <2>1, <3>1, <3>2, EndsKept DEF Plain
  <2>3. QED
    BY <2>2 DEF Unsaved
<1>8. CASE Switch
  <2>1. Opens(q)
    BY <1>8, SwitchEmits
  <2>2. ASSUME NEW m \in 0 .. Len(sent'), Since(m)' PROVE m + 1 .. Len(sent') = {}
    BY <2>1, <2>2, SinceOpens DEF Opens, Kept
  <2>3. QED
    BY <2>2 DEF Unsaved
<1>9. ASSUME UNCHANGED <<sent, session, files>> PROVE Unsaved'
  BY <1>1, <1>9 DEF Unsaved, Since, IsOpen, IsStart, Ends, IsEnd
<1>10. QED
  BY <1>4, <1>5, <1>6, <1>7, <1>8, <1>9, UserAsks
  DEF Next, Worker, Collect, CollectLags, Follow, FollowLags

-----------------------------------------------------------------------------
(***************************************************************************)
(* The screen.                                                             *)
(***************************************************************************)
LEMMA WorkerLeavesScreen ==
  ASSUME IInv, Worker
  PROVE  /\ UNCHANGED <<collected, followed, log, lost, overtaken>>
         /\ Kept
         /\ ~Switch => \A i \in Fresh : ~IsOpen(i)'
         /\ Range(session.turns) \subseteq Range(session'.turns) \/ Switch
         /\ refused \subseteq refused'
<1>1. CASE SetupFails
  BY <1>1, SetupFailsEmits DEF SetupFails, Announces, seen
<1>2. CASE TurnStarts
  <2>1. Range(session'.turns) = Range(session.turns) \cup {queue[1].what}
    BY <1>2, SessionAppended
  <2>2. QED
    BY <1>2, <2>1, TurnStartsEmits DEF TurnStarts, Announces, seen
<1>3. CASE Streams \/ TurnEnds \/ TurnSaved
  BY <1>3, PlainEmits DEF Streams, TurnEnds, TurnSaved, Plain, seen
<1>4. CASE Switch
  BY <1>4, SwitchEmits DEF Switch, Opens, seen
<1>5. QED
  BY <1>1, <1>2, <1>3, <1>4 DEF Worker

(* A step of the worker takes neither task past another opened chat.       *)
LEMMA WorkerPastNothing ==
  ASSUME IInv, Worker, NEW m \in 0 .. Len(sent'), Past(m)'
  PROVE  m \in 0 .. Len(sent) /\ Past(m) /\ ~Switch
<1>1. /\ Kept /\ collected' = collected /\ followed' = followed
      /\ Since(m)' /\ m <= collected /\ m <= followed
      /\ collected \in 0 .. Len(sent)
  BY WorkerLeavesScreen, Numbers DEF Past
<1>2. ~Switch
  <2>1. SUFFICES ASSUME Switch PROVE FALSE
    OBVIOUS
  <2>2. m = Len(sent) + 1
    BY <1>1, <2>1, SwitchEmits, SinceOpens
  <2>3. QED
    BY <1>1, <2>2, Numbers
<1>3. Since(m)
  BY <1>1, <1>2, WorkerLeavesScreen, SinceKept
<1>4. QED
  BY <1>1, <1>2, <1>3 DEF Past, Since

LEMMA FreedStep ==
  ASSUME IInv, Next
  PROVE  Freed'
<1>. SUFFICES ASSUME ~lost', log'.busy PROVE pc' = "turn" \/ Ends(collected)'
  BY DEF Freed
<1>1. /\ ~lost /\ log.busy => pc = "turn" \/ Ends(collected)
      /\ collected \in 0 .. Len(sent) /\ Len(sent) \in Nat /\ followed \in 0 .. Len(sent)
  BY Numbers DEF IInv, Freed
<1>2. CASE Worker
  <2>1. /\ UNCHANGED <<collected, log, lost>> /\ Kept
        /\ Ends(collected) => Ends(collected)'
    BY <1>1, <1>2, WorkerLeavesScreen DEF Kept, Ends, IsEnd
  <2>2. pc = "turn" \/ Ends(collected)
    BY <1>1, <2>1
  <2>3. CASE TurnEnds
    <3>1. /\ Len(sent') = Len(sent) + 1
          /\ sent'[Len(sent) + 1].kind \in {"TurnEnded", "Failed"}
      BY <2>3, PlainEmits
    <3>2. Len(sent) + 1 \in collected' + 1 .. Len(sent')
      BY <1>1, <2>1, <3>1
    <3>3. QED
      BY <3>1, <3>2 DEF Ends, IsEnd
  <2>4. CASE SetupFails \/ TurnSaved \/ Switch
    BY <2>1, <2>2, <2>4 DEF SetupFails, TurnSaved, Switch, Receives
  <2>5. CASE TurnStarts \/ Streams
    BY <2>5 DEF TurnStarts, Streams
  <2>6. QED
    BY <1>2, <2>3, <2>4, <2>5 DEF Worker
<1>3. CASE Collect
  <2>. DEFINE i == collected + 1
  <2>1. /\ collected' = i /\ i \in 1 .. Len(sent) /\ ~IsOpen(i) /\ ~IsEnd(i)
        /\ ~IsStart(i) => log' = log
        /\ UNCHANGED <<sent, pc, lost>>
    BY <1>3, Applied DEF Collect, seen
  <2>2. CASE IsStart(i)
    <3>1. pc = "turn" \/ Ends(i)
      BY <2>1, <2>2 DEF IInv, Ended
    <3>2. QED
      BY <2>1, <3>1 DEF Ends, IsEnd
  <2>3. CASE ~IsStart(i)
    <3>1. pc = "turn" \/ Ends(collected)
      BY <1>1, <2>1, <2>3
    <3>2. Ends(collected) => Ends(i)
      BY <1>1, <2>1 DEF Ends
    <3>3. QED
      BY <2>1, <3>1, <3>2 DEF Ends, IsEnd
  <2>4. QED
    BY <2>2, <2>3
<1>4. CASE CollectLags
  <2>1. /\ collected' = Oldest /\ ~lost /\ ~LosesMore(collected) /\ Lagging(collected)
        /\ UNCHANGED <<sent, pc, log>>
    BY <1>4 DEF CollectLags
  <2>2. /\ Oldest \in 0 .. Len(sent) /\ collected < Oldest
        /\ \A k \in collected + 1 .. Oldest : ~IsEnd(k)
    BY <1>1, <2>1, Skipped
  <2>3. Ends(collected) => Ends(Oldest)
    BY <1>1, <2>2 DEF Ends
  <2>4. QED
    BY <1>1, <2>1, <2>3 DEF Ends, IsEnd, Oldest
<1>5. CASE Follow
  <2>1. log' = log /\ UNCHANGED <<sent, pc, lost, collected>>
    BY <1>5, Loaded DEF Follow
  <2>2. QED
    BY <1>1, <2>1 DEF Ends, IsEnd
<1>6. CASE FollowLags
  BY <1>1, <1>6 DEF FollowLags, Ends, IsEnd
<1>7. CASE User
  BY <1>1, <1>7, UserAsks DEF Ends, IsEnd
<1>8. QED
  BY <1>2, <1>3, <1>4, <1>5, <1>6, <1>7 DEF Next

LEMMA InStepStep ==
  ASSUME IInv, Next
  PROVE  InStep'
<1>. SUFFICES ASSUME ~lost', ~overtaken', NEW i \in 1 .. followed',
                     sent'[i].kind = "SessionOpened"
              PROVE  i <= collected'
  BY DEF InStep, IsOpen
<1>1. /\ ~lost /\ ~overtaken => \A k \in 1 .. followed : IsOpen(k) => k <= collected
      /\ collected \in 0 .. Len(sent) /\ Len(sent) \in Nat /\ followed \in 0 .. Len(sent)
  BY Numbers DEF IInv, InStep
<1>2. CASE Worker
  <2>1. UNCHANGED <<collected, followed, lost, overtaken>> /\ Kept
    BY <1>2, WorkerLeavesScreen
  <2>2. sent'[i] = sent[i] /\ i \in 1 .. followed
    BY <1>1, <2>1 DEF Kept
  <2>3. QED
    BY <1>1, <2>1, <2>2 DEF IsOpen
<1>3. CASE Collect
  BY <1>1, <1>3, Applied DEF Collect, IsOpen, seen
<1>4. CASE CollectLags
  <2>1. /\ collected' = Oldest /\ ~lost /\ Lagging(collected)
        /\ UNCHANGED <<sent, followed, overtaken>>
    BY <1>4 DEF CollectLags
  <2>2. Oldest \in 0 .. Len(sent) /\ collected < Oldest
    BY <1>1, <2>1, Skipped
  <2>3. i \in 1 .. followed /\ IsOpen(i)
    BY <2>1 DEF IsOpen
  <2>4. i <= collected
    BY <1>1, <2>1, <2>3
  <2>. HIDE DEF Oldest
  <2>5. QED
    BY <1>1, <2>1, <2>2, <2>4
<1>5. CASE Follow
  <2>1. /\ followed' = followed + 1 /\ ~overtaken
        /\ UNCHANGED <<sent, lost, collected>>
        /\ IsOpen(followed + 1) => followed + 1 = collected
    BY <1>5, Loaded DEF Follow
  <2>2. QED
    BY <1>1, <2>1 DEF IsOpen
<1>6. CASE FollowLags
  <2>1. /\ followed' = Oldest /\ ~lost /\ ~LosesMore(followed) /\ Lagging(followed)
        /\ UNCHANGED <<sent, collected, overtaken>>
    BY <1>6 DEF FollowLags
  <2>2. /\ Oldest \in 0 .. Len(sent)
        /\ \A k \in followed + 1 .. Oldest : ~IsOpen(k)
    BY <1>1, <2>1, Skipped
  <2>3. i \in 1 .. followed
    BY <1>1, <2>1, <2>2 DEF IsOpen
  <2>4. QED
    BY <1>1, <2>1, <2>3 DEF IsOpen
<1>7. CASE User
  BY <1>1, <1>7, UserAsks DEF IsOpen
<1>8. QED
  BY <1>2, <1>3, <1>4, <1>5, <1>6, <1>7 DEF Next

-----------------------------------------------------------------------------
(* What a task of the window takes without finding a chat opened there     *)
(* does not bring it past one.                                             *)
LEMMA PastBefore ==
  ASSUME IInv, sent' = sent, collected' \in Nat, followed' \in Nat,
         \A k \in collected + 1 .. collected' : ~IsOpen(k),
         \A k \in followed + 1 .. followed' : ~IsOpen(k),
         NEW m \in 0 .. Len(sent), Past(m)'
  PROVE  Past(m)
<1>1. Since(m) /\ m <= collected' /\ m <= followed'
  BY DEF Past, Since, IsOpen
<1>2. m # 0 => IsOpen(m)
  BY <1>1 DEF Since
<1>3. collected \in Nat /\ followed \in Nat
  BY Numbers
<1>4. m <= collected
  BY <1>1, <1>2, <1>3
<1>5. m <= followed
  BY <1>1, <1>2, <1>3
<1>6. QED
  BY <1>1, <1>4, <1>5 DEF Past

LEMMA LagsPastNothing ==
  ASSUME IInv, CollectLags \/ FollowLags, ~lost', NEW m \in 0 .. Len(sent), Past(m)'
  PROVE  Past(m) /\ ~lost /\ UNCHANGED <<sent, session, files, refused, log, overtaken>>
<1>1. collected \in 0 .. Len(sent) /\ followed \in 0 .. Len(sent) /\ Len(sent) \in Nat
  BY Numbers
<1>2. ~lost /\ UNCHANGED <<sent, session, files, refused, log, overtaken>>
  BY DEF CollectLags, FollowLags
<1>3. CASE CollectLags
  <2>1. /\ collected' = Oldest /\ followed' = followed
        /\ ~LosesMore(collected) /\ Lagging(collected)
    BY <1>3 DEF CollectLags
  <2>2. Oldest \in 0 .. Len(sent) /\ \A k \in collected + 1 .. Oldest : ~IsOpen(k)
    BY <1>1, <2>1, Skipped
  <2>. HIDE DEF Oldest
  <2>3. /\ collected' \in Nat /\ followed' \in Nat
        /\ \A k \in collected + 1 .. collected' : ~IsOpen(k)
        /\ \A k \in followed + 1 .. followed' : ~IsOpen(k)
    BY <1>1, <2>1, <2>2
  <2>4. QED
    BY <1>2, <2>3, PastBefore
<1>4. CASE FollowLags
  <2>1. /\ followed' = Oldest /\ collected' = collected
        /\ ~LosesMore(followed) /\ Lagging(followed)
    BY <1>4 DEF FollowLags
  <2>2. Oldest \in 0 .. Len(sent) /\ \A k \in followed + 1 .. Oldest : ~IsOpen(k)
    BY <1>1, <2>1, Skipped
  <2>. HIDE DEF Oldest
  <2>3. /\ collected' \in Nat /\ followed' \in Nat
        /\ \A k \in collected + 1 .. collected' : ~IsOpen(k)
        /\ \A k \in followed + 1 .. followed' : ~IsOpen(k)
    BY <1>1, <2>1, <2>2
  <2>4. QED
    BY <1>2, <2>3, PastBefore
<1>5. QED
  BY <1>3, <1>4

(* Both are past the last chat opened: the next event may be that one, or  *)
(* they were before.                                                       *)
LEMMA CollectPast ==
  ASSUME IInv, Collect, NEW m \in 0 .. Len(sent), Past(m)'
  PROVE  /\ Since(m) /\ m <= followed
         /\ \/ m = collected + 1 /\ IsOpen(m)
            \/ Past(m) /\ ~IsOpen(collected + 1)
<1>1. /\ sent' = sent /\ followed' = followed /\ collected' = collected + 1
      /\ collected + 1 \in 1 .. Len(sent)
      /\ collected \in Nat /\ followed \in Nat
  BY Applied, Numbers DEF Collect
<1>2. Since(m) /\ m <= collected + 1 /\ m <= followed
  BY <1>1 DEF Past, Since, IsOpen
<1>3. CASE m = collected + 1
  BY <1>1, <1>2, <1>3 DEF Since
<1>4. CASE m # collected + 1
  <2>1. m <= collected /\ collected + 1 \in m + 1 .. Len(sent)
    BY <1>1, <1>2, <1>4
  <2>2. QED
    BY <1>2, <2>1 DEF Past, Since
<1>5. QED
  BY <1>3, <1>4

LEMMA FollowPast ==
  ASSUME IInv, Follow, NEW m \in 0 .. Len(sent), Past(m)'
  PROVE  /\ Since(m) /\ m <= collected
         /\ \/ m = followed + 1 /\ IsOpen(m) /\ sent[m].what = session.id
            \/ Past(m) /\ ~IsOpen(followed + 1)
<1>1. /\ sent' = sent /\ collected' = collected /\ followed' = followed + 1
      /\ followed + 1 \in 1 .. Len(sent)
      /\ collected \in Nat /\ followed \in Nat
  BY Loaded, Numbers DEF Follow
<1>2. Since(m) /\ m <= followed + 1 /\ m <= collected
  BY <1>1 DEF Past, Since, IsOpen
<1>3. CASE m = followed + 1
  BY <1>1, <1>2, <1>3 DEF Since, IInv, Opening
<1>4. CASE m # followed + 1
  <2>1. m <= followed /\ followed + 1 \in m + 1 .. Len(sent)
    BY <1>1, <1>2, <1>4
  <2>2. QED
    BY <1>2, <2>1 DEF Past, Since
<1>5. QED
  BY <1>3, <1>4

LEMMA CleanStep ==
  ASSUME IInv, Next
  PROVE  Clean'
<1>. SUFFICES ASSUME ~lost', NEW m \in 0 .. Len(sent'), Past(m)'
              PROVE  Range(log'.items) \ refused' \subseteq Range(session'.turns)
  BY DEF Clean, Range
<1>1. \A k \in 0 .. Len(sent) :
        ~lost /\ Past(k) => Range(log.items) \ refused \subseteq Range(session.turns)
  BY DEF IInv, Clean
<1>2. CASE Worker
  <2>1. m \in 0 .. Len(sent) /\ Past(m) /\ ~Switch
    BY <1>2, WorkerPastNothing
  <2>2. /\ UNCHANGED <<log, lost>> /\ refused \subseteq refused'
        /\ Range(session.turns) \subseteq Range(session'.turns)
    BY <1>2, <2>1, WorkerLeavesScreen
  <2>3. QED
    BY <1>1, <2>1, <2>2
<1>3. CASE Collect
  <2>. DEFINE i == collected + 1
              p == sent[i].what
  <2>1. UNCHANGED <<sent, session, refused, lost>>
    BY <1>3 DEF Collect, seen
  <2>2. CASE IsOpen(i)
    BY <1>3, <2>2, Applied DEF Range
  <2>3. CASE ~IsOpen(i)
    <3>1. m \in 0 .. Len(sent) /\ Past(m) /\ Since(m)
      BY <1>3, <2>1, <2>3, CollectPast
    <3>2. Range(log.items) \ refused \subseteq Range(session.turns)
      BY <1>1, <2>1, <3>1
    <3>3. CASE IsStart(i)
      <4>1. p \in 1 .. asked /\ log'.items = Append(log.items, p)
        BY <1>3, <3>3, Applied
      <4>2. Range(log'.items) = Range(log.items) \cup {p}
        <5>1. p \in Nat /\ log.items \in Seq(Nat)
          BY <4>1, Numbers
        <5>. HIDE DEF p
        <5>2. QED
          BY <4>1, <5>1, RangeOfAppend
      <4>3. i \in m + 1 .. Len(sent)
        BY <1>3, <3>1, Applied, Numbers DEF Past
      <4>4. p \in Announced(m)
        BY <3>3, <4>3 DEF Announced
      <4>5. Announced(m) \ refused \subseteq Range(session.turns)
        BY <3>1 DEF IInv, Current
      <4>6. QED
        BY <2>1, <3>2, <4>2, <4>4, <4>5
    <3>4. CASE ~IsStart(i)
      BY <1>3, <2>1, <2>3, <3>2, <3>4, Applied
    <3>5. QED
      BY <3>3, <3>4
  <2>4. QED
    BY <2>2, <2>3
<1>4. CASE CollectLags \/ FollowLags
  <2>1. m \in 0 .. Len(sent)
    BY <1>4 DEF CollectLags, FollowLags
  <2>2. QED
    BY <1>1, <1>4, <2>1, LagsPastNothing
<1>5. CASE Follow
  <2>1. UNCHANGED <<sent, session, refused, lost>>
    BY <1>5 DEF Follow
  <2>2. CASE m = followed + 1 /\ IsOpen(m) /\ sent[m].what = session.id
    <3>1. log'.items = files[session.id]
      BY <1>5, <2>2, Loaded
    <3>2. Range(files[session.id]) \ refused \subseteq Range(session.turns)
      BY <1>5, <2>1, FollowPast DEF IInv, Current
    <3>3. QED
      BY <2>1, <3>1, <3>2
  <2>3. CASE Past(m) /\ ~IsOpen(followed + 1)
    <3>1. log' = log
      BY <1>5, <2>3, Loaded
    <3>2. QED
      BY <1>1, <2>1, <2>3, <3>1
  <2>4. QED
    BY <1>5, <2>1, <2>2, <2>3, FollowPast
<1>6. CASE User
  <2>1. UNCHANGED <<sent, session, refused, lost, log, collected, followed>>
    BY <1>6, UserAsks
  <2>2. Past(m)
    BY <2>1 DEF Past, Since, IsOpen
  <2>3. QED
    BY <1>1, <2>1, <2>2
<1>7. QED
  BY <1>2, <1>3, <1>4, <1>5, <1>6 DEF Next

-----------------------------------------------------------------------------
LEMMA AnnouncedSkips ==
  ASSUME NEW a \in Nat, NEW b \in Nat, Len(sent) \in Nat, a <= b, b <= Len(sent),
         \A k \in a + 1 .. b : ~IsStart(k)
  PROVE  Announced(a) = Announced(b)
<1>1. {k \in a + 1 .. Len(sent) : IsStart(k)} = {k \in b + 1 .. Len(sent) : IsStart(k)}
  OBVIOUS
<1>2. QED
  BY <1>1 DEF Announced

(* What is to be shown of Complete after a step; c is where collect_events *)
(* then is.                                                                *)
LEMMA CompleteThen ==
  ASSUME NEW c, collected' = c,
         (Range(log'.items) \cup Announced(c)') \ refused' = Range(session'.turns),
         InOrder(log'.items),
         \A i \in c + 1 .. Len(sent') :
           sent'[i].kind = "TurnStarted" => Below(log'.items, sent'[i].what)
  PROVE  Complete'
BY DEF Complete, Announced, IsStart, InOrder, Below, Range

LEMMA WorkerCompletes ==
  ASSUME IInv, Worker, ~Switch, Complete
  PROVE  Complete'
<1>. DEFINE q == queue[1].what
<1>1. UNCHANGED <<collected, log>>
  BY WorkerLeavesScreen
<1>2. /\ (Range(log.items) \cup Announced(collected)) \ refused = Range(session.turns)
      /\ InOrder(log.items)
      /\ \A i \in collected + 1 .. Len(sent) : IsStart(i) => Below(log.items, sent[i].what)
  BY DEF Complete
<1>3. PICK c \in 0 .. Len(sent) : c = collected
  BY Numbers
<1>4. ASSUME Plain, session' = session, refused' = refused
      PROVE  Complete'
  <2>1. Announced(c)' = Announced(c)
    BY <1>4, AnnouncedKept DEF Plain
  <2>2. ASSUME NEW i \in c + 1 .. Len(sent'), sent'[i].kind = "TurnStarted"
        PROVE  Below(log.items, sent'[i].what)
    <3>1. i \in c + 1 .. Len(sent) /\ sent'[i] = sent[i]
      BY <1>4, <2>2 DEF Plain, Kept, Fresh, IsStart
    <3>2. QED
      BY <1>2, <1>3, <2>2, <3>1 DEF IsStart
  <2>3. QED
    BY <1>1, <1>2, <1>3, <1>4, <2>1, <2>2, CompleteThen
<1>5. ASSUME Announces(q), Below(log.items, q)
      PROVE  \A i \in c + 1 .. Len(sent') :
               sent'[i].kind = "TurnStarted" => Below(log.items, sent'[i].what)
  <2>1. ASSUME NEW i \in c + 1 .. Len(sent'), sent'[i].kind = "TurnStarted"
        PROVE  Below(log.items, sent'[i].what)
    <3>1. CASE i \in Fresh
      BY <1>5, <2>1, <3>1 DEF Announces, IsStart
    <3>2. CASE i \notin Fresh
      <4>1. i \in c + 1 .. Len(sent) /\ sent'[i] = sent[i]
        BY <1>5, <2>1, <3>2 DEF Announces, Kept, Fresh
      <4>2. QED
        BY <1>2, <1>3, <2>1, <4>1 DEF IsStart
    <3>3. QED
      BY <3>1, <3>2
  <2>2. QED
    BY <2>1
<1>6. CASE SetupFails
  <2>1. /\ Announces(q) /\ refused' = refused \cup {q} /\ session' = session
        /\ Newer(q) /\ q \in Nat
    BY <1>6, SetupFailsEmits, PromptIsNewer, Received DEF SetupFails, IInv
  <2>2. q \notin Range(session.turns) /\ Below(log.items, q)
    BY <2>1, NotAmong, Numbers DEF Newer
  <2>3. Announced(c)' = Announced(c) \cup {q}
    BY <2>1, AnnouncedGrows
  <2>4. (Range(log'.items) \cup Announced(c)') \ refused' = Range(session'.turns)
    BY <1>1, <1>2, <1>3, <2>1, <2>2, <2>3
  <2>5. QED
    BY <1>1, <1>2, <1>3, <1>5, <2>1, <2>2, <2>4, CompleteThen
<1>7. CASE TurnStarts
  <2>1. /\ Announces(q) /\ refused' = refused
        /\ Range(session'.turns) = Range(session.turns) \cup {q}
        /\ Newer(q) /\ q \in Nat
    BY <1>7, TurnStartsEmits, SessionAppended DEF TurnStarts
  <2>2. q \notin refused /\ Below(log.items, q)
    BY <2>1 DEF Newer
  <2>3. Announced(c)' = Announced(c) \cup {q}
    BY <2>1, AnnouncedGrows
  <2>4. (Range(log'.items) \cup Announced(c)') \ refused' = Range(session'.turns)
    BY <1>1, <1>2, <1>3, <2>1, <2>2, <2>3
  <2>5. QED
    BY <1>1, <1>2, <1>3, <1>5, <2>1, <2>2, <2>4, CompleteThen
<1>8. CASE Streams \/ TurnEnds \/ TurnSaved
  BY <1>4, <1>8, PlainEmits DEF Streams, TurnEnds, TurnSaved
<1>9. QED
  BY <1>6, <1>7, <1>8 DEF Worker

LEMMA CollectCompletes ==
  ASSUME IInv, Collect, Complete, ~IsOpen(collected + 1)
  PROVE  Complete'
<1>1. PICK c \in Nat : c = collected
  BY Numbers
<1>. DEFINE i == c + 1
            p == sent[i].what
<1>2. /\ collected' = i /\ i \in 1 .. Len(sent) /\ Len(sent) \in Nat /\ c < Len(sent)
      /\ UNCHANGED <<sent, session, refused>>
  BY <1>1, Applied, Numbers DEF Collect
<1>3. /\ (Range(log.items) \cup Announced(c)) \ refused = Range(session.turns)
      /\ InOrder(log.items)
      /\ \A k \in c + 1 .. Len(sent) : IsStart(k) => Below(log.items, sent[k].what)
  BY <1>1 DEF Complete
<1>4. Announced(c) = IF IsStart(i) THEN {p} \cup Announced(i) ELSE Announced(i)
  BY <1>2, AnnouncedNext
<1>5. Announced(i)' = Announced(i)
  BY <1>2 DEF Announced, IsStart
<1>6. ASSUME NEW k \in i + 1 .. Len(sent), IsStart(k)
      PROVE  Below(log.items, sent[k].what) /\ k \in 1 .. Len(sent) /\ i < k
  BY <1>2, <1>3, <1>6
<1>7. CASE IsStart(i)
  <2>1. p \in Nat /\ log'.items = Append(log.items, p) /\ log.items \in Seq(Nat)
    BY <1>1, <1>7, Applied, Numbers
  <2>2. Range(log'.items) = Range(log.items) \cup {p}
    BY <2>1, RangeOfAppend
  <2>3. InOrder(log'.items)
    <3>1. i \in c + 1 .. Len(sent)
      BY <1>2
    <3>2. Below(log.items, p)
      BY <1>3, <1>7, <3>1
    <3>3. QED
      BY <1>3, <2>1, <3>2, OrderOfAppend
  <2>4. ASSUME NEW k \in i + 1 .. Len(sent), IsStart(k)
        PROVE  Below(log'.items, sent[k].what)
    <3>1. k \in 1 .. Len(sent) /\ i < k /\ Below(log.items, sent[k].what)
      BY <1>6, <2>4
    <3>2. p < sent[k].what /\ sent[k].what \in 1 .. asked
      BY <1>2, <1>7, <2>4, <3>1 DEF IInv, Meant
    <3>3. QED
      BY <2>1, <3>1, <3>2, BelowOfAppend
  <2>5. (Range(log'.items) \cup Announced(i)') \ refused' = Range(session'.turns)
    BY <1>2, <1>3, <1>4, <1>5, <1>7, <2>2
  <2>6. \A k \in i + 1 .. Len(sent') :
          sent'[k].kind = "TurnStarted" => Below(log'.items, sent'[k].what)
    BY <1>2, <2>4 DEF IsStart
  <2>7. QED
    BY <1>2, <2>3, <2>5, <2>6, CompleteThen
<1>8. CASE ~IsStart(i)
  <2>1. log'.items = log.items
    BY <1>1, <1>8, Applied
  <2>2. (Range(log'.items) \cup Announced(i)') \ refused' = Range(session'.turns)
    BY <1>2, <1>3, <1>4, <1>5, <1>8, <2>1
  <2>3. \A k \in i + 1 .. Len(sent') :
          sent'[k].kind = "TurnStarted" => Below(log'.items, sent'[k].what)
    BY <1>2, <1>6, <2>1 DEF IsStart
  <2>4. QED
    BY <1>2, <1>3, <2>1, <2>2, <2>3, CompleteThen
<1>9. QED
  BY <1>7, <1>8

LEMMA CollectLagsCompletes ==
  ASSUME IInv, CollectLags, ~lost', Complete
  PROVE  Complete'
<1>1. PICK c \in 0 .. Len(sent) : c = collected
  BY Numbers
<1>2. /\ collected' = Oldest /\ ~LosesMore(c) /\ Lagging(c)
      /\ UNCHANGED <<sent, session, refused, log>>
  BY <1>1 DEF CollectLags
<1>3. /\ Oldest \in 0 .. Len(sent) /\ c < Oldest
      /\ \A k \in c + 1 .. Oldest : ~IsStart(k)
  BY <1>2, Skipped
<1>4. PICK o \in 0 .. Len(sent) : o = Oldest
  BY <1>3
<1>5. Announced(c) = Announced(o)
  BY <1>3, <1>4, Numbers, AnnouncedSkips
<1>6. Announced(o)' = Announced(o)
  BY <1>2 DEF Announced, IsStart
<1>7. /\ (Range(log.items) \cup Announced(c)) \ refused = Range(session.turns)
      /\ InOrder(log.items)
      /\ \A k \in c + 1 .. Len(sent) : IsStart(k) => Below(log.items, sent[k].what)
  BY <1>1 DEF Complete
<1>8. o + 1 .. Len(sent) \subseteq c + 1 .. Len(sent)
  BY <1>3, <1>4, Numbers
<1>9. \A k \in o + 1 .. Len(sent') :
        sent'[k].kind = "TurnStarted" => Below(log'.items, sent'[k].what)
  BY <1>2, <1>7, <1>8 DEF IsStart
<1>10. QED
  BY <1>2, <1>4, <1>5, <1>6, <1>7, <1>9, CompleteThen

LEMMA ShownStep ==
  ASSUME IInv, Next
  PROVE  Shown'
<1>. SUFFICES ASSUME ~lost', ~overtaken', NEW m \in 0 .. Len(sent'), Past(m)'
              PROVE  Complete'
  BY DEF Shown
<1>1. \A k \in 0 .. Len(sent) : ~lost /\ ~overtaken /\ Past(k) => Complete
  BY DEF IInv, Shown
<1>2. ASSUME UNCHANGED <<sent, session, refused, log, collected>>, Complete
      PROVE  Complete'
  BY <1>2 DEF Complete, Announced, IsStart
<1>3. CASE Worker
  <2>1. m \in 0 .. Len(sent) /\ Past(m) /\ ~Switch
    BY <1>3, WorkerPastNothing
  <2>2. UNCHANGED <<lost, overtaken>>
    BY <1>3, WorkerLeavesScreen
  <2>3. QED
    BY <1>1, <1>3, <2>1, <2>2, WorkerCompletes
<1>4. CASE Collect
  <2>1. UNCHANGED <<sent, lost, overtaken>>
    BY <1>4 DEF Collect, seen
  <2>2. ~(m = collected + 1 /\ IsOpen(m))
    <3>1. SUFFICES ASSUME m = collected + 1, IsOpen(m) PROVE FALSE
      OBVIOUS
    <3>2. m \in 1 .. followed /\ collected \in Nat
      BY <1>4, <2>1, <3>1, CollectPast, Numbers
    <3>3. m <= collected
      BY <2>1, <3>1, <3>2 DEF IInv, InStep
    <3>4. QED
      BY <3>1, <3>2, <3>3
  <2>3. Past(m) /\ ~IsOpen(collected + 1)
    BY <1>4, <2>1, <2>2, CollectPast
  <2>4. QED
    BY <1>1, <1>4, <2>1, <2>3, CollectCompletes
<1>5. CASE CollectLags \/ FollowLags
  <2>1. m \in 0 .. Len(sent)
    BY <1>5 DEF CollectLags, FollowLags
  <2>2. Complete
    BY <1>1, <1>5, <2>1, LagsPastNothing
  <2>3. QED
    BY <1>2, <1>5, <2>1, <2>2, LagsPastNothing, CollectLagsCompletes DEF FollowLags
<1>6. CASE Follow
  <2>1. UNCHANGED <<sent, session, refused, lost, collected>>
    BY <1>6 DEF Follow
  <2>2. CASE m = followed + 1 /\ IsOpen(m) /\ sent[m].what = session.id
    <3>1. /\ log'.items = files[session.id] /\ session.id \in Opened
          /\ m = collected /\ ~Ends(m) /\ Since(m)
      BY <1>6, <2>1, <2>2, Loaded, FollowPast, Numbers DEF Ends
    <3>2. Announced(m)' = Announced(m)
      BY <2>1 DEF Announced, IsStart
    <3>3. (Range(log'.items) \cup Announced(m)') \ refused' = Range(session'.turns)
      BY <2>1, <3>1, <3>2 DEF IInv, Current
    <3>4. InOrder(log'.items)
      BY <3>1 DEF IInv, Sorted
    <3>5. \A k \in m + 1 .. Len(sent') :
            sent'[k].kind = "TurnStarted" => Below(log'.items, sent'[k].what)
      BY <2>1, <3>1 DEF IInv, Unsaved, IsStart
    <3>6. QED
      BY <2>1, <3>1, <3>3, <3>4, <3>5, CompleteThen
  <2>3. CASE Past(m) /\ ~IsOpen(followed + 1)
    <3>1. log' = log /\ ~overtaken
      BY <1>6, <2>3, Loaded
    <3>2. QED
      BY <1>1, <1>2, <2>1, <2>3, <3>1
  <2>4. QED
    BY <1>6, <2>1, <2>2, <2>3, FollowPast
<1>7. CASE User
  <2>1. UNCHANGED <<sent, session, refused, lost, overtaken, log, collected, followed>>
    BY <1>7, UserAsks
  <2>2. Past(m) /\ m \in 0 .. Len(sent)
    BY <2>1 DEF Past, Since, IsOpen
  <2>3. QED
    BY <1>1, <1>2, <2>1, <2>2
<1>8. QED
  BY <1>3, <1>4, <1>5, <1>6, <1>7 DEF Next

-----------------------------------------------------------------------------
(***************************************************************************)
(* The theorems.                                                           *)
(***************************************************************************)
LEMMA NextIInv == IInv /\ [Next]_vars => IInv'
<1>1. ASSUME IInv, Next PROVE IInv'
  BY <1>1, TypeStep, WaitingStep, MeantStep, SortedStep, OpeningStep, CurrentStep,
     EndedStep, UnsavedStep, FreedStep, CleanStep, InStepStep, ShownStep
  DEF IInv
<1>2. ASSUME IInv, UNCHANGED vars PROVE IInv'
  <2>1. UNCHANGED <<files, session, pc, fragments, queue, sent, collected, followed,
                    log, asked, switches, refused, lost, overtaken>>
    BY <1>2 DEF vars, seen
  <2>2. TypeOK'
    BY <1>2, <2>1 DEF IInv, TypeOK, Opened
  <2>3. Waiting' /\ Meant' /\ Sorted'
    BY <1>2, <2>1
    DEF IInv, Waiting, Asks, Newer, Meant, Sorted, Opened, Below, InOrder, Range, IsStart,
        IsOpen
  <2>4. /\ \A m : (Since(m)' <=> Since(m)) /\ (Past(m)' <=> Past(m))
        /\ \A m : Announced(m)' = Announced(m) /\ (Ends(m)' <=> Ends(m))
    BY <2>1 DEF Past, Since, Announced, Ends, IsStart, IsOpen, IsEnd
  <2>5. Opening' /\ Ended' /\ Unsaved'
    BY <1>2, <2>1, <2>4
    DEF IInv, Opening, Ended, Unsaved, IsStart, Below
  <2>6. Current'
    BY <1>2, <2>1, <2>4 DEF IInv, Current
  <2>7. Freed' /\ InStep'
    BY <1>2, <2>1 DEF IInv, Freed, InStep, Ends, IsEnd, IsOpen
  <2>8. Clean'
    BY <1>2, <2>1, <2>4 DEF IInv, Clean
  <2>9. Complete' <=> Complete
    BY <2>1 DEF Complete, Announced, IsStart, Below, InOrder
  <2>10. Shown'
    BY <1>2, <2>1, <2>4, <2>9 DEF IInv, Shown
  <2>11. QED
    BY <2>2, <2>3, <2>5, <2>6, <2>7, <2>8, <2>10 DEF IInv
<1>3. QED
  BY <1>1, <1>2

THEOREM InductiveInvariant == Spec => []IInv
BY InitIInv, NextIInv, PTL DEF Spec

(* Every variable keeps its type, and no task of the window takes an event *)
(* that was not emitted (event.rs:69-97).                                  *)
THEOREM TypeCorrect == Spec => []TypeOK
<1>1. IInv => TypeOK
  BY DEF IInv
<1>2. QED
  BY <1>1, InductiveInvariant, PTL

(* At rest there is a last chat opened, and both tasks are past it.        *)
LEMMA RestIsPast ==
  ASSUME IInv, AtRest
  PROVE  \E m \in 0 .. Len(sent) : Past(m)
<1>1. PICK m \in 0 .. Len(sent) : Since(m)
  BY DEF IInv, Opening
<1>2. m <= collected /\ m <= followed
  BY Numbers DEF AtRest
<1>3. QED
  BY <1>1, <1>2 DEF Past

(* However far the window lags, whenever everything sent is served and     *)
(* everything emitted is read, the screen shows the worker's conversation, *)
(* each prompt once and in order, and takes the next one: if nothing but   *)
(* fragments was lost and every chat was loaded in step (chat.rs:139-249   *)
(* of mc-core, chat.rs:117-173 of mc-ui).                                  *)
THEOREM TheScreenAgrees == Spec => []ScreenAgrees
<1>1. ASSUME IInv PROVE ScreenAgrees
  <2>. SUFFICES ASSUME AtRest, ~lost, ~overtaken
                PROVE  Shows(session.turns) /\ ~log.busy
    BY DEF ScreenAgrees
  <2>1. pc = "idle" /\ collected = Len(sent) /\ collected + 1 .. Len(sent) = {}
    BY <1>1, Numbers DEF AtRest
  <2>2. Complete
    BY <1>1, RestIsPast DEF IInv, Shown
  <2>3. Announced(collected) = {} /\ ~Ends(collected)
    BY <2>1 DEF Announced, Ends
  <2>4. Range(log.items) \ refused = Range(session.turns) /\ InOrder(log.items)
    BY <2>2, <2>3 DEF Complete
  <2>5. ~log.busy
    BY <1>1, <2>1, <2>3 DEF IInv, Freed
  <2>6. InOrder(session.turns)
    BY <1>1 DEF IInv, Sorted
  <2>7. QED
    BY <2>4, <2>5, <2>6 DEF Shows
<1>2. QED
  BY <1>1, InductiveInvariant, PTL

(* At rest no prompt of a chat that was left is on the screen, in whatever *)
(* order the two tasks of the window came to what was opened and answered  *)
(* meanwhile (chat.rs:117-146 of mc-ui): only a lost event of more than a  *)
(* fragment could leave one there.                                         *)
THEOREM NothingOfAnotherChatShows == Spec => []NothingOfAnotherChat
<1>1. ASSUME IInv PROVE NothingOfAnotherChat
  BY <1>1, RestIsPast DEF IInv, Clean, NothingOfAnotherChat
<1>2. QED
  BY <1>1, InductiveInvariant, PTL

-----------------------------------------------------------------------------
(* Nobody is locked out, whatever was lost. Between turns, what lets the   *)
(* user write is one of the last two events.                               *)
Frees(k) == IsEnd(k) \/ IsOpen(k)

LetsGo ==
  /\ pc = "settling" => Len(sent) # 0 /\ IsEnd(Len(sent))
  /\ pc = "idle" =>
       Len(sent) = 0 \/ \E k \in Len(sent) - 1 .. Len(sent) : k # 0 /\ Frees(k)

FreedYet == log.busy => pc = "turn" \/ \E k \in collected + 1 .. Len(sent) : Frees(k)

LEMMA SavedEmits ==
  ASSUME IInv, TurnSaved
  PROVE  Kept /\ Len(sent') \in {Len(sent), Len(sent) + 1}
<1>1. CASE Emit(<<>>)
  <2>1. sent' = sent /\ Len(sent) \in Nat
    BY <1>1 DEF Emit, IInv, TypeOK
  <2>2. QED
    BY <2>1 DEF Kept
<1>2. CASE Emit(<<Event("Compacted", 0)>>)
  <2>. DEFINE e == Event("Compacted", 0)
  <2>1. e \in Events /\ TypeOK /\ Emit(<<e>>)
    BY <1>2 DEF Event, Events, Kinds, IInv
  <2>. HIDE DEF e
  <2>2. QED
    BY <2>1, EmittedOne
<1>3. QED
  BY <1>1, <1>2 DEF TurnSaved

LEMMA LetsGoStep ==
  ASSUME IInv, LetsGo, [Next]_vars
  PROVE  LetsGo'
<1>1. Len(sent) \in Nat
  BY Numbers
<1>2. CASE SetupFails
  <2>1. /\ Len(sent') = Len(sent) + 2 /\ sent'[Len(sent) + 2].kind = "Failed"
        /\ pc' = "idle"
    BY <1>2, SetupFailsEmits DEF SetupFails, Receives
  <2>2. QED
    BY <1>1, <2>1 DEF LetsGo, Frees, IsEnd
<1>3. CASE TurnStarts \/ Streams
  BY <1>3 DEF TurnStarts, Streams, LetsGo
<1>4. CASE TurnEnds
  <2>1. /\ Len(sent') = Len(sent) + 1 /\ pc' = "settling"
        /\ sent'[Len(sent) + 1].kind \in {"TurnEnded", "Failed"}
    BY <1>4, PlainEmits DEF TurnEnds
  <2>2. QED
    BY <1>1, <2>1 DEF LetsGo, IsEnd
<1>5. CASE TurnSaved
  <2>1. /\ Kept /\ Len(sent') \in {Len(sent), Len(sent) + 1} /\ pc' = "idle"
        /\ Len(sent) # 0 /\ IsEnd(Len(sent))
    BY <1>5, SavedEmits DEF TurnSaved, LetsGo
  <2>2. /\ sent'[Len(sent)] = sent[Len(sent)]
        /\ Len(sent) \in Len(sent') - 1 .. Len(sent')
    BY <1>1, <2>1 DEF Kept
  <2>3. QED
    BY <1>1, <2>1, <2>2 DEF LetsGo, Frees, IsEnd
<1>6. CASE Switch
  <2>1. /\ Opens(queue[1].what) /\ pc' = "idle"
    BY <1>6, SwitchEmits DEF Switch, Receives
  <2>2. QED
    BY <1>1, <2>1 DEF Opens, LetsGo, Frees, IsOpen, IsEnd
<1>7. CASE ~Worker
  <2>1. UNCHANGED <<sent, pc>>
    BY <1>7, UserAsks DEF Next, Collect, CollectLags, Follow, FollowLags, vars
  <2>2. QED
    BY <2>1 DEF LetsGo, Frees, IsEnd, IsOpen
<1>8. QED
  BY <1>2, <1>3, <1>4, <1>5, <1>6, <1>7 DEF Worker

LEMMA FreedYetStep ==
  ASSUME IInv, LetsGo, FreedYet, Capacity > 1, [Next]_vars
  PROVE  FreedYet'
<1>. SUFFICES ASSUME log'.busy
              PROVE  pc' = "turn" \/ \E k \in collected' + 1 .. Len(sent') : Frees(k)'
  BY DEF FreedYet
<1>1. /\ log.busy => pc = "turn" \/ \E k \in collected + 1 .. Len(sent) : Frees(k)
      /\ collected \in 0 .. Len(sent) /\ Len(sent) \in Nat /\ followed \in 0 .. Len(sent)
  BY Numbers DEF FreedYet
<1>2. CASE Worker
  <2>1. UNCHANGED <<collected, log>> /\ Kept
    BY <1>2, WorkerLeavesScreen
  <2>2. pc = "turn" \/ \E k \in collected' + 1 .. Len(sent') : Frees(k)'
    BY <1>1, <2>1 DEF Kept, Frees, IsEnd, IsOpen
  <2>3. CASE TurnEnds
    <3>1. /\ Len(sent') = Len(sent) + 1
          /\ sent'[Len(sent) + 1].kind \in {"TurnEnded", "Failed"}
      BY <2>3, PlainEmits
    <3>2. Len(sent) + 1 \in collected' + 1 .. Len(sent')
      BY <1>1, <2>1, <3>1
    <3>3. QED
      BY <3>1, <3>2 DEF Frees, IsEnd
  <2>4. CASE SetupFails \/ TurnSaved \/ Switch
    BY <2>2, <2>4 DEF SetupFails, TurnSaved, Switch, Receives
  <2>5. CASE TurnStarts \/ Streams
    BY <2>5 DEF TurnStarts, Streams
  <2>6. QED
    BY <1>2, <2>3, <2>4, <2>5 DEF Worker
<1>3. CASE Collect
  <2>. DEFINE i == collected + 1
  <2>1. /\ collected' = i /\ i \in 1 .. Len(sent) /\ ~IsOpen(i) /\ ~IsEnd(i)
        /\ ~IsStart(i) => log' = log
        /\ UNCHANGED <<sent, pc>>
    BY <1>3, Applied DEF Collect
  <2>2. CASE IsStart(i)
    <3>1. pc = "turn" \/ Ends(i)
      BY <2>1, <2>2 DEF IInv, Ended
    <3>2. QED
      BY <2>1, <3>1 DEF Ends, Frees, IsEnd
  <2>3. CASE ~IsStart(i)
    <3>1. pc = "turn" \/ \E k \in i + 1 .. Len(sent) : Frees(k)
      BY <1>1, <2>1, <2>3 DEF Frees
    <3>2. QED
      BY <2>1, <3>1 DEF Frees, IsEnd, IsOpen
  <2>4. QED
    BY <2>2, <2>3
<1>4. CASE CollectLags
  <2>1. collected' = Oldest /\ UNCHANGED <<sent, pc>>
    BY <1>4 DEF CollectLags
  <2>2. Oldest + 1 <= Len(sent) - 1 /\ Oldest \in Int /\ Len(sent) # 0 /\ Capacity \in Nat
    BY <1>1, <1>4, ScreenAssumption DEF CollectLags, Lagging, Oldest
  <2>3. CASE pc = "turn"
    BY <2>1, <2>3
  <2>4. CASE pc = "settling"
    BY <1>1, <2>1, <2>2, <2>4 DEF LetsGo, Frees, IsEnd, IsOpen
  <2>5. CASE pc = "idle"
    <3>1. PICK k \in Len(sent) - 1 .. Len(sent) : Frees(k)
      BY <2>2, <2>5 DEF LetsGo
    <3>2. k \in Oldest + 1 .. Len(sent)
      BY <1>1, <2>2
    <3>3. QED
      BY <2>1, <3>1, <3>2 DEF Frees, IsEnd, IsOpen
  <2>6. QED
    BY <2>3, <2>4, <2>5 DEF IInv, TypeOK
<1>5. CASE Follow
  <2>1. log' = log /\ UNCHANGED <<sent, pc, collected>>
    BY <1>5, Loaded DEF Follow
  <2>2. QED
    BY <1>1, <2>1 DEF Frees, IsEnd, IsOpen
<1>6. CASE FollowLags
  BY <1>1, <1>6 DEF FollowLags, Frees, IsEnd, IsOpen
<1>7. CASE User
  BY <1>1, <1>7, UserAsks DEF Frees, IsEnd, IsOpen
<1>8. CASE UNCHANGED vars
  BY <1>1, <1>8 DEF vars, Frees, IsEnd, IsOpen
<1>9. QED
  BY <1>2, <1>3, <1>4, <1>5, <1>6, <1>7, <1>8 DEF Next

(* A screen that is busy will be let go: a turn runs, or the event that    *)
(* ends it, or opens another chat, is still to be read, even if the window *)
(* fell behind and lost others (chat.rs:159-162 of mc-ui). A bus that kept *)
(* one event would not do: a summary comes after the end of its turn.      *)
THEOREM NobodyIsLockedOut ==
  ASSUME Capacity > 1
  PROVE  Spec => [](log.busy =>
                      \/ pc = "turn"
                      \/ \E k \in collected + 1 .. Len(sent) :
                           sent[k].kind \in {"TurnEnded", "Failed", "SessionOpened"})
<1>1. Init => LetsGo /\ FreedYet
  BY EmptySeq DEF Init, LetsGo, FreedYet, EmptyLog, Restored
<1>2. IInv /\ LetsGo /\ FreedYet /\ [Next]_vars => LetsGo' /\ FreedYet'
  BY LetsGoStep, FreedYetStep
<1>3. FreedYet => (log.busy =>
                     \/ pc = "turn"
                     \/ \E k \in collected + 1 .. Len(sent) :
                          sent[k].kind \in {"TurnEnded", "Failed", "SessionOpened"})
  BY DEF FreedYet, Frees, IsEnd, IsOpen
<1>4. QED
  BY <1>1, <1>2, <1>3, InductiveInvariant, PTL DEF Spec
=============================================================================
