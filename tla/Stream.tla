------------------------------- MODULE Stream -------------------------------
(***************************************************************************)
(* One turn, event by event: the server's stream of block events, the      *)
(* StreamAccumulator of crates/mc-agent/src/wire.rs that rebuilds a        *)
(* message from them, Agent::stream_once and its retries                   *)
(* (crates/mc-agent/src/lib.rs), the calls of the message, and what the    *)
(* ChatLog of crates/mc-core/src/chat.rs shows meanwhile.                  *)
(*                                                                         *)
(* AgentTurn has the turn's control in full, with compaction and refusals, *)
(* and takes a message as one step; Screen has the bus, which here neither *)
(* loses nor delays.  A piece of text or of JSON is a numbered part, and   *)
(* the input of a call parses if its last part came.                       *)
(***************************************************************************)
EXTENDS Integers, Sequences, SequencesExt

CONSTANTS
  Kinds,              \* kinds of blocks a message may hold
  ShowThinking,       \* config.show_thinking
  MaxToolRounds,      \* rounds a turn may take
  MaxStreamRetries,   \* retries of one request
  MaxBlocks,          \* bound: blocks of a message
  MaxParts            \* bound: parts of a block

ASSUME StreamAssumption ==
  /\ Kinds \subseteq {"text", "thinking", "tool", "other"}
  /\ ShowThinking \in BOOLEAN
  /\ {MaxToolRounds, MaxStreamRetries, MaxBlocks, MaxParts} \subseteq Nat

VARIABLES
  pc,           \* "round", "streaming", "calls", "ended"
  round,        \* rounds begun
  attempt,      \* retries made of this request
  blocks,       \* StreamAccumulator.blocks, holes included
  calls,        \* tool_use blocks of the last message not yet answered
  results,      \* results gathered for it
  transcript,   \* what the turn added to the session's transcript
  flag,         \* the user pressed Stop
  log           \* the ChatLog's items since the user's message

(* Observed, never read by a guard of the agent.                           *)
VARIABLES
  spoken,       \* the blocks the server has sent in this attempt, by index
  request,      \* requests made in the turn
  mixed,        \* the server went back to an earlier block, or spoke after a call
  ran,          \* calls that were run
  outcome       \* how the turn ended

worker == <<round, attempt, blocks, calls, results>>
vars   == <<pc, worker, transcript, flag, log, spoken, request, mixed, ran, outcome>>

Hole == [kind |-> "hole", id |-> <<0, 0>>, parts |-> <<>>]
IsCall(block) == block.kind = "tool"

-----------------------------------------------------------------------------
(***************************************************************************)
(* ChatLog::apply, for the events of a turn.                               *)
(***************************************************************************)
Item(kind, what) == [kind |-> kind, what |-> what]

(* TextDelta and ThinkingDelta: the last item grows if it is of the kind.  *)
Grow(items, kind, part) ==
  IF items # <<>> /\ Last(items).kind = kind
  THEN [items EXCEPT ![Len(items)].what = Append(@, part)]
  ELSE Append(items, Item(kind, <<part>>))

(* Mutant: only the last item is taken off, and not those before it.       *)
RetractLast(items) ==
  IF items # <<>> /\ Last(items).kind \in {"Assistant", "Thinking"}
  THEN Front(items) ELSE items

(* StreamRetrying takes off the end all that the broken attempt showed.    *)
Retract(items) ==
  LET Stays(i) == items[i].kind \notin {"Assistant", "Thinking"}
      kept == CHOOSE n \in 0 .. Len(items) :
                /\ n = 0 \/ Stays(n)
                /\ \A i \in n + 1 .. Len(items) : ~Stays(i)
  IN SubSeq(items, 1, kept)

-----------------------------------------------------------------------------
Init ==
  /\ pc = "round"
  /\ round = 0 /\ attempt = 0
  /\ blocks = <<>> /\ calls = <<>> /\ results = <<>>
  /\ transcript = <<>>
  /\ flag = FALSE
  /\ log = <<>>
  /\ spoken = <<>> /\ request = 0 /\ mixed = FALSE
  /\ ran = <<>>
  /\ outcome = "none"

Returns(result) ==
  /\ pc' = "ended"
  /\ outcome' = result

(* Worker: Failed says why the turn ended.                                 *)
Fails ==
  /\ Returns("failed")
  /\ log' = Append(log, Item("Error", <<>>))

(* finish_cancelled.                                                       *)
Cancelled ==
  /\ Returns("cancelled")
  /\ log' = Append(log, Item("Notice", <<>>))

(* Mutant: the accumulator outlives the attempt.                           *)
RequestGoesOn ==
  /\ pc = "round" /\ ~flag
  /\ round < MaxToolRounds \/ attempt > 0
  /\ round' = IF attempt = 0 THEN round + 1 ELSE round
  /\ request' = request + 1
  /\ spoken' = <<>>
  /\ pc' = "streaming"
  /\ UNCHANGED <<blocks, attempt, calls, results, transcript, flag, log, mixed, ran,
                 outcome>>

(* A round's request, or the same again after a break.                     *)
Request ==
  /\ pc = "round" /\ ~flag
  /\ round < MaxToolRounds \/ attempt > 0
  /\ round' = IF attempt = 0 THEN round + 1 ELSE round
  /\ request' = request + 1
  /\ blocks' = <<>>
  /\ spoken' = <<>>
  /\ pc' = "streaming"
  /\ UNCHANGED <<attempt, calls, results, transcript, flag, log, mixed, ran, outcome>>

(* Not looked at after the last round.                                     *)
Runaway ==
  /\ pc = "round"
  /\ round = MaxToolRounds /\ attempt = 0
  /\ Fails
  /\ UNCHANGED <<worker, transcript, flag, spoken, request, mixed, ran>>

(* Looked at between rounds, and before all else while a response comes.   *)
Stopped ==
  /\ pc \in {"round", "streaming"} /\ flag
  /\ pc = "round" => round < MaxToolRounds \/ attempt > 0
  /\ Cancelled
  /\ UNCHANGED <<worker, transcript, flag, spoken, request, mixed, ran>>

-----------------------------------------------------------------------------
(***************************************************************************)
(* The stream.  The server may begin and continue its blocks in any order. *)
(***************************************************************************)
(* Mutant: blocks are kept in the order they begin.                        *)
PutNext(index, block) == blocks' = Append(blocks, block)

(* StreamAccumulator::put.                                                 *)
Put(index, block) ==
  blocks' = [i \in 1 .. (IF index > Len(blocks) THEN index ELSE Len(blocks)) |->
               IF i = index THEN block
               ELSE IF i <= Len(blocks) THEN blocks[i] ELSE Hole]

Sent == DOMAIN spoken
Speaks(index, block) ==
  spoken' = [i \in Sent \cup {index} |-> IF i = index THEN block ELSE spoken[i]]

(* What a block may come with, taken in and not shown: the start of a text *)
(* or of a thinking (part number 0), or all of it.                         *)
Openings(kind, id) ==
  {<<>>} \cup IF kind \in {"text", "thinking"}
            THEN {<<[block |-> id, n |-> 0, last |-> last]>> : last \in BOOLEAN}
            ELSE {}

BlockStart ==
  /\ pc = "streaming" /\ ~flag
  /\ \E index \in (1 .. MaxBlocks) \ Sent, kind \in Kinds :
     \E parts \in Openings(kind, <<request, index>>) :
       LET block == [kind |-> kind, id |-> <<request, index>>, parts |-> parts] IN
         /\ Put(index, block)
         /\ Speaks(index, block)
         /\ mixed' = (\/ mixed \/ index # 1 + Len(blocks)
                      \/ kind = "text" /\ \E i \in Sent : IsCall(spoken[i]))
  /\ UNCHANGED <<pc, round, attempt, calls, results, transcript, flag, log, request, ran,
                 outcome>>

Closed(block) == block.parts # <<>> /\ Last(block.parts).last

(* What the bus, and so the log, is told of a part.                        *)
Shows(block, part) ==
  log' = CASE block.kind = "text" -> Grow(log, "Assistant", part)
           [] block.kind = "thinking" /\ ShowThinking -> Grow(log, "Thinking", part)
           [] OTHER -> log

(* Mutant: a call is run as soon as its input is there.                    *)
BlockDeltaRuns ==
  /\ pc = "streaming" /\ ~flag
  /\ \E index \in Sent, last \in BOOLEAN :
       LET block == spoken[index]
           part == [block |-> block.id, n |-> Len(block.parts) + 1, last |-> last]
       IN
         /\ block.kind # "other" /\ ~Closed(block) /\ part.n <= MaxParts
         /\ Speaks(index, [block EXCEPT !.parts = Append(@, part)])
         /\ blocks' = [blocks EXCEPT ![index].parts = Append(@, part)]
         /\ Shows(block, part)
         /\ mixed' = (mixed \/ index # Len(blocks))
         /\ ran' = IF IsCall(block) /\ last
                   THEN Append(ran, [id |-> block.id, input |-> block.parts]) ELSE ran
  /\ UNCHANGED <<pc, round, attempt, calls, results, transcript, flag, request, outcome>>

(* A delta of the block's own kind; blocks of other kinds come whole.      *)
BlockDelta ==
  /\ pc = "streaming" /\ ~flag
  /\ \E index \in Sent, last \in BOOLEAN :
       LET block == spoken[index]
           part == [block |-> block.id, n |-> Len(block.parts) + 1, last |-> last]
       IN
         /\ block.kind # "other" /\ ~Closed(block) /\ part.n <= MaxParts
         /\ Speaks(index, [block EXCEPT !.parts = Append(@, part)])
         /\ blocks' = [blocks EXCEPT ![index].parts = Append(@, part)]
         /\ Shows(block, part)
         /\ mixed' = (mixed \/ index # Len(blocks))
  /\ UNCHANGED <<pc, round, attempt, calls, results, transcript, flag, request, ran,
                 outcome>>

(* A message ends with all its blocks at their end, but for the last one   *)
(* when the length limit cut it off.                                       *)
Complete ==
  \A i \in Sent : \/ spoken[i].kind = "other" \/ Closed(spoken[i])
                  \/ \A j \in Sent : j <= i

CallsIn(content) ==
  FlattenSeq([k \in DOMAIN content |->
                IF IsCall(content[k]) THEN <<content[k]>> ELSE <<>>])

(* StreamAccumulator::finish; what it returns is pushed, then looked at.   *)
Finish(content) ==
  /\ transcript' = Append(transcript, [role |-> "assistant", content |-> content])
  /\ calls' = CallsIn(content)
  /\ results' = <<>>
  /\ attempt' = 0
  /\ IF calls' = <<>> THEN Returns("ok")
     ELSE pc' = "calls" /\ UNCHANGED outcome
  /\ UNCHANGED <<round, blocks, flag, log, spoken, request, mixed, ran>>

(* The holes are left out.                                                 *)
Content ==
  FlattenSeq([i \in DOMAIN blocks |-> IF blocks[i] = Hole THEN <<>> ELSE <<blocks[i]>>])

MessageStop ==
  /\ pc = "streaming" /\ ~flag
  /\ Complete
  /\ Finish(Content)

(* Mutant: a connection that is closed ends the message.                   *)
BreaksIntoMessage ==
  /\ pc = "streaming" /\ ~flag
  /\ Finish(Content)

(* The connection is lost, or closed short of a message_stop: asked again, *)
(* but not for ever.                                                       *)
Breaks ==
  /\ pc = "streaming" /\ ~flag
  /\ IF attempt < MaxStreamRetries
     THEN /\ attempt' = attempt + 1
          /\ log' = Append(Retract(log), Item("Notice", <<>>))
          /\ pc' = "round"
          /\ UNCHANGED outcome
     ELSE Fails /\ UNCHANGED attempt
  /\ UNCHANGED <<round, blocks, calls, results, transcript, flag, spoken, request, mixed,
                 ran>>

(* An error event, a payload that is no JSON, an error status: not retried.*)
Gives ==
  /\ pc = "streaming" /\ ~flag
  /\ Fails
  /\ UNCHANGED <<worker, transcript, flag, spoken, request, mixed, ran>>

-----------------------------------------------------------------------------
(***************************************************************************)
(* The calls of a message, in order; after a stop the rest are answered    *)
(* and not run.  No tool runs without an input.                            *)
(***************************************************************************)
Input(call) == IF Closed(call) THEN call.parts ELSE <<>>

AnswerCall ==
  /\ pc = "calls" /\ calls # <<>>
  /\ LET call == Head(calls) IN
       \E state \in {"succeeded", "failed", "stopped"} :
         /\ (state = "stopped") = flag
         /\ state = "succeeded" => Input(call) # <<>>
         /\ ran' = IF flag THEN ran
                   ELSE Append(ran, [id |-> call.id, input |-> Input(call)])
         /\ results' = Append(results, [id |-> call.id, state |-> state])
         /\ log' = Append(log, Item("Tool", [id |-> call.id, state |-> state]))
  /\ calls' = Tail(calls)
  /\ UNCHANGED <<pc, round, attempt, blocks, transcript, flag, spoken, request, mixed,
                 outcome>>

CallsAnswered ==
  /\ pc = "calls" /\ calls = <<>>
  /\ transcript' = Append(transcript, [role |-> "user", content |-> results])
  /\ IF \E r \in Range(results) : r.state = "stopped"
     THEN Cancelled
     ELSE pc' = "round" /\ UNCHANGED <<log, outcome>>
  /\ UNCHANGED <<worker, flag, spoken, request, mixed, ran>>

PressStop ==
  /\ pc # "ended" /\ ~flag
  /\ flag' = TRUE
  /\ UNCHANGED <<pc, worker, transcript, log, spoken, request, mixed, ran, outcome>>

Next ==
  \/ Request \/ Runaway \/ Stopped
  \/ BlockStart \/ BlockDelta \/ MessageStop \/ Breaks \/ Gives
  \/ AnswerCall \/ CallsAnswered \/ PressStop

Spec == Init /\ [][Next]_vars

-----------------------------------------------------------------------------
(***************************************************************************)
(* Properties.                                                             *)
(***************************************************************************)
Id     == Nat \X Nat
Part   == [block : Id, n : Nat, last : BOOLEAN]
Block  == [kind : {"text", "thinking", "tool", "other"}, id : Id, parts : Seq(Part)]
Result == [id : Id, state : {"succeeded", "failed", "stopped"}]
Turn   == [role : {"assistant"}, content : Seq(Block)]
            \cup [role : {"user"}, content : Seq(Result)]
LogItem == [kind : {"Assistant", "Thinking"}, what : Seq(Part)]
             \cup [kind : {"Tool"}, what : Result]
             \cup [kind : {"Error", "Notice"}, what : {<<>>}]

(* The types, and the bounds of what a turn counts.                        *)
TypeOK ==
  /\ pc \in {"round", "streaming", "calls", "ended"}
  /\ round \in 0 .. MaxToolRounds /\ attempt \in 0 .. MaxStreamRetries
  /\ blocks \in Seq(Block \cup {Hole}) /\ Len(blocks) <= MaxBlocks
  /\ calls \in Seq(Block) /\ results \in Seq(Result)
  /\ transcript \in Seq(Turn) /\ log \in Seq(LogItem)
  /\ flag \in BOOLEAN /\ mixed \in BOOLEAN /\ request \in Nat
  /\ Sent \subseteq 1 .. MaxBlocks /\ spoken \in [Sent -> Block]
  /\ ran \in Seq([id : Id, input : Seq(Part)])
  /\ outcome \in {"none", "ok", "failed", "cancelled"}

(* What a message says, its blocks by their index (wire.rs:71-77).         *)
Said ==
  FlattenSeq([i \in 1 .. MaxBlocks |-> IF i \in Sent THEN <<spoken[i]>> ELSE <<>>])

(* What enters the transcript is a whole message of the attempt under way, *)
(* in whatever order its blocks were sent and however many attempts broke  *)
(* (lib.rs:506-548).                                                       *)
WholeOrNothing ==
  [][\A turn \in {t \in Range(transcript') : t.role = "assistant"} :
       turn \in Range(transcript) \/ (Complete /\ turn.content = Said)]_vars

(* A retry cannot duplicate a tool call (lib.rs:446-448): a call is run    *)
(* once, from a message that came to its end, and with what the model      *)
(* asked for or nothing.                                                   *)
CallsRunOnce ==
  /\ \A i, j \in DOMAIN ran : ran[i].id = ran[j].id => i = j
  /\ \A i \in DOMAIN ran :
       \E t \in DOMAIN transcript :
         /\ transcript[t].role = "assistant"
         /\ \E k \in DOMAIN transcript[t].content :
              LET call == transcript[t].content[k] IN
                call.id = ran[i].id /\ ran[i].input \in {<<>>, call.parts}

(* ChatLog::from_session of some turns, without the thinking and without   *)
(* the text that blocks came with.                                         *)
ResultsIn(turns) == UNION {Range(t.content) : t \in {u \in Range(turns) : u.role = "user"}}

ResultOf(id, turns) ==
  LET given == {r \in ResultsIn(turns) : r.id = id}
  IN IF given = {} THEN [id |-> id, state |-> "failed"] ELSE CHOOSE r \in given : TRUE

(* A text but for what its block came with.                                *)
Heard(block) ==
  IF block.parts # <<>> /\ Head(block.parts).n = 0 THEN Tail(block.parts) ELSE block.parts

Reopens(block, turns) ==
  CASE block.kind = "text" -> Heard(block)
    [] block.kind = "tool" -> <<ResultOf(block.id, turns)>>
    [] OTHER -> <<>>

ReopensMessage(content, turns) ==
  FlattenSeq([k \in DOMAIN content |-> Reopens(content[k], turns)])

ReopensAll(turns) ==
  FlattenSeq([t \in DOMAIN turns |->
    IF turns[t].role = "user" THEN <<>> ELSE ReopensMessage(turns[t].content, turns)])

Reopened == ReopensAll(transcript)

Visible(item) ==
  CASE item.kind = "Assistant" -> item.what
    [] item.kind = "Tool" -> <<item.what>>
    [] OTHER -> <<>>

Shown(items) == FlattenSeq([i \in DOMAIN items |-> Visible(items[i])])

OnScreen == Shown(log)

(* What the user watched come in is what the chat shows when it is opened  *)
(* again, and what the model will be sent (chat.rs:187-200): nothing of a  *)
(* broken attempt, and of a good one nothing more and nothing less but for *)
(* the text its blocks came with, which is kept and was never shown        *)
(* (wire.rs:112-126 and 150-151).  For a turn that was neither stopped nor *)
(* failed, and messages sent block after block, calls last.                *)
WatchedIsKept == outcome = "ok" /\ ~mixed => OnScreen = Reopened
=============================================================================
