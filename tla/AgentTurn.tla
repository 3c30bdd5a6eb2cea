------------------------------ MODULE AgentTurn ------------------------------
(***************************************************************************)
(* One conversation, driven by the agent worker: the loop of               *)
(* crates/mc-agent/src/worker.rs that takes prompts one at a time, and     *)
(* Agent::run_turn_cancellable of crates/mc-agent/src/lib.rs that streams  *)
(* a message, runs the tools it calls, answers them all in one turn and    *)
(* goes round again.  The user may press Stop at any moment, the stream    *)
(* may break, be refused or be too long, and the transcript may be         *)
(* compacted inside a turn or after it.                                    *)
(*                                                                         *)
(* Abstracted: the text of messages, tool inputs and outputs, deltas on    *)
(* the way to a complete message, token counts (whether the context is     *)
(* full is a choice), and how long a retry sleeps.                         *)
(***************************************************************************)
EXTENDS Transcript

CONSTANTS
  MaxToolRounds,        \* rounds a turn may take (MAX_TOOL_ROUNDS)
  MaxStreamRetries,     \* retries of one request (MAX_STREAM_RETRIES)
  MaxCalls,             \* bound: tool calls in one message
  MaxPrompts            \* bound: prompts in a behaviour

ASSUME AgentTurnAssumption ==
  /\ MaxToolRounds \in Nat
  /\ MaxStreamRetries \in Nat
  /\ MaxCalls \in Nat
  /\ MaxPrompts \in Nat

VARIABLES
  pc,           \* where the worker is
  transcript,   \* session.transcript
  covered,      \* how many dropped turns session.summary stands for
  round,        \* rounds begun in this turn
  attempt,      \* retries made of this request
  compacted,    \* compacted_here
  results,      \* the tool_result blocks gathered for the last message
  stopped,      \* the tool loop noticed the stop
  outcome,      \* what run_turn_cancellable returned
  flag          \* Cancel's flag

(* Observed, never read by a guard: what the bus was told of this turn,    *)
(* and how the conversation came to be what it is.                         *)
VARIABLES
  announced,    \* TurnStarted was emitted for the prompt being worked on
  endings,      \* TurnEnded and Failed events emitted for it
  asked,        \* prompts accepted so far
  pushed,       \* turns ever pushed
  question,     \* the value of pushed when the current prompt was pushed
  issued,       \* tool calls the model has made so far
  answered,     \* the last turn begun ended with a message of the model
  late          \* tools started in this turn after the stop was pressed

worker   == <<pc, round, attempt, compacted, results, stopped, outcome>>
session  == <<transcript, covered>>
told     == <<announced, endings>>
history  == <<asked, pushed, question, issued, answered>>
vars     == <<worker, session, flag, told, history, late>>

Places == {"idle", "setup", "round", "streaming", "backoff", "shorten",
           "calls", "spawn", "running", "settle", "condense", "returned"}

Init ==
  /\ pc = "idle"
  /\ transcript = << >>
  /\ covered = 0
  /\ round = 0
  /\ attempt = 0
  /\ compacted = FALSE
  /\ results = << >>
  /\ stopped = FALSE
  /\ outcome = "ok"
  /\ flag = FALSE
  /\ announced = FALSE
  /\ endings = 0
  /\ asked = 0
  /\ pushed = 0
  /\ question = 0
  /\ issued = 0
  /\ answered = TRUE
  /\ late = 0

-----------------------------------------------------------------------------
(***************************************************************************)
(* Helpers: what a step does besides moving the worker.                    *)
(***************************************************************************)
LastTurn == transcript[Len(transcript)]

Push(turn) ==
  /\ transcript' = Append(transcript, turn)
  /\ pushed' = pushed + 1

Emit(n) == endings' = endings + n

Return(result) ==
  /\ pc' = "returned"
  /\ outcome' = result

(* finish_cancelled: TurnEnded with the reason "cancelled".                *)
FinishCancelled ==
  /\ Emit(1)
  /\ Return("ok")

DropUpTo(cut) ==
  /\ transcript' = Compact(transcript, cut)
  /\ covered' = covered + cut

-----------------------------------------------------------------------------
(***************************************************************************)
(* The worker's loop.                                                      *)
(***************************************************************************)

(* A prompt is taken off the channel.  A stop pressed while idle must not  *)
(* kill the next turn, so the flag is cleared first of all.                *)
ReceivePrompt ==
  /\ pc = "idle"
  /\ asked < MaxPrompts
  /\ asked' = asked + 1
  /\ flag' = FALSE
  /\ pc' = "setup"
  /\ announced' = FALSE
  /\ endings' = 0
  /\ late' = 0
  /\ UNCHANGED <<session, round, attempt, compacted, results, stopped, outcome,
                 pushed, question, issued, answered>>

(* No model or no sandbox: the prompt is shown, then why it cannot run.    *)
SetupFails ==
  /\ pc = "setup"
  /\ pc' = "idle"
  /\ announced' = TRUE
  /\ Emit(1)
  /\ UNCHANGED <<session, round, attempt, compacted, results, stopped, outcome,
                 flag, history, late>>

TurnStarts ==
  /\ pc = "setup"
  /\ Push(UserText(IF answered THEN "plain" ELSE "excused"))
  /\ question' = pushed + 1
  /\ answered' = FALSE
  /\ announced' = TRUE
  /\ round' = 0
  /\ compacted' = FALSE
  /\ pc' = "round"
  /\ UNCHANGED <<covered, attempt, results, stopped, outcome, flag, endings,
                 asked, issued, late>>

(* Mutant: a refusal is shown a second time.                               *)
WorkerReturnsLoudly ==
  /\ pc = "returned"
  /\ Emit(IF outcome # "ok" THEN 1 ELSE 0)
  /\ pc' = "idle"
  /\ UNCHANGED <<session, round, attempt, compacted, results, stopped, outcome,
                 flag, announced, history, late>>

(* Back in the worker: an error is shown, except a refusal, which run_turn *)
(* has reported itself.  The session is saved and the next command taken.  *)
WorkerReturns ==
  /\ pc = "returned"
  /\ Emit(IF outcome = "error" THEN 1 ELSE 0)
  /\ pc' = "idle"
  /\ UNCHANGED <<session, round, attempt, compacted, results, stopped, outcome,
                 flag, announced, history, late>>

-----------------------------------------------------------------------------
(***************************************************************************)
(* A round: one request, retried while it fails in transit.                *)
(***************************************************************************)
BeginRound ==
  /\ pc = "round"
  /\ round < MaxToolRounds
  /\ round' = round + 1
  /\ IF flag
     THEN /\ FinishCancelled
          /\ UNCHANGED attempt
     ELSE /\ attempt' = 0
          /\ pc' = "streaming"
          /\ UNCHANGED <<outcome, endings>>
  /\ UNCHANGED <<session, compacted, results, stopped, flag, announced,
                 history, late>>

Runaway ==
  /\ pc = "round"
  /\ round = MaxToolRounds
  /\ Return("error")
  /\ UNCHANGED <<session, round, attempt, compacted, results, stopped, flag,
                 told, history, late>>

(* Mutant: only the first attempt is raced against the stop.               *)
StreamCancelledFirstOnly ==
  /\ pc = "streaming"
  /\ flag
  /\ attempt = 0
  /\ FinishCancelled
  /\ UNCHANGED <<session, round, attempt, compacted, results, stopped, flag,
                 announced, history, late>>

(* The select is biased: once the flag is up, only this can happen.        *)
StreamCancelled ==
  /\ pc = "streaming"
  /\ flag
  /\ FinishCancelled
  /\ UNCHANGED <<session, round, attempt, compacted, results, stopped, flag,
                 announced, history, late>>

(* Mutant: the retries are not counted.                                    *)
StreamBreaksUncounted ==
  /\ pc = "streaming"
  /\ ~flag
  /\ pc' = "backoff"
  /\ UNCHANGED <<session, round, attempt, compacted, results, stopped, outcome,
                 flag, told, history, late>>

(* A truncated stream or a failed connection.                              *)
StreamBreaks ==
  /\ pc = "streaming"
  /\ ~flag
  /\ IF attempt < MaxStreamRetries
     THEN /\ attempt' = attempt + 1
          /\ pc' = "backoff"
          /\ UNCHANGED outcome
     ELSE /\ Return("error")
          /\ UNCHANGED attempt
  /\ UNCHANGED <<session, round, compacted, results, stopped, flag, told,
                 history, late>>

(* The sleep before a retry does not watch the flag.                       *)
BackoffEnds ==
  /\ pc = "backoff"
  /\ pc' = "streaming"
  /\ UNCHANGED <<session, round, attempt, compacted, results, stopped, outcome,
                 flag, told, history, late>>

(* An HTTP error status or a mid-stream error event: not retried.          *)
StreamFails ==
  /\ pc = "streaming"
  /\ ~flag
  /\ Return("error")
  /\ UNCHANGED <<session, round, attempt, compacted, results, stopped, flag,
                 told, history, late>>

(* Refused for length: compact and try the round again, once a turn, and   *)
(* only when there is something to drop.                                   *)
StreamTooLong ==
  /\ pc = "streaming"
  /\ ~flag
  /\ compacted' = TRUE
  /\ IF ~compacted /\ Cuts(transcript) # {}
     THEN pc' = "shorten" /\ UNCHANGED outcome
     ELSE Return("error")
  /\ UNCHANGED <<session, round, attempt, results, stopped, flag, told,
                 history, late>>

Shortened ==
  /\ pc = "shorten"
  /\ \E cut \in Cuts(transcript) :
       /\ CompactionCut(transcript, cut)
       /\ DropUpTo(cut)
  /\ pc' = "round"
  /\ UNCHANGED <<round, attempt, compacted, results, stopped, outcome, flag,
                 told, history, late>>

ShortenFails ==
  /\ pc = "shorten"
  /\ Return("error")
  /\ UNCHANGED <<session, round, attempt, compacted, results, stopped, flag,
                 told, history, late>>

-----------------------------------------------------------------------------
(***************************************************************************)
(* A complete message.  It is pushed before it is looked at.               *)
(***************************************************************************)
NewCalls(n) == [i \in 1 .. n |-> issued + i]

StreamRefused(n) ==
  /\ pc = "streaming"
  /\ ~flag
  /\ Push(Assistant(NewCalls(n), "excused"))
  /\ issued' = issued + n
  /\ answered' = TRUE
  /\ Emit(1)
  /\ Return("refused")
  /\ UNCHANGED <<covered, round, attempt, compacted, results, stopped, flag,
                 announced, asked, question, late>>

StreamAnswers ==
  /\ pc = "streaming"
  /\ ~flag
  /\ Push(Assistant(<< >>, "plain"))
  /\ answered' = TRUE
  /\ Emit(1)
  /\ pc' = "settle"
  /\ UNCHANGED <<covered, round, attempt, compacted, results, stopped, outcome,
                 flag, announced, asked, question, issued, late>>

StreamCalls(n) ==
  /\ pc = "streaming"
  /\ ~flag
  /\ n > 0
  /\ Push(Assistant(NewCalls(n), "plain"))
  /\ issued' = issued + n
  /\ results' = << >>
  /\ stopped' = FALSE
  /\ pc' = "calls"
  /\ UNCHANGED <<covered, round, attempt, compacted, outcome, flag, told,
                 asked, question, answered, late>>

-----------------------------------------------------------------------------
(***************************************************************************)
(* The tool loop: calls run one after the other, and after a stop the rest *)
(* are answered rather than skipped.                                       *)
(***************************************************************************)
CurrentCall == LastTurn.calls[Len(results) + 1]

AnswerCall == results' = Append(results, CurrentCall)

(* Mutant: only a stop that was already noticed skips the call.            *)
CallTakenUnchecked ==
  /\ pc = "calls"
  /\ Len(results) < Len(LastTurn.calls)
  /\ IF stopped
     THEN AnswerCall /\ UNCHANGED pc
     ELSE pc' = "spawn" /\ UNCHANGED results
  /\ UNCHANGED <<session, round, attempt, compacted, stopped, outcome, flag,
                 told, history, late>>

CallTaken ==
  /\ pc = "calls"
  /\ Len(results) < Len(LastTurn.calls)
  /\ IF stopped \/ flag
     THEN /\ stopped' = TRUE
          /\ AnswerCall
          /\ UNCHANGED pc
     ELSE /\ pc' = "spawn"
          /\ UNCHANGED <<stopped, results>>
  /\ UNCHANGED <<session, round, attempt, compacted, outcome, flag, told,
                 history, late>>

(* The tool starts before anything looks at the flag again.  What runs     *)
(* from here to CallEnds is one tool: edit_file's two commands are one.    *)
CallSpawned ==
  /\ pc = "spawn"
  /\ pc' = "running"
  /\ late' = late + (IF flag THEN 1 ELSE 0)
  /\ UNCHANGED <<session, round, attempt, compacted, results, stopped, outcome,
                 flag, told, history>>

(* It ended by itself, at its deadline, or killed by the stop: whichever   *)
(* it was, the call gets its result.                                       *)
CallEnds ==
  /\ pc = "running"
  /\ AnswerCall
  /\ pc' = "calls"
  /\ UNCHANGED <<session, round, attempt, compacted, stopped, outcome, flag,
                 told, history, late>>

(* Mutant: a stopped turn ends at once, its results not pushed.            *)
CallsAnsweredUnlessStopped ==
  /\ pc = "calls"
  /\ Len(results) = Len(LastTurn.calls)
  /\ results' = << >>
  /\ IF stopped
     THEN FinishCancelled /\ UNCHANGED <<transcript, pushed>>
     ELSE /\ Push(ToolResults(results))
          /\ pc' = "round"
          /\ UNCHANGED <<outcome, endings>>
  /\ UNCHANGED <<covered, round, attempt, compacted, stopped, flag, announced,
                 asked, question, issued, answered, late>>

CallsAnswered ==
  /\ pc = "calls"
  /\ Len(results) = Len(LastTurn.calls)
  /\ Push(ToolResults(results))
  /\ results' = << >>
  /\ IF stopped
     THEN FinishCancelled
     ELSE /\ pc' = "round"
          /\ UNCHANGED <<outcome, endings>>
  /\ UNCHANGED <<covered, round, attempt, compacted, stopped, flag, announced,
                 asked, question, issued, answered, late>>

-----------------------------------------------------------------------------
(***************************************************************************)
(* compact_if_full, after the turn was reported as ended.                  *)
(***************************************************************************)
SettleQuietly ==
  /\ pc = "settle"
  /\ Return("ok")
  /\ UNCHANGED <<session, round, attempt, compacted, results, stopped, flag,
                 told, history, late>>

SettleFull ==
  /\ pc = "settle"
  /\ Cuts(transcript) # {}
  /\ pc' = "condense"
  /\ UNCHANGED <<session, round, attempt, compacted, results, stopped, outcome,
                 flag, told, history, late>>

Condensed ==
  /\ pc = "condense"
  /\ \E cut \in Cuts(transcript) :
       /\ CompactionCut(transcript, cut)
       /\ DropUpTo(cut)
  /\ Return("ok")
  /\ UNCHANGED <<round, attempt, compacted, results, stopped, flag, told,
                 history, late>>

CondenseFails ==
  /\ pc = "condense"
  /\ Return("ok")
  /\ UNCHANGED <<session, round, attempt, compacted, results, stopped, flag,
                 told, history, late>>

(* AgentHandle::stop, from any thread at any time.                         *)
Stop ==
  /\ flag' = TRUE
  /\ UNCHANGED <<worker, session, told, history, late>>

-----------------------------------------------------------------------------
Turns == ReceivePrompt \/ SetupFails \/ TurnStarts \/ WorkerReturns

Rounds == BeginRound \/ Runaway

Streams ==
  \/ StreamCancelled \/ StreamBreaks \/ BackoffEnds \/ StreamFails
  \/ StreamTooLong \/ StreamAnswers
  \/ \E n \in 0 .. MaxCalls : StreamRefused(n) \/ StreamCalls(n)

Tools == CallTaken \/ CallSpawned \/ CallEnds \/ CallsAnswered

Compactions ==
  \/ Shortened \/ ShortenFails
  \/ SettleQuietly \/ SettleFull \/ Condensed \/ CondenseFails

Next == Turns \/ Rounds \/ Streams \/ Tools \/ Compactions \/ Stop

Spec == Init /\ [][Next]_vars

(***************************************************************************)
(* Fairness.  The worker's own steps are taken by a runtime that never     *)
(* parks a ready task; a tool ends because run_inner kills it at its       *)
(* deadline or on a stop.  Nothing is assumed of the model server when a   *)
(* message is being streamed.  A request for a summary is another matter:  *)
(* nothing but its answer ends it, so ServerSummarizes says it is answered.*)
(***************************************************************************)
WorkerFairness ==
  /\ WF_vars(SetupFails \/ TurnStarts \/ WorkerReturns)
  /\ WF_vars(Rounds)
  /\ WF_vars(StreamCancelled)
  /\ WF_vars(BackoffEnds)
  /\ WF_vars(Tools)
  /\ WF_vars(SettleQuietly \/ SettleFull)

ServerSummarizes == WF_vars(Shortened \/ ShortenFails \/ Condensed \/ CondenseFails)

ServerAnswers == WF_vars(Streams)

WorkerSpec  == Spec /\ WorkerFairness
PatientSpec == WorkerSpec /\ ServerSummarizes
-----------------------------------------------------------------------------
(***************************************************************************)
(* Properties.                                                             *)
(***************************************************************************)

(* The types, with the bounds the code enforces: at most MaxToolRounds     *)
(* rounds a turn and MaxStreamRetries retries a request, and never more    *)
(* answers than the message being worked on has calls.                     *)
TypeOK ==
  /\ pc \in Places
  /\ transcript \in Seq(Turn)
  /\ covered \in Nat
  /\ round \in 0 .. MaxToolRounds
  /\ attempt \in 0 .. MaxStreamRetries
  /\ compacted \in BOOLEAN
  /\ results \in Seq(CallId)
  /\ stopped \in BOOLEAN
  /\ outcome \in {"ok", "refused", "error"}
  /\ flag \in BOOLEAN
  /\ announced \in BOOLEAN
  /\ endings \in Nat
  /\ asked \in Nat /\ pushed \in Nat /\ question \in Nat /\ issued \in Nat
  /\ answered \in BOOLEAN
  /\ late \in Nat

(* What session.rs:115-117 says the API enforces, with the two things that *)
(* break it in this code and nothing else.  Whatever was stopped, refused  *)
(* for length, retried or compacted before, a request starts with a        *)
(* prompt; each call is answered by the very next turn, unless the model   *)
(* declined in that message (lib.rs:262 pushes it before it is looked at,  *)
(* and nothing answers it); each answer has its call; roles alternate,     *)
(* unless a prompt comes after a turn that was stopped or failed, whose    *)
(* own prompt or results had no message after them; and it ends on the     *)
(* user's side.                                                            *)
RequestsAreShaped == pc \in {"streaming", "backoff"} => RequestShape(transcript)

(* Compaction may happen in the middle of a turn, and still the question   *)
(* being answered is never summarized away: the turn that was pushed last  *)
(* by a prompt is still in the transcript.                                 *)
QuestionKept == pushed > 0 => covered < question

(* A turn is in the transcript or behind the summary, never neither and    *)
(* never both: what is rendered for the summary (..cut) is what is drained.*)
NothingForgotten == pushed = covered + Len(transcript)

(* A stop pressed in the instant between the check and the spawn lets one  *)
(* more tool start, and that is all: no later call of the message and no   *)
(* later round starts another.  (A tool, not a command: edit_file runs two *)
(* of them, tools.rs:419 and 445, with no look at the stop in between.)    *)
AtMostOneLateTool == late <= 1

(* The worker keeps the contract of a turn: one announcement, exactly one  *)
(* conclusion whatever path ended it (answer, stop, error, refusal, failed *)
(* setup), no prompt taken before that, and a stop pressed in an open turn *)
(* never erased before it concludes.                                       *)
Phase ==
  CASE pc = "idle" -> "ready"
    [] pc # "idle" /\ ~announced -> "starting"
    [] pc # "idle" /\ announced /\ endings = 0 -> "open"
    [] OTHER -> "closing"

Contract == INSTANCE TurnContract WITH phase <- Phase, stopAsked <- flag

KeepsContract == Contract!Spec

(* Stop works wherever the turn is waiting, whether or not the model       *)
(* server ever finishes the message it is streaming.                       *)
TurnOpen == announced /\ endings = 0

StopIsHeard == TurnOpen /\ flag ~> ~TurnOpen

(* If the server answers as well, every prompt is concluded and the worker *)
(* comes back for the next: retries, rounds and compactions all run out.   *)
EveryTurnConcludes == ServerAnswers => (pc # "idle" ~> pc = "idle")

-----------------------------------------------------------------------------
(***************************************************************************)
(* The inductive invariant behind RequestsAreShaped, QuestionKept,         *)
(* NothingForgotten, AtMostOneLateTool and KeepsContract.                  *)
(***************************************************************************)
Answering == pc \in {"calls", "spawn", "running"}

(* While tools run, the last message is the only one with open calls but   *)
(* for declined ones; and after an answered turn a message comes last.     *)
ShapeInv ==
  /\ Answering => transcript # << >> /\ LastTurn.kind = "message"
  /\ pc \in {"round", "streaming", "backoff", "shorten"} =>
        transcript # << >> /\ LastTurn.kind # "message"
  /\ pc \in {"settle", "condense"} => transcript # << >>
  /\ Answering => ShapedUpTo(transcript, Len(transcript)) /\ LastTurn.mark = "plain"
  /\ ~Answering => WellShaped(transcript)
  /\ answered => ~Answering /\ (transcript = << >> \/ LastTurn.kind = "message")

(* The results gathered so far answer the calls in their order.            *)
ResultsInv ==
  Answering =>
    /\ Len(results) <= Len(LastTurn.calls)
    /\ \A i \in 1 .. Len(results) : results[i] = LastTurn.calls[i]
    /\ pc \in {"spawn", "running"} => Len(results) < Len(LastTurn.calls)

(* The current question is the last prompt of the transcript.              *)
QuestionInv ==
  /\ pc \notin {"idle", "setup"} => pushed > 0
  /\ pushed > 0 =>
       /\ covered < question /\ question <= pushed
       /\ transcript[question - covered].kind = "prompt"
       /\ \A i \in 1 .. Len(transcript) :
            i > question - covered => transcript[i].kind # "prompt"

LateInv ==
  /\ late <= 1
  /\ late = 1 => flag
  /\ pc = "spawn" => late = 0

EventInv ==
  /\ pc = "setup" => ~announced /\ endings = 0
  /\ pc \in {"round", "streaming", "backoff", "shorten"} \/ Answering =>
        announced /\ endings = 0
  /\ pc \in {"settle", "condense"} => announced /\ endings = 1
  /\ pc = "returned" => announced /\ endings = (IF outcome = "error" THEN 0 ELSE 1)

IInv ==
  /\ TypeOK
  /\ NothingForgotten
  /\ ShapeInv
  /\ ResultsInv
  /\ QuestionInv
  /\ LateInv
  /\ EventInv
=============================================================================
