----------------------------- MODULE Transcript -----------------------------
(***************************************************************************)
(* The conversation as mc-core keeps it (crates/mc-core/src/session.rs): a *)
(* sequence of turns in the shape the Messages API enforces, and the rule  *)
(* that says where a prefix of it may be dropped.                          *)
(*                                                                         *)
(* The text of a turn is abstracted away.  What is kept is what decides    *)
(* whether the next request is accepted: the kind of the turn, which gives *)
(* its role, and the identifiers of the tool calls it makes or answers.    *)
(* One thing is added that the code does not keep, to tell in a property   *)
(* what came of a turn: a message the model declined is marked "excused",  *)
(* and so is a prompt typed after a turn that was stopped or failed.       *)
(***************************************************************************)
EXTENDS Integers, Sequences

CONSTANT KeepRecent    \* turns kept verbatim by a compaction (AgentConfig)

ASSUME KeepRecentAssumption == KeepRecent \in Nat

CallId == Nat

Turn == [kind : {"prompt", "message", "results"}, calls : Seq(CallId),
         mark : {"plain", "excused"}]

UserText(mark) ==
  [kind |-> "prompt", calls |-> << >>, mark |-> mark]
Assistant(calls, mark) ==
  [kind |-> "message", calls |-> calls, mark |-> mark]
ToolResults(calls) ==
  [kind |-> "results", calls |-> calls, mark |-> "plain"]

Role(turn) == IF turn.kind = "message" THEN "assistant" ELSE "user"

-----------------------------------------------------------------------------
(***************************************************************************)
(* Compaction.  A cut is the number of turns dropped; the code's indices   *)
(* start at 0, so turn number cut + 1 here is the first one kept.          *)
(***************************************************************************)
(* Mutant: tool results pass for a prompt, being under the same role.      *)
IsUserTurn(transcript, i) ==
  /\ i + 1 \in 1 .. Len(transcript)
  /\ Role(transcript[i + 1]) = "user"

IsPrompt(transcript, i) ==
  /\ i + 1 \in 1 .. Len(transcript)
  /\ transcript[i + 1].kind = "prompt"

(* Every place compaction_cut looks at and would accept.                   *)
Cuts(transcript) ==
  {i \in 1 .. (Len(transcript) - KeepRecent) : IsPrompt(transcript, i)}

(* The one it returns: the search runs backwards, so the latest.           *)
CompactionCut(transcript, cut) ==
  /\ cut \in Cuts(transcript)
  /\ \A other \in Cuts(transcript) : other <= cut

Compact(transcript, cut) == SubSeq(transcript, cut + 1, Len(transcript))

-----------------------------------------------------------------------------
(***************************************************************************)
(* The shape the API enforces (session.rs:115-117): a result follows the   *)
(* call it answers, and roles alternate.                                   *)
(***************************************************************************)
Answered(transcript, i) ==
  transcript[i].calls # << >> =>
     /\ i < Len(transcript)
     /\ transcript[i + 1] = ToolResults(transcript[i].calls)

Answers(transcript, i) ==
  /\ i > 1
  /\ transcript[i - 1] = Assistant(transcript[i].calls, "plain")

(* Two turns of one side follow each other only where a prompt was typed   *)
(* after a turn that got no answer.                                        *)
Alternates(transcript, i) ==
  \/ i = 1
  \/ Role(transcript[i]) # Role(transcript[i - 1])
  \/ transcript[i].kind = "prompt" /\ transcript[i].mark = "excused"

(* Every result follows the message whose calls it answers, and every call *)
(* of a message before turn number n, but for a declined one, is answered  *)
(* by the turn after it.                                                   *)
ShapedUpTo(transcript, n) ==
  /\ transcript # << >> => transcript[1].kind = "prompt"
  /\ \A i \in 1 .. Len(transcript) :
       /\ Alternates(transcript, i)
       /\ transcript[i].kind = "results" => Answers(transcript, i)
       /\ transcript[i].kind = "message" /\ transcript[i].mark = "plain" /\ i < n =>
            Answered(transcript, i)

WellShaped(transcript) == ShapedUpTo(transcript, Len(transcript) + 1)

(* What a request is sent with: a conversation shaped to its end, but for  *)
(* the excused turns, that ends with the user's side, so that there is     *)
(* something for the model to answer.                                      *)
RequestShape(transcript) ==
  /\ transcript # << >>
  /\ WellShaped(transcript)
  /\ Role(transcript[Len(transcript)]) = "user"
=============================================================================
