--------------------------- MODULE AgentTurn_proofs ---------------------------
(***************************************************************************)
(* Theorems of AgentTurn, for every number of rounds, retries, prompts and *)
(* tool calls and every number of turns a compaction keeps.                *)
(***************************************************************************)
EXTENDS AgentTurn, SequenceTheorems, WellFoundedInduction, TLAPS

-----------------------------------------------------------------------------
(***************************************************************************)
(* What the operations of a session do to the shape of its transcript.     *)
(***************************************************************************)
(* A prompt may follow any whole conversation: Session::push of a          *)
(* Turn::user_text never separates a call from its result, and it follows  *)
(* a message unless it is excused.                                         *)
LEMMA PromptKeepsShape ==
  ASSUME NEW t \in Seq(Turn), WellShaped(t), NEW mark \in {"plain", "excused"},
         mark = "excused" \/ t = << >> \/ t[Len(t)].kind = "message"
  PROVE  WellShaped(Append(t, UserText(mark)))
<1> DEFINE u == Append(t, UserText(mark))
<1>1. UserText(mark) \in Turn
  BY EmptySeq DEF UserText, Turn, CallId
<1>2. /\ u \in Seq(Turn)
      /\ Len(u) = Len(t) + 1
      /\ \A i \in 1 .. Len(t) : u[i] = t[i]
      /\ u[Len(t) + 1] = UserText(mark)
      /\ Len(t) \in Nat
  BY <1>1, AppendProperties, LenProperties
<1>3. u # << >> => u[1].kind = "prompt"
  <2>1. CASE t = << >>
    BY <1>2, <2>1, EmptySeq DEF UserText
  <2>2. CASE t # << >>
    BY <1>2, <2>2, EmptySeq DEF WellShaped, ShapedUpTo
  <2>3. QED BY <2>1, <2>2
<1>4. ASSUME NEW i \in 1 .. Len(u)
      PROVE  /\ Alternates(u, i)
             /\ u[i].kind = "results" => Answers(u, i)
             /\ u[i].kind = "message" /\ u[i].mark = "plain" => Answered(u, i)
  <2>1. CASE i = Len(t) + 1
    <3>1. u[i].kind = "prompt" /\ u[i].mark = mark
      BY <1>2, <2>1 DEF UserText
    <3>2. i # 1 /\ mark = "plain" => u[i - 1].kind = "message"
      BY <1>2, <2>1, EmptySeq
    <3>3. QED BY <3>1, <3>2 DEF Alternates, Role
  <2>2. CASE i \in 1 .. Len(t)
    <3>1. u[i] = t[i] /\ (i > 1 => u[i - 1] = t[i - 1])
      BY <1>2, <2>2
    <3>2. Alternates(t, i) /\ (t[i].kind = "results" => Answers(t, i))
      BY <2>2 DEF WellShaped, ShapedUpTo
    <3>3. t[i].kind = "message" /\ t[i].mark = "plain" => Answered(t, i)
      BY <1>2, <2>2 DEF WellShaped, ShapedUpTo
    <3>4. i < Len(t) => u[i + 1] = t[i + 1]
      BY <1>2, <2>2
    <3>5. Alternates(u, i)
      BY <3>1, <3>2, <2>2, <1>2 DEF Alternates
    <3>6. QED BY <3>1, <3>2, <3>3, <3>4, <3>5, <1>2, <2>2 DEF Answers, Answered
  <2>3. QED BY <1>2, <2>1, <2>2
<1>5. QED
  BY <1>3, <1>4 DEF WellShaped, ShapedUpTo

(* A message is pushed verbatim: only its own calls, if it has any and was *)
(* not declined, are left without results.                                 *)
LEMMA MessageKeepsShape ==
  ASSUME NEW t \in Seq(Turn), WellShaped(t), t # << >>,
         t[Len(t)].kind # "message",
         NEW calls \in Seq(CallId), NEW mark \in {"plain", "excused"}
  PROVE  /\ ShapedUpTo(Append(t, Assistant(calls, mark)), Len(t) + 1)
         /\ calls = << >> \/ mark = "excused" =>
              WellShaped(Append(t, Assistant(calls, mark)))
<1> DEFINE u == Append(t, Assistant(calls, mark))
<1>1. Assistant(calls, mark) \in Turn
  BY DEF Assistant, Turn
<1>2. /\ u \in Seq(Turn)
      /\ Len(u) = Len(t) + 1
      /\ \A i \in 1 .. Len(t) : u[i] = t[i]
      /\ u[Len(t) + 1] = Assistant(calls, mark)
      /\ Len(t) \in Nat \ {0}
  BY <1>1, AppendProperties, LenProperties, EmptySeq
<1>3. u[1].kind = "prompt"
  BY <1>2 DEF WellShaped, ShapedUpTo
<1>4. ASSUME NEW i \in 1 .. Len(t)
      PROVE  /\ Alternates(u, i)
             /\ u[i].kind = "results" => Answers(u, i)
             /\ u[i].kind = "message" /\ u[i].mark = "plain" => Answered(u, i)
  <2>1. u[i] = t[i] /\ (i > 1 => u[i - 1] = t[i - 1])
    BY <1>2
  <2>2. Alternates(t, i) /\ (t[i].kind = "results" => Answers(t, i))
    BY DEF WellShaped, ShapedUpTo
  <2>3. t[i].kind = "message" /\ t[i].mark = "plain" => Answered(t, i)
    BY <1>2 DEF WellShaped, ShapedUpTo
  <2>4. i < Len(t) => u[i + 1] = t[i + 1]
    BY <1>2
  <2>5. Alternates(u, i)
    BY <2>1, <2>2, <1>2 DEF Alternates
  <2>6. QED BY <2>1, <2>2, <2>3, <2>4, <2>5, <1>2 DEF Answers, Answered
<1>5. /\ u[Len(t) + 1].kind = "message" /\ u[Len(t) + 1].calls = calls
      /\ u[Len(t) + 1].mark = mark
  BY <1>2 DEF Assistant
<1>6. Alternates(u, Len(t) + 1)
  BY <1>2, <1>5 DEF Alternates, Role
<1>7. QED
  BY <1>2, <1>3, <1>4, <1>5, <1>6 DEF WellShaped, ShapedUpTo, Answered

(* Turn::tool_results closes the exchange: one turn answers every call of  *)
(* the message just before it.                                             *)
LEMMA ResultsKeepShape ==
  ASSUME NEW t \in Seq(Turn), t # << >>, ShapedUpTo(t, Len(t)),
         t[Len(t)].kind = "message", t[Len(t)].mark = "plain"
  PROVE  WellShaped(Append(t, ToolResults(t[Len(t)].calls)))
<1> DEFINE n == Len(t)
           r == ToolResults(t[n].calls)
           u == Append(t, r)
<1>1. n \in Nat \ {0} /\ t[n] \in Turn
  BY LenProperties, EmptySeq, ElementOfSeq
<1>2. r \in Turn
  BY <1>1 DEF ToolResults, Turn
<1>3. /\ u \in Seq(Turn)
      /\ Len(u) = n + 1
      /\ \A i \in 1 .. n : u[i] = t[i]
      /\ u[n + 1] = r
  BY <1>2, AppendProperties
<1>4. u[1].kind = "prompt"
  BY <1>1, <1>3 DEF ShapedUpTo
<1>5. Answers(u, n + 1)
  BY <1>1, <1>3 DEF Answers, Assistant, ToolResults, Turn
<1>6. Answered(u, n)
  BY <1>1, <1>3 DEF Answered
<1>7. ASSUME NEW i \in 1 .. n
      PROVE  /\ Alternates(u, i)
             /\ u[i].kind = "results" => Answers(u, i)
             /\ u[i].kind = "message" /\ u[i].mark = "plain" => Answered(u, i)
  <2>1. u[i] = t[i] /\ (i > 1 => u[i - 1] = t[i - 1])
    BY <1>1, <1>3
  <2>2. Alternates(t, i) /\ (t[i].kind = "results" => Answers(t, i))
    BY <1>1 DEF ShapedUpTo
  <2>3. t[i].kind = "message" /\ t[i].mark = "plain" /\ i < n => Answered(t, i)
    BY <1>1 DEF ShapedUpTo
  <2>4. i < n => u[i + 1] = t[i + 1]
    BY <1>1, <1>3
  <2>5. Alternates(u, i)
    BY <2>1, <2>2, <1>1, <1>3 DEF Alternates
  <2>6. QED BY <2>1, <2>2, <2>3, <2>4, <2>5, <1>1, <1>3, <1>6 DEF Answers, Answered
<1>8. u[n + 1].kind = "results" /\ Alternates(u, n + 1)
  BY <1>1, <1>3 DEF ToolResults, Alternates, Role
<1>9. QED
  BY <1>1, <1>3, <1>4, <1>5, <1>7, <1>8 DEF WellShaped, ShapedUpTo

(* Dropping what comes before a prompt breaks neither a call nor a result, *)
(* and leaves a conversation with the same end: the claim that makes       *)
(* compaction_cut safe.                                                    *)
LEMMA CompactKeepsShape ==
  ASSUME NEW t \in Seq(Turn),
         NEW cut \in 1 .. Len(t) - 1, t[cut + 1].kind = "prompt"
  PROVE  /\ Compact(t, cut) \in Seq(Turn)
         /\ Len(Compact(t, cut)) = Len(t) - cut
         /\ \A i \in 1 .. Len(t) - cut : Compact(t, cut)[i] = t[cut + i]
         /\ WellShaped(t) => WellShaped(Compact(t, cut))
<1> DEFINE u == Compact(t, cut)
<1>1. Len(t) \in Nat
  BY LenProperties
<1>2. \A i \in cut + 1 .. Len(t) : t[i] \in Turn
  BY <1>1, ElementOfSeq
<1>3. /\ u \in Seq(Turn)
      /\ Len(u) = Len(t) - cut
      /\ \A i \in 1 .. Len(t) - cut : u[i] = t[cut + i]
  <2>1. /\ u \in Seq(Turn)
        /\ Len(u) = IF cut + 1 <= Len(t) THEN Len(t) - (cut + 1) + 1 ELSE 0
        /\ \A i \in 1 .. Len(t) - (cut + 1) + 1 : u[i] = t[(cut + 1) + i - 1]
    BY <1>1, <1>2, SubSeqProperties DEF Compact
  <2>2. \A i \in 1 .. Len(t) - cut :
           i \in 1 .. Len(t) - (cut + 1) + 1 /\ (cut + 1) + i - 1 = cut + i
    BY <1>1
  <2>3. QED BY <1>1, <2>1, <2>2
<1>4. u[1].kind = "prompt"
  BY <1>1, <1>3
<1>5. ASSUME WellShaped(t), NEW i \in 1 .. Len(u)
      PROVE  /\ Alternates(u, i)
             /\ u[i].kind = "results" => Answers(u, i)
             /\ u[i].kind = "message" /\ u[i].mark = "plain" => Answered(u, i)
  <2> DEFINE j == cut + i
  <2>1. j \in 1 .. Len(t) /\ u[i] = t[j]
    BY <1>1, <1>3
  <2>2. /\ Alternates(t, j)
        /\ t[j].kind = "results" => Answers(t, j)
        /\ t[j].kind = "message" /\ t[j].mark = "plain" => Answered(t, j)
    BY <1>1, <1>5, <2>1 DEF WellShaped, ShapedUpTo
  <2>3. i > 1 => u[i - 1] = t[j - 1]
    BY <1>1, <1>3
  <2>4. i < Len(u) => u[i + 1] = t[j + 1] /\ j < Len(t)
    BY <1>1, <1>3
  <2>5. j < Len(t) => i < Len(u)
    BY <1>1, <1>3
  <2>6. i = 1 => u[i].kind # "results"
    BY <1>4
  <2>7. Alternates(u, i)
    BY <1>1, <1>3, <1>4, <2>1, <2>2, <2>3 DEF Alternates
  <2>8. QED BY <2>1, <2>2, <2>3, <2>4, <2>5, <2>6, <2>7 DEF Answers, Answered
<1>6. QED
  BY <1>3, <1>4, <1>5 DEF WellShaped, ShapedUpTo

-----------------------------------------------------------------------------
USE KeepRecentAssumption, AgentTurnAssumption

(* The calls of a new message are call identifiers.                        *)
LEMMA NewCallsType ==
  ASSUME NEW n \in Nat, issued \in Nat
  PROVE  /\ NewCalls(n) \in Seq(CallId)
         /\ Len(NewCalls(n)) = n
BY DEF NewCalls, CallId

(* The four things that are pushed are turns.                              *)
LEMMA TurnTypes ==
  \A mark \in {"plain", "excused"} :
    /\ UserText(mark) \in Turn
    /\ \A calls \in Seq(CallId) :
         Assistant(calls, mark) \in Turn /\ ToolResults(calls) \in Turn
<1>1. << >> \in Seq(CallId)
  BY EmptySeq
<1>2. QED BY <1>1 DEF UserText, Assistant, ToolResults, Turn

(* What compaction_cut returns is a place before the current question, at  *)
(* a prompt: so dropping up to it keeps the shape and the question.        *)
LEMMA CutIsSafe ==
  ASSUME IInv, ~Answering, pushed > 0,
         NEW cut \in Cuts(transcript)
  PROVE  /\ cut \in 1 .. Len(transcript) - 1
         /\ transcript[cut + 1].kind = "prompt"
         /\ cut + 1 <= question - covered
<1>1. Len(transcript) \in Nat
  BY LenProperties DEF IInv, TypeOK
<1>2. /\ cut \in 1 .. Len(transcript) - 1
      /\ transcript[cut + 1].kind = "prompt"
  BY <1>1 DEF Cuts, IsPrompt
<1>3. cut + 1 <= question - covered
  BY <1>1, <1>2 DEF IInv, TypeOK, QuestionInv
<1>4. QED BY <1>2, <1>3

(* The part of the invariant that reads the transcript is kept by dropping *)
(* a prefix at such a place.                                               *)
LEMMA DropKeeps ==
  ASSUME IInv, ~Answering, pushed > 0, Len(transcript) > 0,
         NEW cut \in Cuts(transcript), DropUpTo(cut),
         UNCHANGED <<pushed, question>>
  PROVE  /\ transcript' \in Seq(Turn) /\ covered' \in Nat
         /\ transcript' # << >>
         /\ WellShaped(transcript')
         /\ LastTurn' = LastTurn
         /\ pushed' = covered' + Len(transcript')
         /\ covered' < question'
         /\ transcript'[question' - covered'].kind = "prompt"
         /\ \A i \in 1 .. Len(transcript') :
              i > question' - covered' => transcript'[i].kind # "prompt"
<1>1. /\ cut \in 1 .. Len(transcript) - 1
      /\ transcript[cut + 1].kind = "prompt"
      /\ cut + 1 <= question - covered
  BY CutIsSafe
<1>2. /\ Len(transcript) \in Nat
      /\ transcript \in Seq(Turn) /\ covered \in Nat
      /\ WellShaped(transcript)
      /\ pushed \in Nat /\ question \in Nat
      /\ pushed = covered + Len(transcript)
      /\ question <= pushed
      /\ transcript[question - covered].kind = "prompt"
      /\ \A i \in 1 .. Len(transcript) :
            i > question - covered => transcript[i].kind # "prompt"
  BY LenProperties DEF IInv, TypeOK, ShapeInv, NothingForgotten, QuestionInv
<1>3. /\ transcript' \in Seq(Turn)
      /\ Len(transcript') = Len(transcript) - cut
      /\ \A i \in 1 .. Len(transcript) - cut : transcript'[i] = transcript[cut + i]
      /\ WellShaped(transcript')
  BY <1>1, <1>2, CompactKeepsShape DEF DropUpTo
<1>4. covered' = covered + cut
  BY DEF DropUpTo
<1>5. /\ covered' \in Nat
      /\ pushed' = covered' + Len(transcript')
      /\ covered' < question'
  BY <1>1, <1>2, <1>3, <1>4
<1>6. transcript' # << >>
  BY <1>1, <1>2, <1>3, EmptySeq
<1>7. LastTurn' = LastTurn
  <2>1. /\ Len(transcript) - cut \in 1 .. Len(transcript) - cut
        /\ cut + (Len(transcript) - cut) = Len(transcript)
    BY <1>1, <1>2
  <2>2. transcript'[Len(transcript) - cut] = transcript[Len(transcript)]
    BY <1>3, <2>1
  <2>3. QED BY <1>3, <2>2 DEF LastTurn
<1>8. transcript'[question' - covered'].kind = "prompt"
  <2>1. question - covered - cut \in 1 .. Len(transcript) - cut
    BY <1>1, <1>2
  <2>2. cut + (question - covered - cut) = question - covered
    BY <1>1, <1>2
  <2>3. transcript'[question - covered - cut] = transcript[question - covered]
    BY <1>3, <2>1, <2>2
  <2>4. question' - covered' = question - covered - cut
    BY <1>1, <1>2, <1>4
  <2>5. QED BY <1>2, <2>3, <2>4
<1>9. ASSUME NEW i \in 1 .. Len(transcript'), i > question' - covered'
      PROVE  transcript'[i].kind # "prompt"
  <2>1. cut + i \in 1 .. Len(transcript) /\ cut + i > question - covered
    BY <1>1, <1>2, <1>3, <1>4, <1>9
  <2>2. QED BY <1>2, <1>3, <2>1
<1>10. QED BY <1>3, <1>5, <1>6, <1>7, <1>8, <1>9

(* The initial state satisfies the invariant.                              *)
LEMMA InitIInv == Init => IInv
<1> SUFFICES ASSUME Init PROVE IInv
  OBVIOUS
<1>1. TypeOK
  <2>1. << >> \in Seq(Turn) /\ << >> \in Seq(CallId)
    BY EmptySeq
  <2>2. /\ compacted \in BOOLEAN /\ stopped \in BOOLEAN
        /\ flag \in BOOLEAN /\ announced \in BOOLEAN
    BY Zenon DEF Init
  <2>3. /\ pc \in Places /\ round \in 0 .. MaxToolRounds
        /\ attempt \in 0 .. MaxStreamRetries
    BY DEF Init, Places
  <2>4. QED BY <2>1, <2>2, <2>3 DEF Init, TypeOK
<1>2. NothingForgotten /\ QuestionInv /\ LateInv /\ EventInv /\ ResultsInv
  BY EmptySeq DEF Init, NothingForgotten, QuestionInv, LateInv, EventInv,
     ResultsInv, Answering
<1>3. ShapeInv
  BY EmptySeq DEF Init, ShapeInv, Answering, WellShaped, ShapedUpTo
<1>4. QED BY <1>1, <1>2, <1>3 DEF IInv

(***************************************************************************)
(* Steps that leave the transcript alone.                                  *)
(***************************************************************************)
QuietStep ==
  \/ ReceivePrompt
  \/ SetupFails
  \/ WorkerReturns
  \/ BeginRound
  \/ Runaway
  \/ StreamCancelled
  \/ StreamBreaks
  \/ BackoffEnds
  \/ StreamFails
  \/ StreamTooLong
  \/ ShortenFails
  \/ CallSpawned
  \/ SettleQuietly
  \/ SettleFull
  \/ CondenseFails
  \/ Stop

(* They keep every part of the invariant.                                  *)
LEMMA QuietKeeps ==
  ASSUME IInv, QuietStep
  PROVE  IInv'
<1> USE DEF IInv, TypeOK, Places, NothingForgotten, ShapeInv, ResultsInv,
            QuestionInv, LateInv, EventInv, Answering, LastTurn,
            Emit, Return, FinishCancelled, worker, session, told, history
<1>1. CASE ReceivePrompt
  <2>1. TypeOK'
    <3>1. flag' \in BOOLEAN /\ announced' \in BOOLEAN
      BY <1>1, Zenon DEF ReceivePrompt
    <3>2. /\ pc' \in Places /\ asked' \in Nat /\ endings' \in Nat /\ late' \in Nat
      BY <1>1 DEF ReceivePrompt
    <3>3. QED BY <1>1, <3>1, <3>2 DEF ReceivePrompt
  <2>2. NothingForgotten' /\ ShapeInv' /\ ResultsInv'
    BY <1>1 DEF ReceivePrompt
  <2>3. QuestionInv'
    BY <1>1 DEF ReceivePrompt
  <2>4. LateInv' /\ EventInv'
    BY <1>1 DEF ReceivePrompt
  <2>5. QED BY <2>1, <2>2, <2>3, <2>4
<1>2. CASE SetupFails
  BY <1>2 DEF SetupFails
<1>3. CASE WorkerReturns
  BY <1>3 DEF WorkerReturns
<1>4. CASE BeginRound
  BY <1>4 DEF BeginRound
<1>5. CASE Runaway
  BY <1>5 DEF Runaway
<1>6. CASE StreamCancelled
  BY <1>6 DEF StreamCancelled
<1>7. CASE StreamBreaks
  BY <1>7 DEF StreamBreaks
<1>8. CASE BackoffEnds
  BY <1>8 DEF BackoffEnds
<1>9. CASE StreamFails
  BY <1>9 DEF StreamFails
<1>10. CASE StreamTooLong
  BY <1>10 DEF StreamTooLong
<1>11. CASE ShortenFails
  BY <1>11 DEF ShortenFails
<1>12. CASE CallSpawned
  BY <1>12 DEF CallSpawned
<1>13. CASE SettleQuietly
  BY <1>13 DEF SettleQuietly
<1>14. CASE SettleFull
  BY <1>14 DEF SettleFull
<1>15. CASE CondenseFails
  BY <1>15 DEF CondenseFails
<1>16. CASE Stop
  BY <1>16 DEF Stop
<1>17. QED
  BY <1>1, <1>2, <1>3, <1>4, <1>5, <1>6, <1>7, <1>8, <1>9, <1>10, <1>11, <1>12, <1>13, <1>14, <1>15, <1>16 DEF QuietStep

(***************************************************************************)
(* Steps that push a turn.                                                 *)
(***************************************************************************)

(* A push keeps the counts and the question, and moves the last turn.      *)
LEMMA PushKeeps ==
  ASSUME IInv, NEW turn \in Turn, Push(turn), UNCHANGED covered
  PROVE  /\ transcript' \in Seq(Turn)
         /\ transcript' # << >>
         /\ LastTurn' = turn
         /\ pushed' = pushed + 1 /\ pushed' \in Nat
         /\ pushed' = covered' + Len(transcript')
         /\ Len(transcript') = Len(transcript) + 1
         /\ \A i \in 1 .. Len(transcript) : transcript'[i] = transcript[i]
<1>1. /\ transcript \in Seq(Turn) /\ Len(transcript) \in Nat
      /\ pushed \in Nat /\ covered \in Nat
      /\ pushed = covered + Len(transcript)
  BY LenProperties DEF IInv, TypeOK, NothingForgotten
<1>2. /\ transcript' \in Seq(Turn)
      /\ transcript' # << >>
      /\ Len(transcript') = Len(transcript) + 1
      /\ \A i \in 1 .. Len(transcript) : transcript'[i] = transcript[i]
      /\ transcript'[Len(transcript) + 1] = turn
  BY <1>1, AppendProperties DEF Push
<1>3. QED
  BY <1>1, <1>2 DEF Push, LastTurn

(* Pushing anything but a prompt leaves the question where it is.          *)
LEMMA PushKeepsQuestion ==
  ASSUME IInv, pushed > 0, NEW turn \in Turn, turn.kind # "prompt",
         Push(turn), UNCHANGED <<covered, question>>
  PROVE  QuestionInv'
<1>1. /\ pushed' = pushed + 1
      /\ Len(transcript') = Len(transcript) + 1
      /\ \A i \in 1 .. Len(transcript) : transcript'[i] = transcript[i]
      /\ transcript'[Len(transcript) + 1] = turn
  BY PushKeeps DEF LastTurn
<1>2. /\ Len(transcript) \in Nat /\ pushed \in Nat
      /\ covered \in Nat /\ question \in Nat
      /\ pushed = covered + Len(transcript)
      /\ covered < question /\ question <= pushed
      /\ transcript[question - covered].kind = "prompt"
      /\ \A i \in 1 .. Len(transcript) :
            i > question - covered => transcript[i].kind # "prompt"
  BY LenProperties DEF IInv, TypeOK, NothingForgotten, QuestionInv
<1>3. /\ covered' < question' /\ question' <= pushed'
      /\ transcript'[question' - covered'].kind = "prompt"
  <2>1. question - covered \in 1 .. Len(transcript)
        /\ question' - covered' = question - covered
    BY <1>2
  <2>2. transcript'[question' - covered'] = transcript[question - covered]
    BY <1>1, <2>1
  <2>3. QED BY <1>1, <1>2, <2>2
<1>4. ASSUME NEW i \in 1 .. Len(transcript'), i > question' - covered'
      PROVE  transcript'[i].kind # "prompt"
  BY <1>1, <1>2, <1>4
<1>5. pushed' > 0
  BY <1>1, <1>2
<1>6. QED BY <1>3, <1>4, <1>5 DEF QuestionInv

LEMMA TurnStartsKeeps ==
  ASSUME IInv, TurnStarts
  PROVE  IInv'
<1> DEFINE prompt == UserText(IF answered THEN "plain" ELSE "excused")
<1>1. prompt \in Turn /\ prompt.kind = "prompt"
  BY TurnTypes DEF UserText
<1>2. Push(prompt) /\ UNCHANGED covered
  BY DEF TurnStarts
<1> HIDE DEF prompt
<1>3. /\ transcript' \in Seq(Turn)
      /\ transcript' # << >>
      /\ LastTurn' = prompt
      /\ pushed' = pushed + 1 /\ pushed' \in Nat
      /\ pushed' = covered' + Len(transcript')
      /\ Len(transcript') = Len(transcript) + 1
  BY <1>1, <1>2, PushKeeps
<1>4. TypeOK'
  <2>1. /\ round' \in 0 .. MaxToolRounds /\ pc' \in Places
        /\ question' \in Nat
    BY DEF TurnStarts, Places, IInv, TypeOK
  <2>2. compacted' \in BOOLEAN /\ announced' \in BOOLEAN /\ answered' \in BOOLEAN
    BY Zenon DEF TurnStarts
  <2>3. QED BY <1>3, <2>1, <2>2 DEF TurnStarts, IInv, TypeOK
<1>5. ShapeInv'
  <2>1. WellShaped(transcript)
    BY DEF IInv, ShapeInv, Answering, TurnStarts
  <2>2. WellShaped(transcript')
    <3>1. ~answered \/ transcript = << >> \/ transcript[Len(transcript)].kind = "message"
      BY DEF IInv, ShapeInv, LastTurn
    <3>2. transcript \in Seq(Turn) /\ transcript' = Append(transcript, prompt)
      BY <1>2 DEF IInv, TypeOK, Push
    <3>3. QED BY <2>1, <3>1, <3>2, PromptKeepsShape DEF prompt
  <2>3. ~answered'
    BY DEF TurnStarts
  <2>4. QED BY <1>1, <1>3, <2>2, <2>3 DEF ShapeInv, Answering, TurnStarts
<1>6. QuestionInv'
  <2>1. question' = pushed' /\ Len(transcript') = question' - covered'
    BY <1>3 DEF TurnStarts, IInv, TypeOK, NothingForgotten
  <2>2. transcript'[question' - covered'] = prompt
    BY <1>3, <2>1 DEF LastTurn
  <2>3. covered' < question' /\ Len(transcript') \in Nat /\ covered' \in Nat
    BY <1>3, <1>4, LenProperties, EmptySeq DEF TurnStarts, IInv, TypeOK
  <2>4. QED BY <1>1, <1>3, <2>1, <2>2, <2>3 DEF QuestionInv
<1>7. NothingForgotten' /\ ResultsInv' /\ LateInv' /\ EventInv'
  BY <1>3 DEF NothingForgotten, ResultsInv, LateInv, EventInv, Answering,
     TurnStarts, IInv
<1>8. QED BY <1>4, <1>5, <1>6, <1>7 DEF IInv

(* What the three ways a message can arrive have in common.                *)
LEMMA MessagePushed ==
  ASSUME IInv, pc = "streaming", NEW calls \in Seq(CallId), NEW mark \in {"plain", "excused"},
         Push(Assistant(calls, mark)), UNCHANGED <<covered, question>>
  PROVE  /\ transcript' \in Seq(Turn) /\ transcript' # << >>
         /\ LastTurn' = Assistant(calls, mark) /\ LastTurn'.kind = "message"
         /\ LastTurn'.calls = calls /\ LastTurn'.mark = mark
         /\ pushed' \in Nat /\ NothingForgotten'
         /\ ShapedUpTo(transcript', Len(transcript'))
         /\ calls = << >> \/ mark = "excused" => WellShaped(transcript')
         /\ QuestionInv'
<1>1. /\ Assistant(calls, mark) \in Turn
      /\ Assistant(calls, mark).kind = "message"
      /\ Assistant(calls, mark).calls = calls
      /\ Assistant(calls, mark).mark = mark
  BY TurnTypes DEF Assistant
<1>2. /\ transcript' \in Seq(Turn) /\ transcript' # << >>
      /\ LastTurn' = Assistant(calls, mark)
      /\ pushed' \in Nat /\ NothingForgotten'
      /\ Len(transcript') = Len(transcript) + 1
  BY <1>1, PushKeeps DEF NothingForgotten
<1>3. /\ WellShaped(transcript)
      /\ transcript # << >> /\ pushed > 0
      /\ transcript[Len(transcript)].kind # "message"
      /\ transcript \in Seq(Turn)
  BY DEF IInv, TypeOK, ShapeInv, QuestionInv, Answering, LastTurn
<1>4. /\ ShapedUpTo(transcript', Len(transcript'))
      /\ calls = << >> \/ mark = "excused" => WellShaped(transcript')
  BY <1>2, <1>3, MessageKeepsShape DEF Push
<1>5. QuestionInv'
  BY <1>1, <1>3, PushKeepsQuestion
<1>6. QED BY <1>1, <1>2, <1>4, <1>5

LEMMA StreamRefusedKeeps ==
  ASSUME IInv, NEW n \in 0 .. MaxCalls, StreamRefused(n)
  PROVE  IInv'
<1>1. NewCalls(n) \in Seq(CallId) /\ Len(NewCalls(n)) = n
  BY NewCallsType DEF IInv, TypeOK
<1>2. /\ pc = "streaming" /\ Push(Assistant(NewCalls(n), "excused"))
      /\ UNCHANGED <<covered, question>>
  BY DEF StreamRefused
<1>3. /\ transcript' \in Seq(Turn) /\ transcript' # << >>
      /\ LastTurn'.kind = "message"
      /\ pushed' \in Nat /\ NothingForgotten' /\ QuestionInv'
      /\ WellShaped(transcript')
  BY <1>1, <1>2, MessagePushed
<1>4. TypeOK'
  <2>1. answered' \in BOOLEAN
    BY Zenon DEF StreamRefused
  <2>2. QED BY <1>1, <1>3, <2>1
            DEF StreamRefused, Emit, Return, IInv, TypeOK, Places, EventInv
<1>5. ShapeInv' /\ ResultsInv' /\ LateInv' /\ EventInv'
  BY <1>3 DEF StreamRefused, Emit, Return, IInv, TypeOK, ShapeInv, ResultsInv,
     LateInv, EventInv, Answering
<1>6. QED BY <1>3, <1>4, <1>5 DEF IInv

LEMMA StreamAnswersKeeps ==
  ASSUME IInv, StreamAnswers
  PROVE  IInv'
<1>1. << >> \in Seq(CallId)
  BY EmptySeq
<1>2. /\ pc = "streaming" /\ Push(Assistant(<< >>, "plain"))
      /\ UNCHANGED <<covered, question>>
  BY DEF StreamAnswers
<1>3. /\ transcript' \in Seq(Turn) /\ transcript' # << >>
      /\ LastTurn'.kind = "message"
      /\ pushed' \in Nat /\ NothingForgotten' /\ QuestionInv'
      /\ WellShaped(transcript')
  BY <1>1, <1>2, MessagePushed
<1>4. TypeOK'
  <2>1. answered' \in BOOLEAN
    BY Zenon DEF StreamAnswers
  <2>2. QED BY <1>3, <2>1 DEF StreamAnswers, Emit, IInv, TypeOK, Places
<1>5. ShapeInv' /\ ResultsInv' /\ LateInv' /\ EventInv'
  BY <1>3 DEF StreamAnswers, Emit, IInv, TypeOK, ShapeInv, ResultsInv,
     LateInv, EventInv, Answering
<1>6. QED BY <1>3, <1>4, <1>5 DEF IInv

LEMMA StreamCallsKeeps ==
  ASSUME IInv, NEW n \in 0 .. MaxCalls, StreamCalls(n)
  PROVE  IInv'
<1>1. NewCalls(n) \in Seq(CallId) /\ Len(NewCalls(n)) = n
  BY NewCallsType DEF IInv, TypeOK
<1>2. /\ pc = "streaming" /\ Push(Assistant(NewCalls(n), "plain"))
      /\ UNCHANGED <<covered, question>>
  BY DEF StreamCalls
<1>3. /\ transcript' \in Seq(Turn) /\ transcript' # << >>
      /\ LastTurn'.kind = "message" /\ LastTurn'.calls = NewCalls(n)
      /\ LastTurn'.mark = "plain"
      /\ pushed' \in Nat /\ NothingForgotten' /\ QuestionInv'
      /\ ShapedUpTo(transcript', Len(transcript'))
  BY <1>1, <1>2, MessagePushed
<1>4. results' = << >> /\ results' \in Seq(CallId) /\ Len(results') = 0
  BY EmptySeq DEF StreamCalls
<1>5. TypeOK'
  <2>1. stopped' \in BOOLEAN
    BY Zenon DEF StreamCalls
  <2>2. QED BY <1>3, <1>4, <2>1 DEF StreamCalls, told, IInv, TypeOK, Places
<1>6. ShapeInv' /\ ResultsInv' /\ LateInv' /\ EventInv'
  BY <1>1, <1>3, <1>4 DEF StreamCalls, told, IInv, TypeOK, ShapeInv, ResultsInv,
     LateInv, EventInv, Answering
<1>7. QED BY <1>3, <1>5, <1>6 DEF IInv

(***************************************************************************)
(* The tool loop.                                                          *)
(***************************************************************************)

(* Answering the current call extends the results by its identifier.       *)
LEMMA AnswerKeeps ==
  ASSUME IInv, Answering, Len(results) < Len(LastTurn.calls), AnswerCall
  PROVE  /\ results' \in Seq(CallId)
         /\ Len(results') = Len(results) + 1
         /\ Len(results') <= Len(LastTurn.calls)
         /\ \A i \in 1 .. Len(results') : results'[i] = LastTurn.calls[i]
<1>1. LastTurn \in Turn
  BY LenProperties, EmptySeq, ElementOfSeq DEF LastTurn, IInv, TypeOK, ShapeInv
<1>2. /\ LastTurn.calls \in Seq(CallId) /\ Len(LastTurn.calls) \in Nat
      /\ results \in Seq(CallId) /\ Len(results) \in Nat
  BY <1>1, LenProperties DEF Turn, IInv, TypeOK
<1>3. CurrentCall \in CallId /\ CurrentCall = LastTurn.calls[Len(results) + 1]
  BY <1>2, ElementOfSeq DEF CurrentCall
<1>4. /\ results' \in Seq(CallId)
      /\ Len(results') = Len(results) + 1
      /\ \A i \in 1 .. Len(results) : results'[i] = results[i]
      /\ results'[Len(results) + 1] = CurrentCall
  BY <1>2, <1>3, AppendProperties DEF AnswerCall
<1>5. QED
  BY <1>2, <1>3, <1>4 DEF IInv, ResultsInv

LEMMA CallTakenKeeps ==
  ASSUME IInv, CallTaken
  PROVE  IInv'
<1>1. Answering /\ Len(results) < Len(LastTurn.calls)
  BY DEF CallTaken, Answering
<1>2. UNCHANGED <<transcript, covered, pushed, question, LastTurn>>
  BY DEF CallTaken, session, history, LastTurn
<1>3. CASE stopped \/ flag
  <2>1. /\ results' \in Seq(CallId)
        /\ Len(results') <= Len(LastTurn.calls)
        /\ \A i \in 1 .. Len(results') : results'[i] = LastTurn.calls[i]
    BY <1>1, <1>3, AnswerKeeps DEF CallTaken
  <2>2. stopped' = TRUE /\ pc' = pc
    BY <1>3 DEF CallTaken
  <2>3. TypeOK'
    <3>1. stopped' \in BOOLEAN
      BY <2>2, Zenon
    <3>2. QED BY <2>1, <2>2, <3>1 DEF CallTaken, session, told, history,
            IInv, TypeOK
  <2>4. ResultsInv'
    BY <1>2, <2>1, <2>2 DEF CallTaken, ResultsInv, Answering
  <2>5. NothingForgotten' /\ ShapeInv' /\ QuestionInv' /\ LateInv' /\ EventInv'
    BY <1>2, <2>2 DEF CallTaken, told, history, IInv, NothingForgotten,
       ShapeInv, QuestionInv, LateInv, EventInv, Answering
  <2>6. QED BY <2>3, <2>4, <2>5 DEF IInv
<1>4. CASE ~(stopped \/ flag)
  <2>1. pc' = "spawn" /\ UNCHANGED <<stopped, results>>
    BY <1>4 DEF CallTaken
  <2>2. TypeOK'
    BY <2>1 DEF CallTaken, session, told, history, IInv, TypeOK, Places
  <2>3. NothingForgotten' /\ ShapeInv' /\ ResultsInv' /\ QuestionInv' /\ EventInv'
    BY <1>1, <1>2, <2>1 DEF CallTaken, told, history, IInv, NothingForgotten, ShapeInv,
       ResultsInv, QuestionInv, EventInv, Answering
  <2>4. LateInv'
    BY <1>4, <2>1 DEF CallTaken, IInv, TypeOK, LateInv
  <2>5. QED BY <2>2, <2>3, <2>4 DEF IInv
<1>5. QED BY <1>3, <1>4

LEMMA CallEndsKeeps ==
  ASSUME IInv, CallEnds
  PROVE  IInv'
<1>1. Answering /\ Len(results) < Len(LastTurn.calls)
  BY DEF CallEnds, Answering, IInv, ResultsInv
<1>2. UNCHANGED <<transcript, covered, pushed, question, LastTurn>>
  BY DEF CallEnds, session, history, LastTurn
<1>3. /\ results' \in Seq(CallId)
      /\ Len(results') <= Len(LastTurn.calls)
      /\ \A i \in 1 .. Len(results') : results'[i] = LastTurn.calls[i]
  BY <1>1, AnswerKeeps DEF CallEnds
<1>4. TypeOK'
  BY <1>3 DEF CallEnds, session, told, history, IInv, TypeOK, Places
<1>5. ResultsInv'
  BY <1>2, <1>3 DEF CallEnds, ResultsInv, Answering
<1>6. NothingForgotten' /\ ShapeInv' /\ QuestionInv' /\ LateInv' /\ EventInv'
  BY <1>2 DEF CallEnds, told, history, IInv, NothingForgotten,
     ShapeInv, QuestionInv, LateInv, EventInv, Answering
<1>7. QED BY <1>4, <1>5, <1>6 DEF IInv

LEMMA CallsAnsweredKeeps ==
  ASSUME IInv, CallsAnswered
  PROVE  IInv'
<1>1. /\ pc = "calls" /\ Len(results) = Len(LastTurn.calls)
      /\ Push(ToolResults(results)) /\ UNCHANGED <<covered, question>>
  BY DEF CallsAnswered
<1>2. ToolResults(results) \in Turn /\ ToolResults(results).kind = "results"
  BY TurnTypes DEF ToolResults, IInv, TypeOK
<1>3. results = LastTurn.calls
  <2>1. LastTurn \in Turn
    BY <1>1, LenProperties, EmptySeq, ElementOfSeq
       DEF LastTurn, IInv, TypeOK, ShapeInv, Answering
  <2>2. LastTurn.calls \in Seq(CallId) /\ results \in Seq(CallId)
    BY <2>1 DEF Turn, IInv, TypeOK
  <2>3. \A i \in 1 .. Len(results) : results[i] = LastTurn.calls[i]
    BY <1>1 DEF IInv, ResultsInv, Answering
  <2>4. QED BY <1>1, <2>2, <2>3, SeqEqual
<1>4. /\ transcript' \in Seq(Turn) /\ transcript' # << >>
      /\ LastTurn' = ToolResults(results)
      /\ pushed' \in Nat /\ NothingForgotten'
  BY <1>1, <1>2, PushKeeps DEF NothingForgotten
<1>5. WellShaped(transcript')
  BY <1>1, <1>3, ResultsKeepShape
     DEF Push, LastTurn, IInv, TypeOK, ShapeInv, Answering
<1>6. QuestionInv'
  BY <1>1, <1>2, PushKeepsQuestion DEF IInv, QuestionInv
<1>7. results' \in Seq(CallId)
  BY EmptySeq DEF CallsAnswered
<1>8. TypeOK'
  BY <1>4, <1>7 DEF CallsAnswered, FinishCancelled, Emit, Return, IInv, TypeOK,
     Places
<1>9. ShapeInv' /\ ResultsInv' /\ LateInv' /\ EventInv'
  BY <1>1, <1>2, <1>4, <1>5 DEF CallsAnswered, FinishCancelled, Emit, Return, IInv,
     TypeOK, ShapeInv, ResultsInv, LateInv, EventInv, Answering
<1>10. QED BY <1>4, <1>6, <1>8, <1>9 DEF IInv

(***************************************************************************)
(* The two compactions.                                                    *)
(***************************************************************************)
LEMMA CompactionKeeps ==
  ASSUME IInv, Shortened \/ Condensed
  PROVE  IInv'
<1>1. /\ ~Answering /\ pushed > 0 /\ transcript # << >>
      /\ UNCHANGED <<pushed, question>>
  BY DEF Shortened, Condensed, history, Answering, IInv, ShapeInv, QuestionInv
<1>2. Len(transcript) > 0
  BY <1>1, EmptySeq, LenProperties DEF IInv, TypeOK
<1>3. PICK cut \in Cuts(transcript) : DropUpTo(cut)
  BY DEF Shortened, Condensed
<1>4. /\ transcript' \in Seq(Turn) /\ covered' \in Nat
      /\ transcript' # << >> /\ WellShaped(transcript')
      /\ LastTurn' = LastTurn
      /\ NothingForgotten' /\ QuestionInv'
  BY <1>1, <1>2, <1>3, DropKeeps DEF NothingForgotten, QuestionInv, IInv
<1>5. TypeOK'
  BY <1>4 DEF Shortened, Condensed, Return, told, history, IInv, TypeOK, Places
<1>6. ShapeInv' /\ ResultsInv' /\ LateInv' /\ EventInv'
  BY <1>4 DEF Shortened, Condensed, Return, told, history, IInv, ShapeInv,
     ResultsInv, LateInv, EventInv, Answering
<1>7. QED BY <1>4, <1>5, <1>6 DEF IInv

(***************************************************************************)
(* Every step keeps the invariant.                                         *)
(***************************************************************************)
LEMMA StepIInv ==
  ASSUME IInv, [Next]_vars
  PROVE  IInv'
<1>1. CASE QuietStep
  BY <1>1, QuietKeeps
<1>2. CASE TurnStarts
  BY <1>2, TurnStartsKeeps
<1>3. CASE \E n \in 0 .. MaxCalls : StreamRefused(n) \/ StreamCalls(n)
  BY <1>3, StreamRefusedKeeps, StreamCallsKeeps
<1>4. CASE StreamAnswers
  BY <1>4, StreamAnswersKeeps
<1>5. CASE CallTaken \/ CallEnds \/ CallsAnswered
  BY <1>5, CallTakenKeeps, CallEndsKeeps, CallsAnsweredKeeps
<1>6. CASE Shortened \/ Condensed
  BY <1>6, CompactionKeeps
<1>7. CASE UNCHANGED vars
  BY <1>7 DEF vars, worker, session, told, history, IInv, TypeOK,
     NothingForgotten, ShapeInv, ResultsInv, QuestionInv, LateInv, EventInv,
     Answering, LastTurn
<1>8. QED
  BY <1>1, <1>2, <1>3, <1>4, <1>5, <1>6, <1>7
     DEF Next, Turns, Rounds, Streams, Tools, Compactions, QuietStep

LEMMA Invariance == Spec => []IInv
<1>1. IInv /\ [Next]_vars => IInv'
  BY StepIInv
<1>2. QED
  BY InitIInv, <1>1, PTL DEF Spec

-----------------------------------------------------------------------------
(***************************************************************************)
(* The results.                                                            *)
(***************************************************************************)

(* The worker's variables stay within their types and bounds, whatever the *)
(* server, the tools and the user do.                                      *)
THEOREM TypeCorrect == Spec => []TypeOK
<1>1. IInv => TypeOK
  BY DEF IInv
<1>2. QED BY <1>1, Invariance, PTL

(* Every request run_turn_cancellable sends, and every retry of it, goes   *)
(* out in the shape of session.rs:115-117 but for the calls of a message   *)
(* the model declined and for a prompt after a turn without an answer.     *)
THEOREM RequestsAlwaysShaped == Spec => []RequestsAreShaped
<1>1. IInv => RequestsAreShaped
  BY DEF IInv, ShapeInv, Answering, RequestsAreShaped, RequestShape, Role, LastTurn
<1>2. QED BY <1>1, Invariance, PTL

(* Neither compaction drops the question being answered.                   *)
THEOREM QuestionAlwaysKept == Spec => []QuestionKept
<1>1. IInv => QuestionKept
  BY DEF IInv, QuestionInv, QuestionKept
<1>2. QED BY <1>1, Invariance, PTL

(* Every turn ever pushed is in the transcript or behind the summary.      *)
THEOREM NothingEverForgotten == Spec => []NothingForgotten
<1>1. IInv => NothingForgotten
  BY DEF IInv
<1>2. QED BY <1>1, Invariance, PTL

(* A stop lets at most the one tool start that was already past the check  *)
(* in the tool loop (edit_file's two commands are one tool).               *)
THEOREM NeverTwoLateTools == Spec => []AtMostOneLateTool
<1>1. IInv => AtMostOneLateTool
  BY DEF IInv, LateInv, AtMostOneLateTool
<1>2. QED BY <1>1, Invariance, PTL

(* Every step of the worker is a step of the contract or changes nothing   *)
(* the contract talks about.                                               *)
LEMMA StepContract ==
  ASSUME IInv, [Next]_vars
  PROVE  [Contract!Next]_(Contract!contractVars)
<1> USE DEF Phase, Contract!contractVars, IInv, EventInv, Answering, TypeOK, Places
<1>1. CASE ReceivePrompt
  <2>1. Contract!Accept
    BY <1>1 DEF ReceivePrompt, Contract!Accept
  <2>2. QED BY <2>1 DEF Contract!Next
<1>2. CASE SetupFails
  <2>1. Contract!Decline
    BY <1>2 DEF SetupFails, Emit, Contract!Decline
  <2>2. QED BY <2>1 DEF Contract!Next
<1>3. CASE TurnStarts
  <2>1. Contract!Announce
    BY <1>3 DEF TurnStarts, Contract!Announce
  <2>2. QED BY <2>1 DEF Contract!Next
<1>4. CASE WorkerReturns
  <2>1. CASE outcome = "error"
    <3>1. Contract!Conclude
      BY <1>4, <2>1 DEF WorkerReturns, Emit, Contract!Conclude
    <3>2. QED BY <3>1 DEF Contract!Next
  <2>2. CASE outcome # "error"
    <3>1. Contract!Close
      BY <1>4, <2>2 DEF WorkerReturns, Emit, Contract!Close
    <3>2. QED BY <3>1 DEF Contract!Next
  <2>3. QED BY <2>1, <2>2
<1>5. CASE BeginRound
  <2>1. CASE flag
    <3>1. Contract!Conclude
      BY <1>5, <2>1 DEF BeginRound, FinishCancelled, Emit, Return, Contract!Conclude
    <3>2. QED BY <3>1 DEF Contract!Next
  <2>2. CASE ~flag
    BY <1>5, <2>2 DEF BeginRound
  <2>3. QED BY <2>1, <2>2
<1>6. CASE StreamCancelled
  <2>1. Contract!Conclude
    BY <1>6 DEF StreamCancelled, FinishCancelled, Emit, Return, Contract!Conclude
  <2>2. QED BY <2>1 DEF Contract!Next
<1>7. CASE StreamAnswers
  <2>1. Contract!Conclude
    BY <1>7 DEF StreamAnswers, Emit, Contract!Conclude
  <2>2. QED BY <2>1 DEF Contract!Next
<1>8. CASE \E n \in 0 .. MaxCalls : StreamRefused(n)
  <2>1. Contract!Conclude
    BY <1>8 DEF StreamRefused, Emit, Return, Contract!Conclude
  <2>2. QED BY <2>1 DEF Contract!Next
<1>9. CASE CallsAnswered
  <2>1. CASE stopped
    <3>1. Contract!Conclude
      BY <1>9, <2>1 DEF CallsAnswered, FinishCancelled, Emit, Return, Contract!Conclude
    <3>2. QED BY <3>1 DEF Contract!Next
  <2>2. CASE ~stopped
    BY <1>9, <2>2 DEF CallsAnswered
  <2>3. QED BY <2>1, <2>2
<1>10. CASE Stop
  <2>1. Contract!AskStop
    BY <1>10 DEF Stop, worker, told, Contract!AskStop
  <2>2. QED BY <2>1 DEF Contract!Next
<1>11. CASE \/ Runaway \/ StreamBreaks \/ BackoffEnds \/ StreamFails
            \/ StreamTooLong \/ Shortened \/ ShortenFails
  BY <1>11 DEF Runaway, StreamBreaks, BackoffEnds, StreamFails, StreamTooLong,
     Shortened, ShortenFails, Return, told
<1>12. CASE \/ CallTaken \/ CallSpawned \/ CallEnds
            \/ \E n \in 0 .. MaxCalls : StreamCalls(n)
  BY <1>12 DEF CallTaken, CallSpawned, CallEnds, StreamCalls, told
<1>13. CASE SettleQuietly \/ SettleFull \/ Condensed \/ CondenseFails
  BY <1>13 DEF SettleQuietly, SettleFull, Condensed, CondenseFails, Return, told
<1>14. CASE UNCHANGED vars
  BY <1>14 DEF vars, worker, told
<1>15. QED
  BY <1>1, <1>2, <1>3, <1>4, <1>5, <1>6, <1>7, <1>8, <1>9, <1>10, <1>11,
     <1>12, <1>13, <1>14 DEF Next, Turns, Rounds, Streams, Tools, Compactions

(* The worker implements TurnContract: one announcement and one conclusion *)
(* for each prompt, in that order, and no stop lost in between.            *)
THEOREM ContractKept == Spec => KeepsContract
<1>1. Init => Contract!Init
  BY DEF Init, Contract!Init, Phase
<1>2. IInv /\ [Next]_vars => [Contract!Next]_(Contract!contractVars)
  BY StepContract
<1>3. QED
  BY <1>1, <1>2, Invariance, PTL DEF Spec, KeepsContract, Contract!Spec
-----------------------------------------------------------------------------
LEMMA LeastNatural ==
  ASSUME NEW T \in SUBSET Nat, T # {}
  PROVE  \E n \in T : \A m \in T : n <= m
<1>1. IsWellFoundedOn(OpToRel(<, Nat), Nat)
  BY NatLessThanWellFounded
<1>2. PICK n \in T : \A m \in T : ~ (<<m, n>> \in OpToRel(<, Nat))
  BY <1>1, WFMin, Zenon
<1>3. ASSUME NEW m \in T PROVE ~ (m < n)
  <2>1. m \in Nat /\ n \in Nat
    OBVIOUS
  <2>2. m < n => <<m, n>> \in OpToRel(<, Nat)
    BY <2>1, Zenon DEF OpToRel
  <2> QED BY <1>2, <2>2, Zenon
<1>4. \A m \in T : n <= m
  <2> HIDE <1>1, <1>2
  <2> SUFFICES ASSUME NEW m \in T PROVE n <= m
    OBVIOUS
  <2>1. ~ (m < n)
    BY <1>3
  <2>2. m \in Nat /\ n \in Nat
    OBVIOUS
  <2> QED BY <2>1, <2>2
<1> QED BY <1>4


-----------------------------------------------------------------------------
(***************************************************************************)
(* A turn runs out.  What EveryTurnConcludes adds to the following is that *)
(* steps are taken at all, which is a matter of fairness.                  *)
(***************************************************************************)
(* Steps of a round: its request and the retries, a tool call at a time.   *)
RoundTrip == 6 + 3 * MaxCalls + 2 * MaxStreamRetries

(* The most that the worker may still do from a place, given what it may   *)
(* do in later rounds, the calls not answered and the retries not made.    *)
StepsFrom(place, later, unanswered, retries) ==
  CASE place = "idle"      -> 0
    [] place = "returned"  -> 1
    [] place = "condense"  -> 2
    [] place = "settle"    -> 3
    [] place = "round"     -> later + 4
    [] place = "shorten"   -> later + 5
    [] place = "calls"     -> later + 5 + 3 * unanswered
    [] place = "spawn"     -> later + 4 + 3 * unanswered
    [] place = "running"   -> later + 3 + 3 * unanswered
    [] place = "streaming" -> later + 6 + 3 * MaxCalls + 2 * retries
    [] place = "backoff"   -> later + 7 + 3 * MaxCalls + 2 * retries
    [] OTHER               -> MaxToolRounds * RoundTrip + 5

StepsLeft ==
  StepsFrom(pc, (MaxToolRounds - round) * RoundTrip,
            Len(LastTurn.calls) - Len(results), MaxStreamRetries - attempt)

(* What the count rests on, for any server, also one whose declined        *)
(* messages hold calls.  A compaction that was begun has a place to cut.   *)
Counts ==
  /\ pc \in Places
  /\ transcript \in Seq(Turn) /\ results \in Seq(CallId) /\ issued \in Nat
  /\ round \in 0 .. MaxToolRounds /\ attempt \in 0 .. MaxStreamRetries
  /\ Answering => /\ transcript # << >>
                  /\ Len(results) <= Len(LastTurn.calls)
                  /\ pc # "calls" => Len(results) < Len(LastTurn.calls)
  /\ pc \in {"shorten", "condense"} => Cuts(transcript) # {}

LEMMA CountsTypes ==
  ASSUME Counts
  PROVE  /\ Len(transcript) \in Nat /\ Len(results) \in Nat
         /\ Answering => LastTurn \in Turn /\ LastTurn.calls \in Seq(CallId)
                         /\ Len(LastTurn.calls) \in Nat
<1>1. Len(transcript) \in Nat /\ Len(results) \in Nat
  BY LenProperties DEF Counts
<1>2. Answering => LastTurn \in Turn
  BY LenProperties, EmptySeq, ElementOfSeq DEF LastTurn, Counts
<1>3. LastTurn \in Turn => LastTurn.calls \in Seq(CallId) /\ Len(LastTurn.calls) \in Nat
  BY LenProperties DEF Turn
<1> QED BY <1>1, <1>2, <1>3

LEMMA InitCounts == Init => Counts
<1> SUFFICES ASSUME Init PROVE Counts
  OBVIOUS
<1>1. << >> \in Seq(Turn) /\ << >> \in Seq(CallId)
  BY EmptySeq
<1> QED BY <1>1, AgentTurnAssumption DEF Init, Counts, Places, Answering

(* A message that is pushed is the last turn; dropping a prefix leaves a   *)
(* transcript.                                                             *)
LEMMA Pushed ==
  ASSUME Counts, NEW turn \in Turn, transcript' = Append(transcript, turn)
  PROVE  transcript' \in Seq(Turn) /\ transcript' # << >> /\ LastTurn' = turn
<1>1. transcript \in Seq(Turn) /\ Len(transcript) \in Nat
  BY CountsTypes DEF Counts
<1>2. /\ transcript' \in Seq(Turn) /\ transcript' # << >>
      /\ Len(transcript') = Len(transcript) + 1
      /\ transcript'[Len(transcript) + 1] = turn
  BY <1>1, AppendProperties
<1> QED BY <1>2 DEF LastTurn

LEMMA Dropped ==
  ASSUME Counts, NEW cut \in Cuts(transcript), DropUpTo(cut)
  PROVE  transcript' \in Seq(Turn)
<1>1. transcript \in Seq(Turn) /\ Len(transcript) \in Nat
  BY CountsTypes DEF Counts
<1>2. cut \in 1 .. Len(transcript) - KeepRecent
  BY DEF Cuts
<1>3. cut + 1 \in 1 .. Len(transcript) + 1
  BY <1>1, <1>2, KeepRecentAssumption
<1> QED BY <1>1, <1>3, SubSeqProperties DEF DropUpTo, Compact

LEMMA CountsOn ==
  ASSUME Counts, [Next]_vars PROVE Counts'
<1>1. CASE QuietStep \/ UNCHANGED vars
  <2>1. UNCHANGED <<transcript, results, issued>> /\ LastTurn' = LastTurn
    BY <1>1 DEF QuietStep, ReceivePrompt, SetupFails, WorkerReturns, BeginRound, Runaway,
       StreamCancelled, StreamBreaks, BackoffEnds, StreamFails, StreamTooLong, ShortenFails,
       CallSpawned, SettleQuietly, SettleFull, CondenseFails, Stop, vars, worker, session,
       told, history, LastTurn
  <2>2. round' \in 0 .. MaxToolRounds /\ attempt' \in 0 .. MaxStreamRetries
    BY <1>1, AgentTurnAssumption
    DEF Counts, QuietStep, ReceivePrompt, SetupFails, WorkerReturns, BeginRound, Runaway,
       StreamCancelled, StreamBreaks, BackoffEnds, StreamFails, StreamTooLong, ShortenFails,
       CallSpawned, SettleQuietly, SettleFull, CondenseFails, Stop, vars, worker, FinishCancelled
  <2>3. /\ pc' \in Places
        /\ pc' \in {"shorten", "condense"} => Cuts(transcript) # {}
        /\ Answering' => Answering /\ (pc' # "calls" => pc # "calls")
    BY <1>1 DEF Counts, Places, Answering, Return, FinishCancelled, QuietStep, ReceivePrompt,
       SetupFails, WorkerReturns, BeginRound, Runaway, StreamCancelled, StreamBreaks,
       BackoffEnds, StreamFails, StreamTooLong, ShortenFails, CallSpawned, SettleQuietly,
       SettleFull, CondenseFails, Stop, vars, worker
  <2> QED BY <2>1, <2>2, <2>3 DEF Counts
<1>2. CASE TurnStarts
  <2>1. transcript' \in Seq(Turn)
    BY <1>2, Pushed, TurnTypes DEF TurnStarts, Push
  <2> QED BY <1>2, <2>1, AgentTurnAssumption DEF Counts, TurnStarts, Places, Answering
<1>3. CASE \E n \in 0 .. MaxCalls : StreamRefused(n)
  <2>1. PICK n \in 0 .. MaxCalls : StreamRefused(n)
    BY <1>3
  <2>2. NewCalls(n) \in Seq(CallId)
    BY NewCallsType DEF Counts
  <2>3. transcript' \in Seq(Turn)
    BY <2>1, <2>2, Pushed, TurnTypes DEF StreamRefused, Push
  <2> QED BY <2>1, <2>3 DEF Counts, StreamRefused, Return, Places, Answering
<1>4. CASE StreamAnswers
  <2>1. << >> \in Seq(CallId)
    BY EmptySeq
  <2>2. transcript' \in Seq(Turn)
    BY <1>4, <2>1, Pushed, TurnTypes DEF StreamAnswers, Push
  <2> QED BY <1>4, <2>2 DEF Counts, StreamAnswers, Places, Answering
<1>5. CASE \E n \in 0 .. MaxCalls : StreamCalls(n)
  <2>1. PICK n \in 0 .. MaxCalls : StreamCalls(n)
    BY <1>5
  <2>2. NewCalls(n) \in Seq(CallId) /\ Len(NewCalls(n)) = n
    BY NewCallsType DEF Counts
  <2>3. transcript' \in Seq(Turn) /\ transcript' # << >> /\ LastTurn' = Assistant(NewCalls(n), "plain")
    BY <2>1, <2>2, Pushed, TurnTypes DEF StreamCalls, Push
  <2>4. results' = << >> /\ results' \in Seq(CallId) /\ Len(results') = 0
    BY <2>1, EmptySeq DEF StreamCalls
  <2>5. LastTurn'.calls = NewCalls(n)
    BY <2>3 DEF Assistant
  <2> QED BY <2>1, <2>2, <2>3, <2>4, <2>5 DEF Counts, StreamCalls, Places, Answering
<1>6. CASE CallTaken \/ CallEnds
  <2>1. Answering /\ UNCHANGED transcript /\ LastTurn' = LastTurn
        /\ Len(results) < Len(LastTurn.calls) /\ UNCHANGED <<round, attempt, issued>>
    BY <1>6 DEF CallTaken, CallEnds, Answering, Counts, session, history, LastTurn
  <2>2. Len(results) \in Nat /\ Len(LastTurn.calls) \in Nat /\ LastTurn.calls \in Seq(CallId)
    BY <2>1, CountsTypes
  <2>3. AnswerCall => results' \in Seq(CallId) /\ Len(results') = Len(results) + 1
    <3>1. CurrentCall \in CallId
      BY <2>1, <2>2, ElementOfSeq DEF CurrentCall
    <3> QED BY <3>1, AppendProperties DEF AnswerCall, Counts
  <2>4. \/ AnswerCall /\ pc' = "calls"
        \/ pc' = "spawn" /\ UNCHANGED results
    BY <1>6 DEF CallTaken, CallEnds
  <2> QED BY <2>1, <2>2, <2>3, <2>4 DEF Counts, Places, Answering
<1>7. CASE CallsAnswered
  <2>1. transcript' \in Seq(Turn)
    BY <1>7, Pushed, TurnTypes DEF CallsAnswered, Push, Counts
  <2>2. results' \in Seq(CallId)
    BY <1>7, EmptySeq DEF CallsAnswered
  <2> QED BY <1>7, <2>1, <2>2 DEF Counts, CallsAnswered, FinishCancelled, Return, Places, Answering
<1>8. CASE Shortened \/ Condensed
  <2>1. transcript' \in Seq(Turn)
    BY <1>8, Dropped DEF Shortened, Condensed
  <2> QED BY <1>8, <2>1 DEF Counts, Shortened, Condensed, Return, history, Places, Answering
<1> QED BY <1>1, <1>2, <1>3, <1>4, <1>5, <1>6, <1>7, <1>8
        DEF Next, Turns, Rounds, Streams, Tools, Compactions, QuietStep

LEMMA StepsFromPlaces ==
  ASSUME NEW later, NEW unanswered, NEW retries
  PROVE  /\ StepsFrom("idle", later, unanswered, retries) = 0
         /\ StepsFrom("returned", later, unanswered, retries) = 1
         /\ StepsFrom("condense", later, unanswered, retries) = 2
         /\ StepsFrom("settle", later, unanswered, retries) = 3
         /\ StepsFrom("round", later, unanswered, retries) = later + 4
         /\ StepsFrom("shorten", later, unanswered, retries) = later + 5
         /\ StepsFrom("calls", later, unanswered, retries) = later + 5 + 3 * unanswered
         /\ StepsFrom("spawn", later, unanswered, retries) = later + 4 + 3 * unanswered
         /\ StepsFrom("running", later, unanswered, retries) = later + 3 + 3 * unanswered
         /\ StepsFrom("streaming", later, unanswered, retries)
              = later + 6 + 3 * MaxCalls + 2 * retries
         /\ StepsFrom("backoff", later, unanswered, retries)
              = later + 7 + 3 * MaxCalls + 2 * retries
         /\ StepsFrom("setup", later, unanswered, retries) = MaxToolRounds * RoundTrip + 5
BY DEF StepsFrom

(* The rounds that may follow the one being worked on.                     *)
Later == (MaxToolRounds - round) * RoundTrip

LEMMA LaterIsLess ==
  ASSUME Counts
  PROVE  /\ RoundTrip \in Nat /\ Later \in Nat
         /\ Later <= MaxToolRounds * RoundTrip /\ MaxToolRounds * RoundTrip \in Nat
         /\ round < MaxToolRounds /\ round' = round + 1 =>
              Later' \in Nat /\ Later = Later' + RoundTrip
         /\ round' = round => Later' = Later
         /\ round' = 0 => Later' = MaxToolRounds * RoundTrip
<1>1. RoundTrip \in Nat
  BY AgentTurnAssumption DEF RoundTrip
<1>2. MaxToolRounds \in Nat /\ round \in Nat /\ round <= MaxToolRounds
  BY AgentTurnAssumption DEF Counts
<1>3. ASSUME NEW a \in Nat, NEW b \in Nat, NEW w \in Nat, a <= b
      PROVE  /\ (b - a) * w \in Nat /\ (b - a) * w <= b * w /\ b * w \in Nat
             /\ a < b => /\ (b - (a + 1)) * w \in Nat
                         /\ (b - a) * w = (b - (a + 1)) * w + w
  <2>1. \A x, y \in Nat : x * y \in Nat
    OBVIOUS
  <2>2. \A x, y, z \in Nat : (x + y) * z = x * z + y * z
    OBVIOUS
  <2>3. PICK c \in Nat : b = c + a /\ b - a = c
    <3>1. b - a \in Nat /\ b = (b - a) + a
      BY <1>3
    <3> QED BY <3>1
  <2>4. b * w = c * w + a * w /\ c * w \in Nat /\ a * w \in Nat
    BY <2>1, <2>2, <2>3
  <2>5. ASSUME a < b
        PROVE  /\ (b - (a + 1)) * w \in Nat
               /\ (b - a) * w = (b - (a + 1)) * w + w
    <3>1. PICK d \in Nat : c = d + 1 /\ b - (a + 1) = d
      <4>1. c - 1 \in Nat /\ c = (c - 1) + 1 /\ b - (a + 1) = c - 1
        BY <2>3, <2>5
      <4> QED BY <4>1
    <3>2. c * w = d * w + 1 * w /\ d * w \in Nat /\ 1 * w = w
      BY <2>1, <2>2, <3>1
    <3> QED BY <2>3, <3>1, <3>2
  <2> HIDE <2>1, <2>2
  <2> QED BY <2>1, <2>3, <2>4, <2>5
<1>4. RoundTrip' = RoundTrip
  BY DEF RoundTrip
<1>5. Later \in Nat /\ Later <= MaxToolRounds * RoundTrip /\ MaxToolRounds * RoundTrip \in Nat
  BY <1>1, <1>2, <1>3 DEF Later
<1>6. ASSUME round < MaxToolRounds, round' = round + 1
      PROVE  Later' \in Nat /\ Later = Later' + RoundTrip
  <2>1. Later' = (MaxToolRounds - (round + 1)) * RoundTrip
    BY <1>4, <1>6 DEF Later
  <2> QED BY <1>1, <1>2, <1>3, <1>6, <2>1 DEF Later
<1>7. round' = round => Later' = Later
  BY <1>4 DEF Later
<1>8. round' = 0 => Later' = MaxToolRounds * RoundTrip
  <2>1. MaxToolRounds - 0 = MaxToolRounds
    BY <1>2
  <2> QED BY <1>4, <2>1 DEF Later
<1> QED BY <1>1, <1>5, <1>6, <1>7, <1>8

LEMMA StepsLeftCounts ==
  ASSUME Counts
  PROVE  StepsLeft \in Nat /\ (StepsLeft = 0 <=> pc = "idle")
<1>1. /\ RoundTrip \in Nat /\ Later \in Nat
      /\ Later <= MaxToolRounds * RoundTrip /\ MaxToolRounds * RoundTrip \in Nat
  BY LaterIsLess
<1>2. StepsLeft = StepsFrom(pc, Later, Len(LastTurn.calls) - Len(results),
                            MaxStreamRetries - attempt)
  BY DEF StepsLeft, Later
<1>3. /\ MaxStreamRetries - attempt \in Nat /\ MaxCalls \in Nat
      /\ pc \in Places
      /\ Answering => Len(LastTurn.calls) - Len(results) \in Nat
  <2>1. Answering => Len(LastTurn.calls) \in Nat /\ Len(results) \in Nat
    BY CountsTypes
  <2> QED BY <2>1, AgentTurnAssumption DEF Counts
<1> DEFINE unanswered == Len(LastTurn.calls) - Len(results)
           retries    == MaxStreamRetries - attempt
<1>4. StepsLeft = StepsFrom(pc, Later, unanswered, retries)
  BY <1>2
<1>5. Answering => unanswered \in Nat
  BY <1>3
<1>6. retries \in Nat
  BY <1>3
<1> HIDE DEF unanswered, retries
<1>7. CASE Answering
  <2>1. StepsLeft \in {Later + 5 + 3 * unanswered, Later + 4 + 3 * unanswered,
                       Later + 3 + 3 * unanswered}
    BY <1>4, <1>7, StepsFromPlaces DEF Answering
  <2> QED BY <1>1, <1>5, <1>7, <2>1 DEF Answering
<1>8. CASE pc = "idle"
  BY <1>4, <1>8, StepsFromPlaces
<1>9. CASE ~Answering /\ pc # "idle"
  <2>1. StepsLeft \in {1, 2, 3, Later + 4, Later + 5, Later + 6 + 3 * MaxCalls + 2 * retries,
                       Later + 7 + 3 * MaxCalls + 2 * retries, MaxToolRounds * RoundTrip + 5}
    BY <1>3, <1>4, <1>9, StepsFromPlaces DEF Answering, Places
  <2> QED BY <1>1, <1>3, <1>6, <1>9, <2>1
<1> QED BY <1>7, <1>8, <1>9

(* Each step of the worker leaves fewer; a prompt taken sets the count; a  *)
(* stop does not touch it.                                                 *)
LEMMA FewerLeft ==
  ASSUME Counts, [Next]_vars
  PROVE  \/ ReceivePrompt /\ StepsLeft' = MaxToolRounds * RoundTrip + 5
         \/ StepsLeft' = StepsLeft /\ (Stop \/ UNCHANGED vars)
         \/ StepsLeft' < StepsLeft
<1> DEFINE unanswered == Len(LastTurn.calls) - Len(results)
           retries    == MaxStreamRetries - attempt
<1>1. /\ RoundTrip \in Nat /\ Later \in Nat
      /\ Later <= MaxToolRounds * RoundTrip /\ MaxToolRounds * RoundTrip \in Nat
      /\ round < MaxToolRounds /\ round' = round + 1 =>
           Later' \in Nat /\ Later = Later' + RoundTrip
      /\ round' = round => Later' = Later
      /\ round' = 0 => Later' = MaxToolRounds * RoundTrip
  BY LaterIsLess
<1>2. StepsLeft = StepsFrom(pc, Later, unanswered, retries)
  BY DEF StepsLeft, Later
<1>3. StepsLeft' = StepsFrom(pc', Later', unanswered', retries')
  BY DEF StepsLeft, Later, StepsFrom, RoundTrip
<1>4. retries \in Nat /\ MaxCalls \in Nat /\ MaxStreamRetries \in Nat
  BY AgentTurnAssumption DEF Counts
<1>5. Answering => unanswered \in Nat /\ Len(LastTurn.calls) \in Nat /\ Len(results) \in Nat
  BY CountsTypes DEF Counts
<1>6. UNCHANGED attempt => retries' = retries
  OBVIOUS
<1>7. UNCHANGED <<transcript, results>> => unanswered' = unanswered
  BY DEF LastTurn
<1> HIDE DEF unanswered, retries
<1>8. /\ StepsFrom("idle", Later', unanswered', retries') = 0
      /\ StepsFrom("returned", Later', unanswered', retries') = 1
      /\ StepsFrom("condense", Later', unanswered', retries') = 2
      /\ StepsFrom("settle", Later', unanswered', retries') = 3
      /\ StepsFrom("round", Later', unanswered', retries') = Later' + 4
      /\ StepsFrom("shorten", Later', unanswered', retries') = Later' + 5
      /\ StepsFrom("calls", Later', unanswered', retries') = Later' + 5 + 3 * unanswered'
      /\ StepsFrom("spawn", Later', unanswered', retries') = Later' + 4 + 3 * unanswered'
      /\ StepsFrom("running", Later', unanswered', retries') = Later' + 3 + 3 * unanswered'
      /\ StepsFrom("streaming", Later', unanswered', retries')
           = Later' + 6 + 3 * MaxCalls + 2 * retries'
      /\ StepsFrom("backoff", Later', unanswered', retries')
           = Later' + 7 + 3 * MaxCalls + 2 * retries'
      /\ StepsFrom("setup", Later', unanswered', retries') = MaxToolRounds * RoundTrip + 5
  BY StepsFromPlaces
<1>9. /\ StepsFrom("idle", Later, unanswered, retries) = 0
      /\ StepsFrom("returned", Later, unanswered, retries) = 1
      /\ StepsFrom("condense", Later, unanswered, retries) = 2
      /\ StepsFrom("settle", Later, unanswered, retries) = 3
      /\ StepsFrom("round", Later, unanswered, retries) = Later + 4
      /\ StepsFrom("shorten", Later, unanswered, retries) = Later + 5
      /\ StepsFrom("calls", Later, unanswered, retries) = Later + 5 + 3 * unanswered
      /\ StepsFrom("spawn", Later, unanswered, retries) = Later + 4 + 3 * unanswered
      /\ StepsFrom("running", Later, unanswered, retries) = Later + 3 + 3 * unanswered
      /\ StepsFrom("streaming", Later, unanswered, retries)
           = Later + 6 + 3 * MaxCalls + 2 * retries
      /\ StepsFrom("backoff", Later, unanswered, retries)
           = Later + 7 + 3 * MaxCalls + 2 * retries
      /\ StepsFrom("setup", Later, unanswered, retries) = MaxToolRounds * RoundTrip + 5
  BY StepsFromPlaces
<1> USE <1>1, <1>2, <1>3, <1>4, <1>8, <1>9
<1>10. CASE ReceivePrompt
  BY <1>10 DEF ReceivePrompt
<1>11. CASE SetupFails \/ WorkerReturns \/ Runaway \/ StreamFails \/ ShortenFails \/ CondenseFails
  BY <1>11 DEF SetupFails, WorkerReturns, Runaway, StreamFails, ShortenFails, CondenseFails, Return
<1>12. CASE TurnStarts
  BY <1>12 DEF TurnStarts
<1>13. CASE BeginRound
  <2>1. Later = Later' + RoundTrip /\ Later' \in Nat
    BY <1>13 DEF BeginRound, Counts
  <2>2. flag => StepsLeft' = 1
    BY <1>13 DEF BeginRound, FinishCancelled, Return
  <2>3. ~flag => retries' = MaxStreamRetries /\ StepsLeft' = Later' + RoundTrip
    BY <1>13 DEF BeginRound, retries, RoundTrip
  <2>4. StepsLeft = Later + 4
    BY <1>13 DEF BeginRound
  <2>5. RoundTrip \in Nat
    OBVIOUS
  <2> HIDE <1>1, <1>2, <1>3, <1>4, <1>8, <1>9
  <2>6. StepsLeft' < StepsLeft
    BY <2>1, <2>2, <2>3, <2>4, <2>5
  <2> QED BY <2>6, Zenon
<1>14. CASE StreamCancelled \/ StreamBreaks \/ BackoffEnds \/ StreamTooLong \/ StreamAnswers
            \/ \E n \in 0 .. MaxCalls : StreamRefused(n)
  <2>1. Later' = Later
    BY <1>14 DEF StreamCancelled, StreamBreaks, BackoffEnds, StreamTooLong, StreamAnswers,
       StreamRefused
  <2>2. CASE StreamCancelled \/ StreamTooLong \/ StreamAnswers
             \/ \E n \in 0 .. MaxCalls : StreamRefused(n)
    BY <2>1, <2>2 DEF StreamCancelled, StreamTooLong, StreamAnswers, StreamRefused,
       FinishCancelled, Return
  <2>3. CASE StreamBreaks
    <3>1. CASE attempt < MaxStreamRetries
      <4>1. retries' = retries - 1 /\ pc' = "backoff" /\ pc = "streaming"
        BY <2>3, <3>1 DEF StreamBreaks, retries, Counts
      <4> QED BY <2>1, <4>1
    <3>2. CASE ~ (attempt < MaxStreamRetries)
      BY <2>3, <3>2 DEF StreamBreaks, Return
    <3> QED BY <3>1, <3>2
  <2>4. CASE BackoffEnds
    <3>1. retries' = retries
      BY <1>6, <2>4 DEF BackoffEnds
    <3> QED BY <2>1, <2>4, <3>1 DEF BackoffEnds
  <2> QED BY <1>14, <2>2, <2>3, <2>4
<1>15. CASE \E n \in 0 .. MaxCalls : StreamCalls(n)
  <2>1. PICK n \in 0 .. MaxCalls : StreamCalls(n)
    BY <1>15
  <2>2. NewCalls(n) \in Seq(CallId) /\ Len(NewCalls(n)) = n
    <3> HIDE <1>1, <1>2, <1>3, <1>4, <1>8, <1>9
    <3>1. n \in Nat /\ issued \in Nat
      BY AgentTurnAssumption DEF Counts
    <3> QED BY <3>1, NewCallsType
  <2>3. LastTurn' = Assistant(NewCalls(n), "plain")
    BY <2>1, <2>2, Pushed, TurnTypes DEF StreamCalls, Push
  <2>4. Len(results') = 0 /\ LastTurn'.calls = NewCalls(n)
    BY <2>1, <2>3, EmptySeq DEF StreamCalls, Assistant
  <2>5. unanswered' = n
    BY <2>2, <2>4 DEF unanswered
  <2>6. Later' = Later /\ pc = "streaming" /\ pc' = "calls"
    BY <2>1 DEF StreamCalls
  <2> QED BY <2>5, <2>6
<1>16. CASE CallTaken \/ CallEnds
  <2>1. Answering /\ UNCHANGED transcript /\ LastTurn' = LastTurn /\ Later' = Later
        /\ Len(results) < Len(LastTurn.calls)
    BY <1>16 DEF CallTaken, CallEnds, Answering, Counts, session, LastTurn
  <2>2. Len(results) \in Nat /\ Len(LastTurn.calls) \in Nat /\ LastTurn.calls \in Seq(CallId)
    BY <2>1, CountsTypes
  <2>3. AnswerCall => unanswered' = unanswered - 1
    <3>1. CurrentCall \in CallId
      BY <2>1, <2>2, ElementOfSeq DEF CurrentCall
    <3>2. AnswerCall => Len(results') = Len(results) + 1
      BY <3>1, AppendProperties DEF AnswerCall, Counts
    <3> HIDE <1>1, <1>2, <1>3, <1>4, <1>8, <1>9
    <3> QED BY <2>1, <2>2, <3>2 DEF unanswered
  <2>4. \/ AnswerCall /\ pc' = "calls" /\ pc \in {"calls", "running"}
        \/ pc' = "spawn" /\ pc = "calls" /\ UNCHANGED results
    BY <1>16 DEF CallTaken, CallEnds
  <2>5. unanswered \in Nat
    BY <1>5, <2>1
  <2>6. CASE AnswerCall /\ pc' = "calls" /\ pc \in {"calls", "running"}
    BY <2>1, <2>3, <2>5, <2>6
  <2>7. CASE pc' = "spawn" /\ pc = "calls" /\ UNCHANGED results
    <3>1. unanswered' = unanswered
      BY <1>7, <2>1, <2>7
    <3> QED BY <2>1, <2>5, <2>7, <3>1
  <2> QED BY <2>4, <2>6, <2>7
<1>17. CASE CallSpawned
  <2>1. unanswered' = unanswered /\ Later' = Later /\ unanswered \in Nat
    BY <1>5, <1>7, <1>17 DEF CallSpawned, session, Answering
  <2> QED BY <1>17, <2>1 DEF CallSpawned
<1>18. CASE CallsAnswered
  <2>1. Later' = Later /\ unanswered \in Nat /\ pc = "calls" /\ pc' \in {"round", "returned"}
    BY <1>5, <1>18 DEF CallsAnswered, Answering, FinishCancelled, Return
  <2> QED BY <2>1
<1>19. CASE Shortened \/ SettleQuietly \/ SettleFull \/ Condensed
  BY <1>19 DEF Shortened, SettleQuietly, SettleFull, Condensed, Return
<1>20. CASE Stop \/ UNCHANGED vars
  <2>1. Later' = Later /\ unanswered' = unanswered /\ retries' = retries /\ pc' = pc
    BY <1>6, <1>7, <1>20 DEF Stop, vars, worker, session
  <2> QED BY <1>20, <2>1
<1> QED BY <1>10, <1>11, <1>12, <1>13, <1>14, <1>15, <1>16, <1>17, <1>18, <1>19, <1>20
        DEF Next, Turns, Rounds, Streams, Tools, Compactions

(* A compaction that was begun finds the latest place it may cut: neither  *)
(* of the two is ever stuck without one (session.rs's compaction_cut).     *)
LEMMA LatestCut ==
  ASSUME NEW t \in Seq(Turn), Cuts(t) # {}
  PROVE  \E cut \in Cuts(t) : CompactionCut(t, cut)
<1> DEFINE fromTheEnd == {n \in Nat : Len(t) - n \in Cuts(t)}
<1>1. Len(t) \in Nat /\ Cuts(t) \subseteq 1 .. Len(t) - KeepRecent
  BY LenProperties DEF Cuts
<1>2. fromTheEnd \in SUBSET Nat /\ fromTheEnd # {}
  <2>1. PICK i \in Cuts(t) : TRUE
    OBVIOUS
  <2>2. Len(t) - i \in Nat /\ Len(t) - (Len(t) - i) = i
    BY <1>1, <2>1, KeepRecentAssumption
  <2> QED BY <2>1, <2>2
<1>3. PICK n \in fromTheEnd : \A m \in fromTheEnd : n <= m
  <2> HIDE DEF fromTheEnd
  <2> QED BY <1>2, LeastNatural
<1>4. Len(t) - n \in Cuts(t)
  OBVIOUS
<1>5. ASSUME NEW other \in Cuts(t) PROVE other <= Len(t) - n
  <2>1. Len(t) - other \in Nat /\ Len(t) - (Len(t) - other) = other
    BY <1>1, KeepRecentAssumption
  <2>2. n <= Len(t) - other
    BY <1>3, <2>1
  <2> QED BY <1>1, <2>1, <2>2, KeepRecentAssumption
<1> QED BY <1>4, <1>5 DEF CompactionCut

(* From the prompt taken a turn is at most MaxToolRounds round trips and   *)
(* five steps long, whatever is retried, refused, compacted and stopped,   *)
(* and the worker is idle exactly when none is left (lib.rs:139-345,       *)
(* worker.rs): of EveryTurnConcludes all but that a step is taken.         *)
THEOREM TurnsRunOut ==
  Spec => /\ [](StepsLeft \in Nat /\ (StepsLeft = 0 <=> pc = "idle"))
          /\ [][\/ ReceivePrompt /\ StepsLeft' = MaxToolRounds * RoundTrip + 5
                \/ Stop /\ StepsLeft' = StepsLeft
                \/ StepsLeft' < StepsLeft]_vars
<1>1. Counts => StepsLeft \in Nat /\ (StepsLeft = 0 <=> pc = "idle")
  BY StepsLeftCounts
<1>2. Counts /\ [Next]_vars => Counts'
  BY CountsOn
<1>3. Counts /\ [Next]_vars =>
        [\/ ReceivePrompt /\ StepsLeft' = MaxToolRounds * RoundTrip + 5
         \/ Stop /\ StepsLeft' = StepsLeft
         \/ StepsLeft' < StepsLeft]_vars
  BY FewerLeft
<1> QED BY <1>1, <1>2, <1>3, InitCounts, PTL DEF Spec

(* A compaction, inside a turn or after it, that was begun has a latest    *)
(* place to cut, so that the request it waits for can be answered.         *)
THEOREM CompactionsFindACut ==
  Spec => [](pc \in {"shorten", "condense"} =>
               \E cut \in Cuts(transcript) : CompactionCut(transcript, cut))
<1>1. Counts => (pc \in {"shorten", "condense"} =>
                   \E cut \in Cuts(transcript) : CompactionCut(transcript, cut))
  BY LatestCut DEF Counts
<1>2. Counts /\ [Next]_vars => Counts'
  BY CountsOn
<1> QED BY <1>1, <1>2, InitCounts, PTL DEF Spec

-----------------------------------------------------------------------------
(***************************************************************************)
(* A stop is heard.  Of StopIsHeard, too, only fairness is left.           *)
(***************************************************************************)
(* The most that the worker may still do before the turn is concluded once *)
(* the stop is pressed: whatever rounds and retries there would have been. *)
AfterStop ==
  CASE pc \in {"streaming", "returned"} -> 1
    [] pc \in {"round", "backoff"}      -> 2
    [] pc = "shorten"                   -> 3
    [] pc \in {"calls", "running"}      -> 3 + (Len(LastTurn.calls) - Len(results))
    [] pc = "spawn"                     -> 4 + (Len(LastTurn.calls) - Len(results))
    [] OTHER                            -> 0

(* What the worker does next waits for no message of the server: only a    *)
(* summary that was asked for before the stop is waited for, and may fail. *)
WorkerOpen ==
  \/ pc \in {"round", "streaming", "backoff", "spawn", "running", "returned"}
  \/ pc = "calls" /\ Len(results) <= Len(LastTurn.calls)
  \/ pc = "shorten" /\ \E cut \in Cuts(transcript) : CompactionCut(transcript, cut)

StopIsDue == TurnOpen /\ flag => AfterStop \in Nat \ {0} /\ WorkerOpen

StopComesNearer == TurnOpen /\ flag => ~TurnOpen' \/ (flag' /\ AfterStop' < AfterStop)

(* Between two turns none is open.                                         *)
IdleIsClosed == pc = "idle" => ~TurnOpen

LEMMA IdleStep ==
  ASSUME IInv, IdleIsClosed, [Next]_vars
  PROVE  IdleIsClosed'
<1> USE DEF IdleIsClosed, TurnOpen, Emit, Return
<1>1. CASE SetupFails
  BY <1>1 DEF SetupFails, IInv, EventInv
<1>2. CASE WorkerReturns
  BY <1>2 DEF WorkerReturns, IInv, EventInv
<1>3. CASE Stop \/ UNCHANGED vars
  BY <1>3 DEF Stop, vars, worker, told
<1>4. CASE Rounds \/ Streams \/ Tools \/ Compactions \/ TurnStarts \/ ReceivePrompt
  <2>1. pc' # "idle"
    <3>1. CASE TurnStarts \/ ReceivePrompt \/ Rounds
      BY <3>1 DEF TurnStarts, ReceivePrompt, Rounds, BeginRound, Runaway, FinishCancelled
    <3>2. CASE Streams
      BY <3>2 DEF Streams, StreamCancelled, StreamBreaks, BackoffEnds, StreamFails, StreamTooLong,
         StreamAnswers, StreamRefused, StreamCalls, FinishCancelled
    <3>3. CASE Tools
      BY <3>3 DEF Tools, CallTaken, CallSpawned, CallEnds, CallsAnswered, FinishCancelled
    <3>4. CASE Compactions
      BY <3>4 DEF Compactions, Shortened, ShortenFails, SettleQuietly, SettleFull, Condensed,
         CondenseFails
    <3> QED BY <1>4, <3>1, <3>2, <3>3, <3>4
  <2> QED BY <2>1
<1> QED BY <1>1, <1>2, <1>3, <1>4 DEF Next, Turns

LEMMA OpenPlaces ==
  ASSUME IInv, IdleIsClosed, TurnOpen
  PROVE  pc \in {"round", "streaming", "backoff", "shorten", "calls", "spawn", "running",
                 "returned"}
<1>1. pc \in Places /\ (pc = "setup" => ~announced)
  BY DEF IInv, TypeOK, EventInv
<1>2. pc \in {"settle", "condense"} => endings = 1
  BY DEF IInv, EventInv
<1>3. pc # "idle"
  BY DEF IdleIsClosed
<1> QED BY <1>1, <1>2, <1>3 DEF TurnOpen, Places

LEMMA StopDue ==
  ASSUME IInv, IdleIsClosed, Counts
  PROVE  StopIsDue
<1> SUFFICES ASSUME TurnOpen, flag PROVE AfterStop \in Nat \ {0} /\ WorkerOpen
  BY DEF StopIsDue
<1>1. pc \in {"round", "streaming", "backoff", "shorten", "calls", "spawn", "running", "returned"}
  BY OpenPlaces
<1>2. CASE pc \in {"round", "streaming", "backoff", "returned"}
  BY <1>2 DEF AfterStop, WorkerOpen
<1>3. CASE pc = "shorten"
  <2>1. \E cut \in Cuts(transcript) : CompactionCut(transcript, cut)
    BY <1>3, LatestCut DEF Counts
  <2> QED BY <1>3, <2>1 DEF AfterStop, WorkerOpen
<1>4. CASE Answering
  <2>1. Len(LastTurn.calls) \in Nat /\ Len(results) \in Nat /\ Len(results) <= Len(LastTurn.calls)
    BY <1>4, CountsTypes DEF Counts
  <2> QED BY <1>4, <2>1 DEF Answering, AfterStop, WorkerOpen
<1> QED BY <1>1, <1>2, <1>3, <1>4 DEF Answering

LEMMA StopNearer ==
  ASSUME IInv, IdleIsClosed, Counts, [Next]_vars
  PROVE  [StopComesNearer]_vars
<1> SUFFICES ASSUME TurnOpen, flag, TurnOpen', Next
             PROVE  (flag' /\ AfterStop' < AfterStop) \/ UNCHANGED vars
  BY DEF StopComesNearer
<1>1. pc \in {"round", "streaming", "backoff", "shorten", "calls", "spawn", "running", "returned"}
  BY OpenPlaces
<1>2. CASE Turns
  <2>1. ~ReceivePrompt /\ ~SetupFails /\ ~TurnStarts
    BY <1>1 DEF ReceivePrompt, SetupFails, TurnStarts
  <2>2. CASE WorkerReturns
    BY <2>2 DEF WorkerReturns, Emit, TurnOpen, IInv, EventInv
  <2> QED BY <1>2, <2>1, <2>2 DEF Turns
<1>3. CASE Rounds
  <2>1. ~BeginRound
    BY DEF BeginRound, FinishCancelled, Emit, TurnOpen
  <2>2. CASE Runaway
    BY <2>2 DEF Runaway, Return, AfterStop
  <2> QED BY <1>3, <2>1, <2>2 DEF Rounds
<1>4. CASE Streams
  <2>1. ~StreamCancelled
    BY DEF StreamCancelled, FinishCancelled, Emit, TurnOpen
  <2>2. CASE BackoffEnds
    BY <2>2 DEF BackoffEnds, AfterStop
  <2> QED BY <1>4, <2>1, <2>2 DEF Streams, StreamBreaks, StreamFails, StreamTooLong, StreamAnswers,
          StreamRefused, StreamCalls
<1>5. CASE Tools
  <2>1. /\ Answering /\ flag' = flag
        /\ Len(LastTurn.calls) \in Nat /\ Len(results) \in Nat
        /\ Len(results) <= Len(LastTurn.calls)
    BY <1>5, CountsTypes
    DEF Tools, CallTaken, CallSpawned, CallEnds, CallsAnswered, Answering, Counts
  <2>2. UNCHANGED transcript => LastTurn' = LastTurn
    BY DEF LastTurn
  <2>3. Len(results) < Len(LastTurn.calls) /\ AnswerCall => Len(results') = Len(results) + 1
    <3>1. CASE Len(results) < Len(LastTurn.calls)
      <4>1. LastTurn.calls \in Seq(CallId) /\ results \in Seq(CallId)
        BY <2>1, CountsTypes DEF Counts
      <4>2. CurrentCall \in CallId
        BY <2>1, <3>1, <4>1, ElementOfSeq DEF CurrentCall
      <4> QED BY <4>1, <4>2, AppendProperties DEF AnswerCall
    <3> QED BY <3>1
  <2>4. CASE CallTaken
    <3>1. /\ pc = "calls" /\ pc' = "calls" /\ AnswerCall /\ UNCHANGED transcript
          /\ Len(results) < Len(LastTurn.calls)
      BY <2>4 DEF CallTaken, session
    <3> HIDE DEF LastTurn
    <3> QED BY <2>1, <2>2, <2>3, <3>1 DEF AfterStop
  <2>5. CASE CallSpawned
    <3>1. pc = "spawn" /\ pc' = "running" /\ UNCHANGED <<transcript, results>>
      BY <2>5 DEF CallSpawned, session
    <3> QED BY <2>1, <2>2, <3>1 DEF AfterStop
  <2>6. CASE CallEnds
    <3>1. /\ pc = "running" /\ pc' = "calls" /\ AnswerCall /\ UNCHANGED transcript
          /\ Len(results) < Len(LastTurn.calls)
      BY <2>6 DEF CallEnds, session, Counts, Answering
    <3> QED BY <2>1, <2>2, <2>3, <3>1 DEF AfterStop
  <2>7. CASE CallsAnswered
    <3>1. pc = "calls" /\ pc' = "round"
      BY <2>7 DEF CallsAnswered, FinishCancelled, Emit, TurnOpen
    <3> QED BY <2>1, <3>1 DEF AfterStop
  <2> QED BY <1>5, <2>4, <2>5, <2>6, <2>7 DEF Tools
<1>6. CASE Compactions
  <2>1. pc = "shorten" /\ pc' \in {"round", "returned"} /\ flag' = flag
    BY <1>1, <1>6 DEF Compactions, Shortened, ShortenFails, SettleQuietly, SettleFull, Condensed,
       CondenseFails, Return
  <2> QED BY <2>1 DEF AfterStop
<1>7. CASE Stop
  BY <1>7 DEF Stop, vars
<1> QED BY <1>2, <1>3, <1>4, <1>5, <1>6, <1>7 DEF Next

(* Pressed in an open turn, the stop stays pressed until the turn is       *)
(* concluded, which takes the worker one step for each call the message at *)
(* hand has left and four more at most, none of which waits for the server *)
(* to finish a message (lib.rs:232-238, 311-338, 457).                     *)
THEOREM StopsAreHeard == Spec => []StopIsDue /\ [][StopComesNearer]_vars
<1>1. Init => Counts /\ IdleIsClosed
  BY InitCounts DEF Init, IdleIsClosed, TurnOpen
<1>2. Counts /\ [Next]_vars => Counts'
  BY CountsOn
<1>3. IInv /\ IdleIsClosed /\ [Next]_vars => IdleIsClosed'
  BY IdleStep
<1>4. IInv /\ IdleIsClosed /\ Counts => StopIsDue
  BY StopDue
<1>5. IInv /\ IdleIsClosed /\ Counts /\ [Next]_vars => [StopComesNearer]_vars
  BY StopNearer
<1> QED BY <1>1, <1>2, <1>3, <1>4, <1>5, Invariance, PTL DEF Spec
=============================================================================
