---------------------------- MODULE TurnContract ----------------------------
(***************************************************************************)
(* What the agent worker promises the rest of the program about one turn,  *)
(* with everything it does to keep the promise left out.                   *)
(*                                                                         *)
(* A turn is accepted, announced once (TurnStarted), concluded once        *)
(* (TurnEnded or Failed), and only then is the next one accepted.  A stop  *)
(* asked for while a turn is open stays asked for until that turn is       *)
(* concluded, and is forgotten when the next one is accepted.              *)
(***************************************************************************)
EXTENDS Naturals

VARIABLES
  phase,      \* "ready", "starting", "open" or "closing"
  endings,    \* how many concluding events this turn has had
  stopAsked   \* whether the stop button's flag is up

contractVars == <<phase, endings, stopAsked>>

Init ==
  /\ phase = "ready"
  /\ endings = 0
  /\ stopAsked = FALSE

Accept ==
  /\ phase = "ready"
  /\ phase' = "starting"
  /\ endings' = 0
  /\ stopAsked' = FALSE

Announce ==
  /\ phase = "starting"
  /\ phase' = "open"
  /\ UNCHANGED <<endings, stopAsked>>

Conclude ==
  /\ phase = "open"
  /\ phase' \in {"closing", "ready"}
  /\ endings' = 1
  /\ UNCHANGED stopAsked

(* The worker could not be set up: announced and failed in one breath.     *)
Decline ==
  /\ phase = "starting"
  /\ phase' = "ready"
  /\ endings' = 1
  /\ UNCHANGED stopAsked

Close ==
  /\ phase = "closing"
  /\ phase' = "ready"
  /\ UNCHANGED <<endings, stopAsked>>

AskStop ==
  /\ stopAsked' = TRUE
  /\ UNCHANGED <<phase, endings>>

Next == Accept \/ Announce \/ Conclude \/ Decline \/ Close \/ AskStop

Spec == Init /\ [][Next]_contractVars
=============================================================================
